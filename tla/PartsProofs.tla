------------------------------ MODULE PartsProofs ------------------------------
(***************************************************************************)
(* The theorems of the components, for the instances of MCParts: the       *)
(* properties the run of that module checks, for every value of its        *)
(* constants.  A behaviour of MCParts takes one component through its      *)
(* steps and leaves the others in their first state, so each of them does  *)
(* what its own specification allows; the rest is the component's theorem. *)
(***************************************************************************)
EXTENDS MCParts, TLAPS

\* Whatever the statistics files, the days and the sources are, a helper
\* answers from statistics of the days it resolved (helpers/shortline.py).
THEOREM HelpersAreTrue == Spec => []HelpersKeepTheirWord
<1>1. Init => Client!HelpersInit
  BY SMTT(60) DEF Init
<1>2. [Next]_vars => [Client!HelpersNext]_(Client!helperVars)
  BY SMTT(60) DEF Next, vars, helperVars, Client!helperVars
<1>3. Spec => Client!HelpersSpec
  BY <1>1, <1>2, PTL DEF Spec, Client!HelpersSpec
<1>4. Client!HelpersSpec => []Client!HelpersKeepTheirWord
  BY Client!HelperWords
<1>5. Client!HelpersKeepTheirWord => HelpersKeepTheirWord
  BY SMTT(60) DEF HelpersKeepTheirWord
<1> QED
  BY <1>3, <1>4, <1>5, PTL

\* A code is given up as empty only after the hosts it may ask were asked, no
\* more of them than the limits allow, in a batch of codes and in several calls
\* at a time (api/money_flow.py).
THEOREM EmptiesAreLookedFor == Spec => []EmptyWasLookedFor
<1>0. Client!MoneyFlowAssumption /\ Flows!MoneyFlowAssumption
  BY SmallAssumption
<1> DEFINE One == part # "flows"
           Two == part = "flows"
<1>1. Spec /\ []One => Client!FlowSpec
  <2>1. Init /\ One => Client!FlowInit
    BY SMTT(60) DEF Init
  <2>2. One /\ [Next]_vars => [Client!FlowNext]_(Client!flowVars)
    BY SMTT(60) DEF Next, vars, flowVars, Client!flowVars
  <2> QED
    BY <2>1, <2>2, PTL DEF Spec, Client!FlowSpec
<1>2. Spec /\ []Two => Flows!FlowSpec
  <2>1. Init /\ Two => Flows!FlowInit
    BY SMTT(60) DEF Init
  <2>2. Two /\ [Next]_vars => [Flows!FlowNext]_(Flows!flowVars)
    BY SMTT(60) DEF Next, vars, flowVars, Flows!flowVars
  <2> QED
    BY <2>1, <2>2, PTL DEF Spec, Flows!FlowSpec
<1>3. Spec => []One \/ []Two
  <2>1. One /\ [Next]_vars => One'
    BY SMTT(60) DEF Next, vars
  <2>2. Two /\ [Next]_vars => Two'
    BY SMTT(60) DEF Next, vars
  <2>3. One \/ Two
    BY SMTT(60)
  <2> QED
    BY <2>1, <2>2, <2>3, PTL DEF Spec
<1>4. Client!FlowSpec => []Client!EmptyWasLookedFor /\ []Client!ProbesAreBounded
  BY <1>0, Client!FlowIsLookedFor, Client!FlowProbesAreBounded
<1>5. Flows!FlowSpec => []Flows!EmptyWasLookedFor /\ []Flows!ProbesAreBounded
  BY <1>0, Flows!FlowIsLookedFor, Flows!FlowProbesAreBounded
<1>6. One /\ Client!EmptyWasLookedFor /\ Client!ProbesAreBounded => EmptyWasLookedFor
  BY SMTT(60) DEF EmptyWasLookedFor
<1>7. Two /\ Flows!EmptyWasLookedFor /\ Flows!ProbesAreBounded => EmptyWasLookedFor
  BY SMTT(60) DEF EmptyWasLookedFor
<1> QED
  BY <1>1, <1>2, <1>3, <1>4, <1>5, <1>6, <1>7, PTL

\* There is a pump exactly while somebody is subscribed, and the replies come
\* in their order and before the events they announce, if no client has more
\* requests under way than the queue of replies holds (http_server.py).
THEOREM GatewayIsOrderly == Ahead <= MaxResponses /\ Spec => []GatewaySessionsAreOrderly
<1>0. Gateway!GatewayAssumption
  BY SmallAssumption
<1>1. Init => Gateway!GatewayInit
  BY SMTT(60) DEF Init
<1>2. [Next]_vars => [Gateway!GatewayNext]_(Gateway!gatewayVars)
  BY SMTT(60) DEF Next, vars, gatewayVars, Gateway!gatewayVars
<1>3. Spec => Gateway!GatewaySpec
  BY <1>1, <1>2, PTL DEF Spec, Gateway!GatewaySpec
<1>4. Gateway!GatewaySpec => []Gateway!PumpWhileSubscribed
  BY <1>0, Gateway!GatewayPump
<1>5. Ahead <= MaxResponses /\ Gateway!GatewaySpec => []Gateway!RepliesComeFirst
  BY <1>0, Gateway!GatewayReplies
<1>6. Gateway!PumpWhileSubscribed /\ Gateway!RepliesComeFirst => GatewaySessionsAreOrderly
  BY SMTT(60) DEF GatewaySessionsAreOrderly
<1> QED
  BY <1>3, <1>4, <1>5, <1>6, PTL

\* Wherever the process ended, and in whatever write, a date of the board cache
\* says that each file and the table were asked for on that day or later; that
\* they came, or are whole, it does not say (boards.py 152-199).  With one writer
\* at a time no crash hides a record of a bar file or loses one that was reported
\* (offline/vipdoc.py).
THEOREM WhatTheDiskSaysHappened == (\A v, w \in Writers : v = w) /\ Spec => []FilesSurviveCrashes
<1>0. Client!OfflineAssumption
  BY SmallAssumption
<1>1. Init => Client!BoardInit /\ Client!OfflineInit
  BY SMTT(60) DEF Init
<1>2. [Next]_vars => [Client!BoardNext]_(Client!boardVars)
  BY SMTT(60) DEF Next, vars, boardVars, Client!boardVars
<1>3. [Next]_vars => [Client!OfflineNext]_(Client!offlineVars)
  BY SMTT(60) DEF Next, vars, offlineVars, Client!offlineVars
<1>4. Spec => Client!BoardSpec /\ Client!OfflineSpec
  BY <1>1, <1>2, <1>3, PTL DEF Spec, Client!BoardSpec, Client!OfflineSpec
<1>5. Client!BoardSpec => []Client!DateSaysWhatWasAsked
  BY Client!DatesSayWhatWasAsked
<1>6. (\A v, w \in Writers : v = w) => Client!OneWriter
  BY SMTT(60) DEF Client!OneWriter
<1>7. Client!OneWriter /\ Client!OfflineSpec =>
        [](Client!ReadersSeeWholeRecords /\ Client!WrittenDailyBarsSurvive
           /\ Client!ArchivesAreRefusedInTime)
  BY <1>0, Client!FilesStayWhole
<1>8. /\ Client!DateSaysWhatWasAsked /\ Client!ReadersSeeWholeRecords
      /\ Client!WrittenDailyBarsSurvive /\ Client!ArchivesAreRefusedInTime
      => FilesSurviveCrashes
  BY SMTT(60) DEF FilesSurviveCrashes
<1> QED
  BY <1>4, <1>5, <1>6, <1>7, <1>8, PTL

\* A client that was told of no failure gets the answer of its own command, and
\* so does every exchange of a Slot, of whatever generation (mac/client.py,
\* ex/client.py, slot.rs).
THEOREM AnswersAreOwn == Spec => []OwnAnswers
<1>0. Wire!WireAssumption
  BY SmallAssumption
<1>1. Init => Sessions!SessionInit /\ Wire!SlotInit
  BY SMTT(60) DEF Init
<1>2. [Next]_vars => [Sessions!SessionNext]_(Sessions!sessionVars)
  BY SMTT(60) DEF Next, vars, sessionVars, Sessions!sessionVars
<1>3. [Next]_vars => [Wire!SlotNext]_(Wire!wireVars)
  BY SMTT(60) DEF Next, vars, wireVars, Wire!wireVars
<1>4. Spec => Sessions!SessionSpec /\ Wire!SlotSpec
  BY <1>1, <1>2, <1>3, PTL DEF Spec, Sessions!SessionSpec, Wire!SlotSpec
<1>5. Sessions!SessionSpec => []Sessions!OwnAnswers
  BY Sessions!SessionsGetTheirOwn
<1>6. Wire!SlotSpec => [](Wire!SlotTypeOK /\ Wire!HandedOnClean)
  BY <1>0, Wire!ConnectionsAreHandedOnClean
<1>7. Wire!SlotSpec => []Wire!EveryFrameGoesOnce
  BY <1>0, Wire!FramesGoOnce
<1>8. Wire!SlotSpec => []Wire!AnswersAreTheirOwn
  BY <1>0, Wire!ExchangesGetTheirOwnAnswers
<1>9. Wire!SlotSpec => []Wire!EveryEndpointGetsItsTurn
  BY <1>0, Wire!EndpointsTakeTurns
<1>10. /\ Sessions!OwnAnswers /\ Wire!HandedOnClean /\ Wire!EveryFrameGoesOnce
       /\ Wire!AnswersAreTheirOwn /\ Wire!EveryEndpointGetsItsTurn
       => OwnAnswers
  BY SMTT(60) DEF OwnAnswers
<1> QED
  BY <1>4, <1>5, <1>6, <1>7, <1>8, <1>9, <1>10, PTL

================================================================================
