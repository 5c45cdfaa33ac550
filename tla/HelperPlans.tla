------------------------------ MODULE HelperPlans ------------------------------
(***************************************************************************)
(* The helpers (helpers/core.py, helpers/shortline.py): each one joins     *)
(* what several sources say of the codes it was asked for, in an order, a  *)
(* source at a time.  Sources differ in what a fault costs - the call, a   *)
(* page of codes, nothing - and in what the client remembers of them:      *)
(* trading days, statistics, securities, finance records, index members.   *)
(* The client lives on while trading days go by.                           *)
(*                                                                         *)
(* Every modelled day is a trading day.  A statistics file is told apart   *)
(* by its dominant date.                                                   *)
(***************************************************************************)
EXTENDS Integers, Sequences, FiniteSets

CONSTANTS
    HelperUsers,      \* threads that call helpers of one client
    HelperNames,      \* the helpers they call
    Lacking,          \* codes the server has no record of; a call asks for them or not
    LastDay,          \* bound: the last day
    MaxHelperCalls    \* bound: calls

HelperAssumption == LastDay \in Nat /\ LastDay >= 2 /\ MaxHelperCalls \in Nat

VARIABLES
    today,        \* the trading day the handshake names
    remembered,   \* what the client keeps between calls
    statsLock,    \* who holds _stats_lock
    helping,      \* per user: the call it is in
    helperOps     \* calls so far

helperVars == <<today, remembered, statsLock, helping, helperOps>>

HelperCodes == 1 .. 3
PageOf(p) == {2 * p - 1, 2 * p} \cap HelperCodes      \* 80 of them in the code

\* per: a request in all, or one per page; strict: a code without a record
\* fails the request (on_missing="raise"); costs: what a fault costs; keeps:
\* where the client remembers the source.
Source(name, per, strict, costs, keeps) ==
    [name |-> name, per |-> per, strict |-> strict, costs |-> costs, keeps |-> keeps]

Handshake      == Source("handshake", "call", FALSE, "call", "no")
Workdays       == Source("workdays", "call", FALSE, "call", "days")
Stats          == Source("stats", "call", FALSE, "call", "stats")
Snapshots      == Source("snapshots", "page", TRUE, "call", "no")
Depth          == Source("depth", "page", FALSE, "page", "no")
Finance        == Source("finance", "page", TRUE, "page", "finance")
FreshFinance   == Source("finance", "page", TRUE, "page", "no")
Securities     == Source("securities", "call", FALSE, "call", "securities")
FreshSecurities == Source("securities", "call", FALSE, "call", "no")
PreviousCloses == Source("closes", "page", FALSE, "page", "no")
RecentBars     == Source("bars", "page", FALSE, "page", "no")
Events         == Source("events", "call", FALSE, "source", "no")
OpeningRush    == Source("opening rush", "page", FALSE, "source", "no")
CodeTable      == Source("codes", "call", FALSE, "call", "no")
LegacyQuotes   == Source("legacy quotes", "page", FALSE, "call", "no")
CategoryPage   == Source("category", "page", FALSE, "call", "no")
TopicIds       == Source("topic ids", "call", FALSE, "call", "no")
HotTopics      == Source("hot topics", "call", FALSE, "call", "no")
TopicsOfRows   == Source("topics of rows", "page", FALSE, "page", "no")
TopicCompare   == Source("topic compare", "call", FALSE, "call", "no")
IndexListing   == Source("index", "call", FALSE, "call", "index")
AuctionSeries  == Source("auction", "call", FALSE, "call", "no")
OpeningMatch   == Source("opening match", "call", FALSE, "call", "no")
TodayTicks     == Source("ticks", "call", FALSE, "call", "no")
AuxLine        == Source("aux", "call", FALSE, "call", "no")

\* checks: when a bad argument is refused.
Helper(name, checks, sources) == [name |-> name, checks |-> checks, sources |-> sources]

full_quotes         == Helper("full_quotes", "first", <<Snapshots, Depth>>)
stock_profile_table == Helper("stock_profile_table", "first",
                              <<Snapshots, Depth, Securities, Finance>>)
\* _resolve_market_date_context, then the resource of the session.
Session == <<Handshake, Workdays, Stats>>
daily_share_capital == Helper("daily_share_capital", "first", Session \o <<Finance>>)
daily_price_limits  == Helper("daily_price_limits", "first",
                              <<Workdays, Securities, PreviousCloses, Finance, Events>>)
shortline_indicators == Helper("shortline_indicators", "first",
                               Session \o <<Snapshots, Depth, FreshSecurities, RecentBars,
                                            FreshFinance, OpeningRush>>)
\* count is looked at when the work is done.
limit_ladder        == Helper("limit_ladder", "last", shortline_indicators.sources)
theme_strength_rank == Helper("theme_strength_rank", "last",
                              limit_ladder.sources \o <<TopicsOfRows>>)
realtime_rank       == Helper("realtime_rank", "first", <<CategoryPage, Securities>>)
latest_stock_list   == Helper("latest_stock_list", "first", <<CodeTable>>)
latest_suspended    == Helper("latest_suspended", "first", <<CodeTable, LegacyQuotes, CodeTable>>)
stock_topics        == Helper("stock_topics", "first", <<TopicIds, HotTopics>>)
topic_stocks        == Helper("topic_stocks", "first", stock_topics.sources \o <<TopicCompare>>)
index_members       == Helper("index_members", "first", <<IndexListing>>)
ipo_calendar        == Helper("ipo_calendar", "first", <<IndexListing>>)
board_members       == Helper("board_members", "first", <<IndexListing>>)
auction_data        == Helper("auction_data", "first",
                              <<Handshake, AuctionSeries, OpeningMatch, Snapshots>>)
market_stat         == Helper("market_stat", "first", <<LegacyQuotes>>)
today_fund_flow     == Helper("today_fund_flow", "first", <<TodayTicks>>)
buy_sell_strength   == Helper("buy_sell_strength", "first", <<AuxLine>>)
\* BoardService after it prepared: see BoardCache.
board_quotes        == Helper("board_quotes", "first", <<Snapshots>>)

AllHelpers == {full_quotes, stock_profile_table, daily_share_capital, daily_price_limits,
               shortline_indicators, limit_ladder, theme_strength_rank, realtime_rank,
               latest_stock_list, latest_suspended, stock_topics, topic_stocks, index_members,
               ipo_calendar, board_members, auction_data, market_stat, today_fund_flow,
               buy_sell_strength, board_quotes}

NoHelper == Helper("none", "first", <<>>)
NotHelping == [helper |-> NoHelper, at |-> 0, page |-> 1, bad |-> FALSE, refresh |-> FALSE,
               lacks |-> {},
               on |-> 0, target |-> 0, previous |-> 0, stats |-> 0, lost |-> {},
               got |-> "none", why |-> "none"]
NothingKept == [days |-> 0, stats |-> 0, securities |-> 0, finance |-> {}, index |-> 0]

HelpersTypeOK ==
    /\ today \in 2 .. LastDay
    /\ \A kept \in {"days", "stats", "securities", "index"} : remembered[kept] \in 0 .. LastDay
    /\ statsLock \in HelperUsers \cup {"free"}
    /\ \A u \in HelperUsers : helping[u].helper \in AllHelpers \cup {NoHelper}

HelpersInit ==
    /\ today = 2
    /\ remembered = NothingKept
    /\ statsLock = "free"
    /\ helping = [u \in HelperUsers |-> NotHelping]
    /\ helperOps = 0

-----------------------------------------------------------------------------

Here(u) == helping[u].helper.sources[helping[u].at]
In(u, source) == helping[u].at > 0 /\ Here(u).name = source.name
Pages(source) == IF source.per = "page" THEN 2 ELSE 1

Ends(u, got, why) ==
    helping' = [helping EXCEPT ![u].at = 0, ![u].got = got, ![u].why = why]

\* The next source, or the rows; a helper that checks last raises here.
Onward(u, call) ==
    helping' = [helping EXCEPT ![u] =
        IF call.at < Len(call.helper.sources) THEN [call EXCEPT !.at = @ + 1, !.page = 1]
        ELSE IF call.bad THEN [call EXCEPT !.at = 0, !.got = "error", !.why = "argument"]
        ELSE [call EXCEPT !.at = 0, !.got = "rows"]]

CallHelper(u) ==
    /\ helping[u].at = 0
    /\ helperOps < MaxHelperCalls
    /\ helperOps' = helperOps + 1
    /\ \E helper \in { h \in AllHelpers : h.name \in HelperNames }, bad, refresh \in BOOLEAN,
         lacks \in {{}, Lacking} :
          LET call == [NotHelping EXCEPT !.helper = helper, !.bad = bad, !.refresh = refresh,
                                         !.lacks = lacks, !.on = today]
          IN  helping' = [helping EXCEPT ![u] =
                 IF bad /\ helper.checks = "first"
                 THEN [call EXCEPT !.got = "error", !.why = "argument"]
                 ELSE [call EXCEPT !.at = 1]]
    /\ UNCHANGED <<today, remembered, statsLock>>

\* The dates of the handshake; shortline waits for the auction, 09:25.
ShakeHands(u) ==
    /\ In(u, Handshake)
    /\ \/ Onward(u, [helping[u] EXCEPT !.target = today, !.on = today])
       \/ Ends(u, "error", "not ready")
    /\ UNCHANGED <<today, remembered, statsLock, helperOps>>

\* WorkdayService._ensure_loaded: the days of the benchmark are read once.
Loaded == IF remembered.days = 0 THEN today ELSE remembered.days

\* previous_workday: the last day of the list before the target.
PreviousWorkday(target) == IF Loaded >= target THEN target - 1 ELSE Loaded

ReadWorkdays(u) ==
    /\ In(u, Workdays)
    /\ remembered' = [remembered EXCEPT !.days = Loaded]
    /\ LET target == IF helping[u].target = 0 THEN today ELSE helping[u].target
       IN  \/ /\ helping[u].target = 0 => Loaded >= target
              /\ Onward(u, [helping[u] EXCEPT !.previous = PreviousWorkday(target)])
           \* daily_price_limits: is_workday of a day the list does not have.
           \/ /\ helping[u].target = 0 /\ Loaded < target
              /\ Ends(u, "error", "workdays")
    /\ UNCHANGED <<today, statsLock, helperOps>>

Fits(u, date) == date \in {helping[u].target, helping[u].previous}

\* Mutant of ReuseStats: what is kept is used as it is.
ReuseStatsOfAnyDay(u) ==
    /\ In(u, Stats) /\ statsLock = "free"
    /\ ~helping[u].refresh /\ remembered.stats # 0
    /\ Onward(u, [helping[u] EXCEPT !.stats = remembered.stats])
    /\ UNCHANGED <<today, remembered, statsLock, helperOps>>

\* _stats_resource, under the lock: what is kept, if its date will do.
ReuseStats(u) ==
    /\ In(u, Stats) /\ statsLock = "free"
    /\ ~helping[u].refresh /\ remembered.stats # 0 /\ Fits(u, remembered.stats)
    /\ Onward(u, [helping[u] EXCEPT !.stats = remembered.stats])
    /\ UNCHANGED <<today, remembered, statsLock, helperOps>>

LockStats(u) ==
    /\ In(u, Stats) /\ statsLock = "free"
    /\ helping[u].refresh \/ remembered.stats = 0 \/ ~Fits(u, remembered.stats)
    /\ statsLock' = u
    /\ UNCHANGED <<today, remembered, helping, helperOps>>

\* The file of yesterday or, when it is out, of today; a file of two dates is
\* refused as one of a wrong date is, and nothing is kept of it.
DownloadStats(u) ==
    /\ In(u, Stats) /\ statsLock = u
    /\ statsLock' = "free"
    /\ \/ \E date \in {today - 1, today} :
             /\ Fits(u, date)
             /\ remembered' = [remembered EXCEPT !.stats = date]
             /\ Onward(u, [helping[u] EXCEPT !.stats = date])
       \/ /\ Ends(u, "error", "stats")
          /\ UNCHANGED remembered
    /\ UNCHANGED <<today, helperOps>>

\* What is kept of securities, finance records and, without refresh, index
\* listings is used as it is.
Kept(u) ==
    \/ Here(u).keeps = "securities" /\ remembered.securities # 0
    \/ Here(u).keeps = "index" /\ remembered.index # 0 /\ ~helping[u].refresh
    \/ Here(u).keeps = "finance" /\ remembered.finance # {}

UseKept(u) ==
    /\ helping[u].at > 0 /\ Kept(u)
    /\ Onward(u, helping[u])
    /\ UNCHANGED <<today, remembered, statsLock, helperOps>>

Plain(u) ==
    /\ helping[u].at > 0
    /\ Here(u).name \notin {"handshake", "workdays", "stats"}
    /\ ~Kept(u)

\* The pages of a source are done: it is kept, whatever a page has lost.
Remember(source, lost) ==
    remembered' = CASE source.keeps \in {"securities", "index"} ->
                         [remembered EXCEPT ![source.keeps] = today]
                    [] source.keeps = "finance" ->
                         [remembered EXCEPT !.finance =
                             {IF source.name \in lost THEN "part" ELSE "whole"}]
                    [] OTHER -> remembered

PageDone(u, call) ==
    IF call.page < Pages(Here(u))
    THEN helping' = [helping EXCEPT ![u] = [call EXCEPT !.page = @ + 1]] /\ UNCHANGED remembered
    ELSE Onward(u, call) /\ Remember(Here(u), call.lost)

PageAnswered(u) ==
    /\ Plain(u)
    /\ Here(u).strict => PageOf(helping[u].page) \cap helping[u].lacks = {}
    /\ PageDone(u, helping[u])
    /\ UNCHANGED <<today, statsLock, helperOps>>

PageLost(u, why) ==
    /\ CASE Here(u).costs = "call"   -> /\ Ends(u, "error", why)
                                        /\ UNCHANGED remembered
         [] Here(u).costs = "page"   ->
              PageDone(u, [helping[u] EXCEPT !.lost = @ \cup {Here(u).name}])
         [] Here(u).costs = "source" ->
              /\ Onward(u, [helping[u] EXCEPT !.lost = @ \cup {Here(u).name}])
              /\ UNCHANGED remembered
    /\ UNCHANGED <<today, statsLock, helperOps>>

PageFails(u) == Plain(u) /\ PageLost(u, Here(u).name)

\* MissingCodesError: one code without a record costs its page what a fault
\* does.
PageLacks(u) ==
    /\ Plain(u)
    /\ Here(u).strict /\ PageOf(helping[u].page) \cap helping[u].lacks # {}
    /\ PageLost(u, "missing")

\* HelperApi.clear_cache; the trading days stay.
ClearHelpers ==
    /\ statsLock = "free"
    /\ remembered' = [NothingKept EXCEPT !.days = remembered.days]
    /\ remembered' # remembered
    /\ UNCHANGED <<today, statsLock, helping, helperOps>>

\* WorkdayService.refresh.
RefreshWorkdays ==
    /\ remembered.days \notin {0, today}
    /\ remembered' = [remembered EXCEPT !.days = today]
    /\ UNCHANGED <<today, statsLock, helping, helperOps>>

NextDay ==
    /\ today < LastDay
    /\ today' = today + 1
    /\ UNCHANGED <<remembered, statsLock, helping, helperOps>>

HelperStep(u) ==
    \/ CallHelper(u) \/ ShakeHands(u) \/ ReadWorkdays(u)
    \/ ReuseStats(u) \/ LockStats(u) \/ DownloadStats(u)
    \/ UseKept(u) \/ PageAnswered(u) \/ PageFails(u) \/ PageLacks(u)

HelpersNext ==
    \/ \E u \in HelperUsers : HelperStep(u)
    \/ ClearHelpers
    \/ RefreshWorkdays
    \/ NextDay

HelpersSpec == HelpersInit /\ [][HelpersNext]_helperVars

-----------------------------------------------------------------------------

\* A call is made of the statistics of one of the two days it resolved, and
\* is not stopped by a source it can do without: the depth of a quote, a page
\* of finance records, the bars of a code, the events, the opening rush
\* (shortline.py 184-203, core.py 691-724, 930-948, docs/helpers/完整行情.md:71).
HelpersKeepTheirWord ==
    \A u \in HelperUsers :
        LET call == helping[u]
        IN  /\ call.got = "rows" /\ Stats \in {call.helper.sources[i] : i \in 1 .. Len(call.helper.sources)}
                  => Fits(u, call.stats)
            /\ call.got = "error" => call.why \notin {"depth", "finance", "closes", "bars",
                                                     "events", "opening rush", "topics of rows"}

\* "The previous trading day comes from the actual daily bars": the statistics
\* an answer is made of are of the day it asked on, or of the trading day
\* before that one (docs/helpers/短线指标.md, workday.py 144-161).
StatsAreOfTheLastSession ==
    \A u \in HelperUsers :
        helping[u].got = "rows" /\ helping[u].stats # 0
            => helping[u].stats \in {helping[u].on - 1, helping[u].on}

\* "A code that got no quote keeps its row" (docs/helpers/板块成分股行情.md,
\* docs/helpers/板块行情.md:88): a board with such a code has an answer.
MissingQuoteKeepsItsRow ==
    \A u \in HelperUsers :
        helping[u].helper = board_quotes => helping[u].why # "missing"

=============================================================================
