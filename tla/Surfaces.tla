------------------------------ MODULE Surfaces ------------------------------
(***************************************************************************)
(* The functions and tools of mcp.py and the commands of cli.py: what each *)
(* checks of its arguments, on which client it works, and in which order   *)
(* it checks, builds, connects, asks, writes and closes.  Any of these may *)
(* fail.                                                                   *)
(*                                                                         *)
(* An entry is a record: via - how it gets its client; checks - the        *)
(* arguments it looks at itself; connects - whether it connects at once.   *)
(* The names of the MCP functions are those of mcp.py; the tool a server   *)
(* registers under such a name ends in _tool here.                         *)
(***************************************************************************)
EXTENDS Integers, Sequences, FiniteSets

VARIABLES
    entry,      \* what runs
    wrong,      \* the argument that is wrong, or "nothing"
    stages,     \* what is still to be done
    held,       \* what it has to give back: "nothing", "client" or "lease"
    thread,     \* its helper thread: where it is, and whether its result is whole
    outcome     \* what the caller has: nothing yet, an answer or an error; whether it was written

surfaceVars == <<entry, wrong, stages, held, thread, outcome>>

-----------------------------------------------------------------------------
(* mcp.py                                                                  *)

Entry(via, checks, connects) == [via |-> via, checks |-> checks, connects |-> connects]

\* _call_once: a client of its own, built with its timeout and host checked.
Own(checks) == Entry("own", checks \cup {"timeout", "host"}, TRUE)
\* _call_once without a market connection, and _call_without_market.
Bare(checks) == Entry("own", checks \cup {"timeout"}, FALSE)
\* _call_f10: an HTTP client, which holds nothing.
Http(checks) == Entry("http", checks \cup {"timeout"}, FALSE)
\* A client of the server's registry for the time of the call.
Leased(function) == [function EXCEPT !.via = "lease"]
\* A daemon thread with a client of its own, joined with a timeout.
Threaded(checks) == Entry("thread", checks, TRUE)

quote                 == Own({"codes"})
quote_depth           == Own({"codes"})
kline                 == Own({"count", "start", "batch_size", "codes"})
capital_changes       == Own({"codes", "batch_size"})
adjustment_factors    == Own({"codes", "batch_size"})
money_flow            == Own({"codes", "batch_size"})
daily_price_limits    == Own({"codes"})
minute                == Own({"codes", "batch_size"})
trades                == Own({"start", "count", "codes", "batch_size"})
call_auction          == Own({})
opening_match_today   == Own({})
opening_match_history == Own({})
auction_data          == Own({})
stock_profile         == Own({"codes"})
shortline_indicators  == Own({"codes"})
stock_topics          == Bare({})
topic_stocks          == Bare({})
company_profile       == Bare({})
hot_topics            == Bare({})
finance_report        == Bare({})
company_news          == Bare({"page", "page_size"})
f10_digest            == Http({})
us_stock_f10          == Http({"section"})
hk_stock_f10          == Http({"section"})
\* A kind without such a section is a KeyError, no less an error.
bond_f10              == Http({"kind", "section"})
industry_f10          == Http({"section"})
stock_analysis        == Http({"section"})
limit_up_down_list    == Http({})
limit_board_ladder    == limit_up_down_list
macro_indicators      == Threaded({})
macro_data            == Threaded({"period", "codes"})

quote_tool                 == Leased(quote)
quote_depth_tool           == Leased(quote_depth)
kline_tool                 == Leased(kline)
capital_changes_tool       == Leased(capital_changes)
adjustment_factors_tool    == Leased(adjustment_factors)
money_flow_tool            == Leased(money_flow)
daily_price_limits_tool    == Leased(daily_price_limits)
minute_tool                == Leased(minute)
trades_tool                == Leased(trades)
call_auction_tool          == Leased(call_auction)
opening_match_today_tool   == Leased(opening_match_today)
opening_match_history_tool == Leased(opening_match_history)
auction_data_tool          == Leased(auction_data)
stock_profile_tool         == Leased(stock_profile)
shortline_indicators_tool  == Leased(shortline_indicators)
stock_topics_tool          == Bare({})
topic_stocks_tool          == Bare({})
company_profile_tool       == Http({})
limit_up_down_list_tool    == Http({})
limit_board_ladder_tool    == limit_up_down_list_tool
hot_topics_tool            == Http({})
finance_report_tool        == Http({})
company_news_tool          == Http({"page", "page_size"})
market_news_tool           == Http({"page", "page_size"})
channel_news_tool          == Http({"page", "page_size"})

\* create_mcp_server registers these; f10_digest_tool to macro_data_tool call
\* the functions of the same name.
Functions == {quote, quote_depth, kline, capital_changes, adjustment_factors, money_flow,
    daily_price_limits, minute, trades, call_auction, opening_match_today, opening_match_history,
    auction_data, stock_profile, shortline_indicators, stock_topics, topic_stocks,
    company_profile, hot_topics, finance_report, company_news}
Delegates == {f10_digest, us_stock_f10, hk_stock_f10, bond_f10, industry_f10, stock_analysis,
    limit_up_down_list, limit_board_ladder, macro_indicators, macro_data}
create_mcp_server == Delegates \cup {quote_tool, quote_depth_tool, kline_tool,
    capital_changes_tool, adjustment_factors_tool, money_flow_tool, daily_price_limits_tool,
    minute_tool, trades_tool, call_auction_tool, opening_match_today_tool,
    opening_match_history_tool, auction_data_tool, stock_profile_tool, shortline_indicators_tool,
    stock_topics_tool, topic_stocks_tool, company_profile_tool, limit_up_down_list_tool,
    limit_board_ladder_tool, hot_topics_tool, finance_report_tool, company_news_tool,
    market_news_tool, channel_news_tool}

-----------------------------------------------------------------------------
(* cli.py                                                                  *)

\* A command builds its client first and reads its arguments after that: a
\* wrong one is an error under the finally clause that closes the client.
Command(checks) == Entry("command", checks, FALSE)
HttpCommand(checks) == Entry("http command", checks, FALSE)
FileCommand(checks) == Entry("file command", checks, FALSE)
\* One entry for each sub-command of a command.
Each(kind(_), checks) == { kind(checks[a]) : a \in DOMAIN checks }

cmd_version    == FileCommand({})
cmd_ping       == Command({})
cmd_workday    == Command({"date"})
cmd_quote      == Command({})
cmd_kline      == Command({"code"})
cmd_minute     == Command({"date"})
cmd_trades     == Command({"date"})
cmd_codes      == Command({})
cmd_finance    == Command({})
cmd_money_flow == Command({})
cmd_limits     == Command({"date"})
cmd_index      == HttpCommand({"code"})
cmd_ipo        == HttpCommand({})
cmd_f10 == Each(HttpCommand,
    [sections |-> {}, call |-> {"params", "entry"}, detail |-> {"params", "codes"},
     limit_board |-> {"params"}, news_channels |-> {"params"}, market_news |-> {"params", "tab"},
     channel_news |-> {"params", "channel"}, market |-> {"params"},
     of_one_code |-> {"params", "code"}])
cmd_ex == Each(Command,
    [count |-> {}, info |-> {}, quote |-> {"market", "code"}, quote_list |-> {"market", "category"},
     bars |-> {"market", "category", "code"}, minute |-> {"market", "code"},
     txn |-> {"market", "code"}])
cmd_mac == Each(Command,
    [quote |-> {"codes"}, kline |-> {"codes", "code", "period", "adjust"}, ranking |-> {"category"},
     board_list |-> {}, server_info |-> {}, symbol_info |-> {"codes", "code"},
     minute |-> {"codes", "code", "date"}, txn |-> {"codes", "code", "date"},
     auction |-> {"codes", "code"}, unusual |-> {}, goods_list |-> {"market"}])
cmd_macex == Each(Command,
    [count |-> {}, instruments |-> {"market"}, list |-> {"market"}, quote |-> {"market"},
     quote_list |-> {"market"}, kline |-> {"market", "code", "period", "adjust"},
     minute |-> {"market", "code", "date"}, txn |-> {"market", "code", "date"}])
cmd_fund == Each(Command,
    [markets |-> {}, list |-> {}, nav |-> {"code"}, kline |-> {"code", "period"}, info |-> {}])
cmd_offline == Each(FileCommand,
    [day |-> {"file"}, min |-> {"file"}, min5 |-> {"file"}, ex_day |-> {"file"},
     block |-> {"file"}, industry |-> {"file"}, gbbq |-> {"file"}, financial |-> {"file"}])
\* With --probe-server the server is asked, and whatever fails is answered by
\* the table the package has.
ex_markets     == Entry("fallback", {}, FALSE)

ShellCommands == {cmd_version, cmd_ping, cmd_workday, cmd_quote, cmd_kline, cmd_minute, cmd_trades,
    cmd_codes, cmd_finance, cmd_money_flow, cmd_limits, cmd_index, cmd_ipo, ex_markets}
    \cup cmd_f10 \cup cmd_ex \cup cmd_mac \cup cmd_macex \cup cmd_fund \cup cmd_offline

-----------------------------------------------------------------------------

AllEntries == Functions \cup create_mcp_server \cup ShellCommands

StagesOf(e) ==
    CASE e.via = "own"  -> <<"check", "build">> \o (IF e.connects THEN <<"connect">> ELSE <<>>)
                              \o <<"ask", "convert", "close">>
      [] e.via = "lease"    -> <<"check", "lease", "ask", "convert", "close">>
      [] e.via = "http"     -> <<"check", "ask", "convert">>
      [] e.via = "thread"   -> <<"check", "spawn", "join">>
      [] e.via = "command"  -> <<"build", "check", "ask", "write", "close">>
      [] e.via = "fallback" -> <<"build", "ask", "close", "write">>
      [] OTHER              -> <<"check", "ask", "write">>

NoThread == [at |-> "off", whole |-> FALSE]
Nothing == [what |-> "none", written |-> FALSE]

SurfaceTypeOK ==
    /\ entry \in AllEntries
    /\ held \in {"nothing", "client", "lease"}
    /\ thread \in [at : {"off", "connect", "work", "close", "ended"}, whole : BOOLEAN]
    /\ outcome \in [what : {"none", "answer", "error"}, written : BOOLEAN]

SurfaceInit ==
    /\ entry \in AllEntries
    /\ wrong \in entry.checks \cup {"nothing"}
    /\ stages = StagesOf(entry)
    /\ held = "nothing"
    /\ thread = NoThread
    /\ outcome = Nothing

At(stage) == stages # <<>> /\ Head(stages) = stage

\* What is left of the stages when the current one fails: the finally clause
\* and, for the table of markets, what comes instead of an answer.
After ==
    CASE entry.via = "fallback" -> (IF held # "nothing" /\ ~At("close") THEN <<"close">> ELSE <<>>)
                                      \o <<"write">>
      [] held # "nothing" /\ ~At("close") -> <<"close">>
      [] OTHER -> <<>>

\* Mutant of Fail: there is no finally clause.
FailAtOnce ==
    /\ stages' = <<>>
    /\ outcome' = [outcome EXCEPT !.what = "error"]

Fail ==
    /\ stages' = After
    /\ outcome' = [outcome EXCEPT !.what = IF entry.via = "fallback" THEN "none" ELSE "error"]

Proceed == stages' = Tail(stages)

Check ==
    /\ At("check")
    /\ IF wrong = "nothing" THEN Proceed /\ UNCHANGED outcome ELSE Fail
    /\ UNCHANGED <<entry, wrong, held, thread>>

\* A client is built, probing hosts where from_best_host does, or leased.
Take ==
    /\ At("build") \/ At("lease")
    /\ \/ /\ held' = IF At("lease") THEN "lease" ELSE "client"
          /\ Proceed
          /\ UNCHANGED outcome
       \/ Fail /\ UNCHANGED held
    /\ UNCHANGED <<entry, wrong, thread>>

Work ==
    /\ At("connect") \/ At("ask") \/ At("convert")
    /\ \/ /\ Proceed
          /\ outcome' = IF At("convert") THEN [outcome EXCEPT !.what = "answer"] ELSE outcome
       \/ Fail
    /\ UNCHANGED <<entry, wrong, held, thread>>

\* emit; the conversion to JSON or the file behind stdout may fail.
Write ==
    /\ At("write")
    /\ \/ /\ Proceed
          /\ outcome' = [what |-> "answer", written |-> TRUE]
       \/ /\ stages' = (IF held # "nothing" THEN <<"close">> ELSE <<>>)
          /\ outcome' = [outcome EXCEPT !.what = "error"]
    /\ UNCHANGED <<entry, wrong, held, thread>>

\* client.close() or the end of the lease.  A close that fails is an error,
\* whatever was answered.
GiveBack ==
    /\ At("close")
    /\ held' = "nothing"
    /\ \/ Proceed /\ UNCHANGED outcome
       \/ held = "client" /\ Fail
    /\ UNCHANGED <<entry, wrong, thread>>

Spawn ==
    /\ At("spawn")
    /\ thread' = [NoThread EXCEPT !.at = "connect"]
    /\ Proceed
    /\ UNCHANGED <<entry, wrong, held, outcome>>

\* work(): an exception before the client is connected ends the thread, a later
\* one goes through its finally clause.
ThreadStep ==
    /\ \/ /\ thread.at = "connect"
          /\ thread' \in {[thread EXCEPT !.at = "work"], [thread EXCEPT !.at = "ended"]}
       \/ /\ thread.at = "work"
          /\ thread' \in {[at |-> "close", whole |-> TRUE], [at |-> "close", whole |-> FALSE]}
       \/ /\ thread.at = "close"
          /\ thread' = [thread EXCEPT !.at = "ended"]
    /\ UNCHANGED <<entry, wrong, stages, held, outcome>>

\* join with a timeout: the caller may give up before the thread has ended.
Join ==
    /\ At("join")
    /\ Proceed
    /\ outcome' = [outcome EXCEPT !.what =
                     IF thread.at = "ended" /\ thread.whole THEN "answer" ELSE "error"]
    /\ UNCHANGED <<entry, wrong, held, thread>>

SurfaceNext == Check \/ Take \/ Work \/ Write \/ GiveBack \/ Spawn \/ ThreadStep \/ Join

SurfaceSpec == SurfaceInit /\ [][SurfaceNext]_surfaceVars

-----------------------------------------------------------------------------

\* Whatever fails, a function, a tool or a command that is over holds no client
\* and no lease; what it answers is whole, not the work of a thread that still
\* goes on; a wrong argument never is an answer; and the table of the markets
\* is written unless writing itself fails.
SurfacesAreTidy ==
    stages = <<>> =>
        /\ held = "nothing"
        /\ outcome.what = "answer" => wrong = "nothing" /\ thread.at \in {"off", "ended"}
        /\ outcome.what # "none"

\* A tool of the server refuses its arguments before it leases or builds
\* anything, so a request that cannot be served costs no connection.
RefusedBeforeTheNetwork ==
    wrong # "nothing" /\ entry \in create_mcp_server =>
        held = "nothing" /\ thread.at = "off"

=============================================================================
