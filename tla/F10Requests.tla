---------------------------- MODULE F10Requests ----------------------------
(***************************************************************************)
(* f10/client.py: the methods of F10Client.  Each looks at some arguments, *)
(* may ask one entry first for what it puts into its own request, and asks *)
(* its entry, once, twice or page by page.  _post chooses the gateway by   *)
(* the family of the entry, and opens a connection, IPv4 addresses first.  *)
(*                                                                         *)
(* A method is a record: its family; checks - the arguments that it        *)
(* refuses when they are wrong; first - what it asks before; then - how it *)
(* asks its entry.                                                         *)
(***************************************************************************)
EXTENDS Integers, Sequences, FiniteSets, SequencesExt

CONSTANTS
    MaxItems,     \* bound: items of a listing
    PageItems,    \* items of a page
    PageLimit,    \* max_pages
    Addresses     \* bound: addresses of a gateway

F10Assumption ==
    {MaxItems, PageItems, PageLimit, Addresses} \subseteq Nat \ {0}

VARIABLES
    method,       \* the method that runs
    mistaken,     \* its wrong argument, or "nothing"
    listing,      \* of a gateway: its items, the page it slips back to, whether it counts
    todo,         \* what is to be done
    sent,         \* the gateways that were asked
    pageNo,       \* the page to ask for
    table,        \* the items read
    sockets,      \* of one connection: addresses left to try, sockets open
    reply         \* "none", "value" or an error

f10Vars == <<method, mistaken, listing, todo, sent, pageNo, table, sockets, reply>>

Method(family, checks, first, then) ==
    [family |-> family, checks |-> checks, first |-> first, then |-> then]
One(family, checks) == Method(family, checks, "nothing", "once")

-----------------------------------------------------------------------------
(* A shares: a code of six digits, and sections of a table                 *)

stock_info           == One("tdxf10", {"code"})
business_periods     == stock_info
topic_ids            == stock_info
company_profile      == stock_info
shareholders         == One("tdxf10", {"code", "section"})
capital_structure    == One("tdxf10", {"code", "section", "date"})
business_report      == One("tdxf10", {"code", "section"})
industry_analysis    == One("tdxf10", {"code", "section"})
trading_report       == One("tdxf10", {"code", "section"})
digest               == One("tdxf10", {"code", "section"})
profit_forecast      == One("tdxf10", {"code", "section"})
dividend_financing   == stock_info
allotment_dates      == stock_info
allotment_details    == stock_info
finance_report       == stock_info
finance_diagnosis    == stock_info
stock_score          == stock_info
ranking_detail       == stock_info
governance           == stock_info
hot_topics           == stock_info
topic_compare        == stock_info
company_news         == stock_info
northbound_holding   == stock_info
stock_finance_weights == stock_info
detail               == One("tdxf10", {})
\* Without a date or a topic, the latest one is asked first, and there is none
\* to ask about when the answer is empty.
business_composition == Method("tdxf10", {"code"}, "must", "once")
topic_compare_first  == business_composition
\* Without a period, the latest one; an empty one is asked for if there is none.
fund_report          == Method("jj", {"code", "section"}, "may", "once")

cache_list           == One("search", {"kind", "code"})
news_channels        == Method("none", {}, "nothing", "never")
market_news          == One("zxxw", {"tab"})
channel_news         == One("zxxw", {"channel"})
theme_market         == One("hq", {"code"})
stock_board_member_quotes == theme_market
valuation            == theme_market

\* The list of limits of a span of dates; its summary is a request of its own.
limit_up_down_list   == Method("ladder", {"dates"}, "nothing", "twice")
limit_board_ladder   == limit_up_down_list

market_report        == One("bk", {"code", "section"})
index_members        == Method("bk", {"code"}, "nothing", "pages")
index_tracking_products == index_members
board_members        == Method("bk", {"code"}, "nothing", "new pages")
ipo_calendar         == One("bk", {})

-----------------------------------------------------------------------------
(* The families of the second gateway                                      *)

MgChecked == One("mg", {"code", "section"})   \* mg_tips, mg_finance, mg_capital ...
MgFree    == One("mg", {"code"})              \* mg_name, mg_profile, mg_shareholders ...
HkChecked == One("hk", {"code", "section"})   \* hk_finance, hk_finance_indicator
HkFree    == One("hk", {"code"})
hk_analyst_forecast == HkFree
SbMethods == One("sb", {"code"})
\* Convertible, government, corporate and the other bonds.
KzzMethods == One("bond", {"code"})
GzMethods  == KzzMethods
QyzMethods == KzzMethods
OtherBonds == KzzMethods
\* An industry or a variety is any text; a section outside the table is a
\* KeyError or a ValueError.
hy_summary      == One("hy", {"section"})
hy_members_rank == hy_summary
HyMethods       == One("hy", {})
qh_position_report == One("qh", {"section"})
qh_variety_info == qh_position_report
QhMethods       == One("qh", {})

Methods == {stock_info, shareholders, capital_structure, detail, business_composition, fund_report,
    cache_list, news_channels, market_news, channel_news, theme_market, limit_up_down_list,
    market_report, index_members, board_members, ipo_calendar, MgChecked, MgFree, HkChecked,
    HkFree, SbMethods, KzzMethods, hy_summary, HyMethods, qh_position_report, QhMethods}

\* _post, with the base URLs of __init__.
Gateway(family) ==
    CASE family = "ladder" -> "hot"
      [] family \in {"mg", "hk", "sb", "bond", "hy", "qh"} -> "page2"
      [] OTHER -> "static"

-----------------------------------------------------------------------------

F10TypeOK ==
    /\ method \in Methods
    /\ mistaken \in method.checks \cup {"nothing"}
    /\ ToSet(todo) \subseteq {"check", "first", "ask", "summary", "page"}
    /\ pageNo \in 1 .. PageLimit
    /\ ToSet(table) \subseteq 1 .. MaxItems
    /\ sockets.left \in 0 .. Addresses /\ sockets.open \in 0 .. 1
    /\ reply \in {"none", "value", "ValueError", "ProtocolError", "TransportError", "OSError"}

Stages(m) ==
    <<"check">> \o (IF m.first = "nothing" THEN <<>> ELSE <<"first">>)
    \o (CASE m.then = "once"  -> <<"ask">>
          [] m.then = "twice" -> <<"ask", "summary">>
          [] m.then = "never" -> <<>>
          [] OTHER            -> <<"page">>)

\* A gateway that slips answers a page after the given one with that one again.
F10Init ==
    /\ method \in Methods
    /\ mistaken \in method.checks \cup {"nothing"}
    /\ listing \in IF method.then \in {"pages", "new pages"}
                   THEN [items : 0 .. MaxItems, slips : {1, PageLimit}, counts : BOOLEAN]
                   ELSE {[items |-> 0, slips |-> PageLimit, counts |-> FALSE]}
    /\ todo = Stages(method)
    /\ sent = <<>> /\ table = <<>> /\ pageNo = 1
    /\ sockets = [left |-> 0, open |-> 0]
    /\ reply = "none"

Doing(stage) == reply = "none" /\ todo # <<>> /\ Head(todo) = stage
Raises(error) ==
    /\ reply' = error
    /\ UNCHANGED <<method, mistaken, listing, todo, sent, pageNo, table>>

\* _code6, _us_code, _hk_code, _bond_code, _require_section, _date_text ...
CheckArguments ==
    /\ Doing("check") /\ mistaken = "nothing"
    /\ todo' = Tail(todo)
    /\ UNCHANGED <<method, mistaken, listing, sent, pageNo, table, sockets, reply>>

Refuse ==
    /\ Doing("check") /\ mistaken # "nothing"
    /\ Raises(IF mistaken = "code" THEN "ProtocolError" ELSE "ValueError")
    /\ UNCHANGED sockets

-----------------------------------------------------------------------------
(* _connect_ipv4_first and _post                                           *)

Asking == reply = "none" /\ todo # <<>> /\ Head(todo) # "check"

Resolve ==
    /\ Asking /\ sockets = [left |-> 0, open |-> 0]
    /\ \E n \in 1 .. Addresses : sockets' = [left |-> n, open |-> 0]
    /\ sent' = Append(sent, Gateway(method.family))
    /\ UNCHANGED <<method, mistaken, listing, todo, pageNo, table, reply>>

\* A socket that does not connect is closed before the next address.
TryNext ==
    /\ Asking /\ sockets.left > 1 /\ sockets.open = 0
    /\ sockets' = [sockets EXCEPT !.left = @ - 1]
    /\ UNCHANGED <<method, mistaken, listing, todo, sent, pageNo, table, reply>>

\* urllib wraps what it meets until the request is out.
NoAddressAnswers ==
    /\ Asking /\ sockets.left = 1 /\ sockets.open = 0
    /\ sockets' = [left |-> 0, open |-> 0]
    /\ Raises("TransportError")

OpenGateway ==
    /\ Asking /\ sockets.left > 0 /\ sockets.open = 0
    /\ sockets' = [left |-> 0, open |-> 1]
    /\ UNCHANGED <<method, mistaken, listing, todo, sent, pageNo, table, reply>>

\* An HTTP error or a timeout; a body that is no JSON object; a connection
\* reset while the answer is read, which is raised as it is.  The response,
\* and with it the socket, is closed by the with clause.
GatewayFails ==
    /\ Asking /\ sockets.open = 1
    /\ \E error \in {"TransportError", "ProtocolError", "OSError"} : Raises(error)
    /\ sockets' = [sockets EXCEPT !.open = 0]

Answered == Asking /\ sockets.open = 1 /\ sockets' = [sockets EXCEPT !.open = 0]

\* The first value, or none: _first_value, _latest_report_period.
AnswerFirst ==
    /\ Doing("first") /\ Answered
    /\ \/ todo' = Tail(todo) /\ UNCHANGED reply
       \/ /\ method.first = "must"
          /\ reply' = "ProtocolError" /\ UNCHANGED todo
    /\ UNCHANGED <<method, mistaken, listing, sent, pageNo, table>>

AnswerEntry ==
    /\ Doing("ask") \/ Doing("summary")
    /\ Answered
    \* include_summary = FALSE ends here.
    /\ todo' \in {Tail(todo), <<>>}
    /\ UNCHANGED <<method, mistaken, listing, sent, pageNo, table, reply>>

\* The items of a page, which a gateway that slips gives again.
PageOf(n) ==
    LET k == IF n > listing.slips THEN listing.slips ELSE n
    IN [i \in 1 .. PageItems |-> (k - 1) * PageItems + i]
Batch == SelectSeq(PageOf(pageNo), LAMBDA i : i <= listing.items)
New == SelectSeq(Batch, LAMBDA i : i \notin ToSet(table))
Added == IF method.then = "new pages" THEN New ELSE Batch

\* Mutant of LastPage: max_pages is not looked at.
LastPageUnlimited ==
    \/ Len(Batch) < PageItems
    \/ listing.counts /\ Len(table) + Len(Added) >= listing.items
    \/ method.then = "new pages" /\ New = <<>>

LastPage ==
    \/ Len(Batch) < PageItems
    \/ pageNo >= PageLimit
    \/ listing.counts /\ Len(table) + Len(Added) >= listing.items
    \/ method.then = "new pages" /\ New = <<>>

\* index_members, index_tracking_products; board_members drops what it has.
AnswerPage ==
    /\ Doing("page") /\ Answered
    /\ table' = table \o Added
    /\ IF LastPage THEN todo' = Tail(todo) /\ UNCHANGED pageNo
                   ELSE pageNo' = pageNo + 1 /\ UNCHANGED todo
    /\ UNCHANGED <<method, mistaken, listing, sent, reply>>

Return ==
    /\ reply = "none" /\ todo = <<>>
    /\ reply' = "value"
    /\ UNCHANGED <<method, mistaken, listing, todo, sent, pageNo, table, sockets>>

F10Next ==
    \/ CheckArguments \/ Refuse \/ Resolve \/ TryNext \/ NoAddressAnswers \/ OpenGateway
    \/ GatewayFails \/ AnswerFirst \/ AnswerEntry \/ AnswerPage \/ Return

F10Spec == F10Init /\ [][F10Next]_f10Vars

-----------------------------------------------------------------------------

\* Nothing leaves for any gateway when an argument is wrong - not even the
\* request that a method makes before its own - and no socket outlives the
\* method, whichever address or answer failed.
F10IsTidy ==
    /\ mistaken # "nothing" => sent = <<>>
    /\ reply # "none" => sockets.open = 0

\* The members of a listing come whole and in order from a gateway that does
\* not slip, page limit aside; board_members never gives one twice, even from
\* one that does, and does not ask again and again for what it has.
MembersAreWhole ==
    reply = "value" /\ method.then \in {"pages", "new pages"} =>
        /\ listing.slips >= pageNo => \/ table = [i \in 1 .. listing.items |-> i]
                                      \/ pageNo = PageLimit
        /\ method.then = "new pages" => /\ IsInjective(table)
                                        /\ listing.slips = 1 => pageNo <= 2

\* The hierarchy of exceptions.py: what keeps the transport from completing a
\* request is a TransportError.
LossesAreTransportErrors == reply # "OSError"

=============================================================================
