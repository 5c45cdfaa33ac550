--------------------------- MODULE PriceAdjustment ---------------------------
(***************************************************************************)
(* What dividends, bonus and rights issues do to prices, computed in three *)
(* places that do not call each other: the factors of equity.py, the daily *)
(* price limits of helpers/core.py, and the forward adjustment that        *)
(* MacClient falls back on when the server's own is broken (mac/adjust.py).*)
(*                                                                         *)
(* A capital change turns a price x into (x - c) / m.  A composition of    *)
(* such steps is a map x -> (k x + n) / d kept as a record; prices are     *)
(* fractions.                                                              *)
(***************************************************************************)
EXTENDS Integers, Sequences, FiniteSets, FiniteSetsExt, SequencesExt

CONSTANTS
    LastSession,     \* bound: calendar days
    MaxChanges,      \* bound: capital changes of one security
    Closes,          \* raw closing prices
    FirstDays        \* listing days without a limit: 5 in the code

AdjustmentAssumption ==
    /\ {LastSession, MaxChanges, FirstDays} \subseteq Nat
    /\ Closes \subseteq Nat \ {0}

VARIABLES
    request,      \* the call and its arguments
    changes,      \* the capital changes, in the server's order
    priced        \* where the call is, and its result

adjustmentVars == <<request, changes, priced>>

SessionDays == 1 .. LastSession
NoDay == 0

\* m = 1 + S + R and c = D - R * P of a record, by the share: cash of 1, a bonus
\* share, a right at a price of 1, a record that makes no sense, and one of
\* another category.
Terms == {[tag |-> 1, m |-> 1, c |-> 1], [tag |-> 1, m |-> 2, c |-> 0],
          [tag |-> 1, m |-> 2, c |-> -1], [tag |-> 1, m |-> 0, c |-> 0],
          [tag |-> 5, m |-> 1, c |-> 0]}

\* 0x000F may have a record without a date.
Change == {[date |-> d, tag |-> k.tag, m |-> k.m, c |-> k.c] : d \in SessionDays \cup {NoDay}, k \in Terms}

AdjustmentCalls ==
    [op : {"factors"}, anchor : SessionDays \cup {NoDay}, start : SessionDays \cup {NoDay}]
    \cup [op : {"limit"}, day : SessionDays, listed : SessionDays \cup {NoDay}]
    \cup [op : {"kline"}, provider : BOOLEAN]

\* Some trading days are lost to a suspension.
Bars == UNION {[days -> Closes] : days \in SUBSET SessionDays}

AdjustmentTypeOK ==
    /\ request \in AdjustmentCalls
    /\ changes \in Seq(Change) /\ Len(changes) <= MaxChanges
    /\ priced.at \in {"asked", "recompute", "done", "refused"}
    /\ priced.at = "done" /\ request.op = "kline" => priced.bars \in Bars

AdjustmentInit ==
    /\ request \in AdjustmentCalls
    /\ changes \in SeqOf(Change, MaxChanges)
    /\ request.op = "kline" => \A i \in DOMAIN changes : changes[i].date # NoDay
    /\ priced = [at |-> "asked"]

-----------------------------------------------------------------------------

Map(k, n, d) == [k |-> k, n |-> n, d |-> d]
Unchanged == Map(1, 0, 1)
Then(f, g) == Map(g.k * f.k, g.k * f.n + g.n * f.d, g.d * f.d)
Same(f, g) == f.k * g.d = g.k * f.d /\ f.n * g.d = g.n * f.d

Ex(e)   == Map(1, -e.c, e.m)
Undo(e) == Map(e.m, e.c, 1)

\* What a list of changes makes of a price, one after the other, and how that is
\* undone, the last one first.
Through(list) == FoldLeft(LAMBDA map, e : Then(map, Ex(e)), Unchanged, list)
Undone(list)  == FoldLeft(LAMBDA map, e : Then(map, Undo(e)), Unchanged, list)

\* _event_coefficients: m <= 0 raises.
Void(e) == e.m <= 0

\* Records by date (by = 1) or from the last date (-1), and on one day as the
\* server sent them.
InOrder(indices, by) ==
    LET order == SetToSortSeq(indices, LAMBDA i, j :
            \/ by * changes[i].date < by * changes[j].date
            \/ changes[i].date = changes[j].date /\ i < j)
    IN  [i \in 1 .. Len(order) |-> changes[order[i]]]

Dividends(days) == {i \in DOMAIN changes : changes[i].tag = 1 /\ changes[i].date \in days}

\* equity.py: the dated events from start_date on.
Selected == Dividends({d \in SessionDays : d >= request.start})
ByDate   == InOrder(Selected, 1)
Backward == InOrder(Selected, -1)
ToAnchor(e) == request.anchor = NoDay \/ e.date <= request.anchor

\* Mutant of QfqFrom: a row leaves out its own day.
QfqFromTheNextDay(d) == Through(SelectSeq(ByDate, LAMBDA e : e.date > d /\ ToAnchor(e)))

QfqFrom(d) == Through(SelectSeq(ByDate, LAMBDA e : e.date >= d /\ ToAnchor(e)))
HfqTo(d)   == Undone(SelectSeq(Backward, LAMBDA e : e.date <= d))

BuildFactors ==
    /\ priced.at = "asked"
    /\ request.op = "factors"
    /\ priced' =
          IF \/ request.anchor # NoDay /\ request.anchor < request.start
             \/ \E i \in Selected : Void(changes[i])
          THEN [at |-> "refused"]
          ELSE [at |-> "done",
                rows |-> {[date |-> d, qfq |-> QfqFrom(d), hfq |-> HfqTo(d)] :
                              d \in {changes[i].date : i \in Selected}}]
    /\ UNCHANGED <<request, changes>>

-----------------------------------------------------------------------------
\* helpers/core.py: _kline_previous_close_map, _today_capital_change_map,
\* _new_stock_phase, _build_daily_price_limit.

IsNew ==
    /\ request.listed # NoDay
    /\ request.listed <= request.day
    /\ request.day - request.listed + 1 <= FirstDays

\* The events of the day, or none if they could not be read, taken from the last
\* close before it.
LimitRow ==
    /\ priced.at = "asked"
    /\ request.op = "limit"
    /\ \E before \in SUBSET (1 .. request.day - 1), read \in BOOLEAN :
          LET today == IF read THEN InOrder(Dividends({request.day}), 1) ELSE <<>>
              close == before # {} /\ \A i \in DOMAIN today : ~Void(today[i])
          IN  priced' = [at |-> "done",
                  read |-> read,
                  from |-> IF before = {} THEN NoDay ELSE Max(before),
                  reference |-> IF close THEN Through(today) ELSE Unchanged,
                  status |-> IF IsNew THEN "no_price_limit"
                             ELSE IF close THEN "normal"
                             ELSE "missing_pre_close"]
    /\ UNCHANGED <<request, changes>>

-----------------------------------------------------------------------------
\* mac/client.py get_stock_kline with Adjust.QFQ, and mac/adjust.py.

Raw(bars) == [d \in DOMAIN bars |-> [n |-> bars[d], d |-> 1]]

\* compute_forward_factor: None where the code has a NaN, which is skipped.
Factor(close, e) ==
    IF close.n <= 0 \/ e.m = 0 THEN <<>>
    ELSE << [n |-> close.n - e.c * close.d, d |-> close.n * e.m] >>

\* The day before the event, as far as bars go, and all before it.  A second
\* event of the same day finds the closes as the first one left them.
AfterEvent(closes, e) ==
    LET cum == {d \in DOMAIN closes : d < e.date}
        f   == IF cum = {} THEN <<>> ELSE Factor(closes[Max(cum)], e)
    IN  IF f = <<>> THEN closes
        ELSE [d \in DOMAIN closes |->
                IF d \in cum THEN [n |-> closes[d].n * f[1].n, d |-> closes[d].d * f[1].d]
                ELSE closes[d]]

\* Mutant of Forward: the events in the server's order.
ForwardUnsorted(bars) ==
    FoldLeft(AfterEvent, Raw(bars),
             SelectSeq(changes, LAMBDA e : e.tag = 1 /\ e.date # NoDay))

Forward(bars) == FoldLeft(AfterEvent, Raw(bars), InOrder(Dividends(SessionDays), 1))

Bad(closes) == \E d \in DOMAIN closes : closes[d].n <= 0

\* The server's adjusted bars: an error, none or good ones end the call.
FetchAdjusted ==
    /\ priced.at = "asked"
    /\ request.op = "kline"
    /\ priced' \in {[at |-> "refused"], [at |-> "recompute"],
                    [at |-> "done", bars |-> <<>>, own |-> FALSE]}
    /\ UNCHANGED <<request, changes>>

\* The raw bars; a provider of events, an event and good prices are needed for
\* them to take the place of what the server said.
Recompute ==
    /\ priced.at = "recompute"
    /\ \/ priced' = [at |-> "refused"]
       \/ \E bars \in Bars :
             priced' = [at |-> "done", bars |-> bars,
                        own |-> bars # <<>> /\ request.provider /\ changes # <<>>
                                /\ ~Bad(Forward(bars)),
                        closes |-> Forward(bars)]
    /\ UNCHANGED <<request, changes>>

AdjustmentNext == BuildFactors \/ LimitRow \/ FetchAdjusted \/ Recompute

AdjustmentSpec == AdjustmentInit /\ [][AdjustmentNext]_adjustmentVars

-----------------------------------------------------------------------------

Done(op) == priced.at = "done" /\ request.op = op

\* The row for a bar, as docs/methods/7709-本地复权系数.md has its reader choose it.
QfqAt(b) ==
    LET later == {r \in priced.rows : b < r.date}
    IN  IF later = {} THEN Unchanged
        ELSE (CHOOSE r \in later : \A s \in later : r.date <= s.date).qfq
HfqAt(b) ==
    LET past == {r \in priced.rows : r.date <= b}
    IN  IF past = {} THEN Unchanged
        ELSE (CHOOSE r \in past : \A s \in past : s.date <= r.date).hfq

\* What happens to a price between two bars.
Between(b, c) == Through(SelectSeq(ByDate, LAMBDA e : e.date \in b + 1 .. c))

\* An adjusted series has no jump: a price before an event and what the event
\* makes of it are adjusted to the same, up to the anchor forward, and backward
\* where no day has two events - these are undone in the order they came in.
FactorsLeaveNoJump ==
    Done("factors") =>
        \A b, c \in SessionDays : b < c =>
            /\ request.anchor = NoDay \/ c <= request.anchor =>
                  Same(QfqAt(b), Then(Between(b, c), QfqAt(c)))
            /\ (\A i, j \in Selected : i # j => changes[i].date # changes[j].date) =>
                  Same(HfqAt(b), Then(Between(b, c), HfqAt(c)))

EventsSince(b) == Dividends(b + 1 .. request.day)

\* The price a limit is taken from is the last close, brought to the day by
\* every event since then, if the events were read and none fell into a
\* suspension; and a new listing has no limit.
LimitIsOfTheAdjustedClose ==
    Done("limit") =>
        /\ /\ priced.status = "normal"
           /\ priced.read
           /\ EventsSince(priced.from) = Dividends({request.day})
           => Same(priced.reference, Through(InOrder(EventsSince(priced.from), 1)))
        /\ (priced.status = "no_price_limit") = IsNew

\* Recomputed bars keep every return: from a bar to the next the adjusted price
\* moves as the raw one does from its ex-price, whatever the order of the events
\* and however long the suspension between the two.
ReturnsAreKept ==
    Done("kline") /\ priced.own =>
        \A b, c \in DOMAIN priced.bars :
            LET events == Dividends(b + 1 .. c)
                ex     == Through(InOrder(events, 1))
                before == priced.closes[b]
                after  == priced.closes[c]
            IN  /\ b < c
                /\ \A d \in b + 1 .. c - 1 : d \notin DOMAIN priced.bars
                /\ \A i \in events : ~Void(changes[i])
                => before.n * after.d * priced.bars[c] * ex.d
                   = after.n * before.d * (ex.k * priced.bars[b] + ex.n)

\* "the latest price stays": with bars that end before an event it does not.
LatestPriceStays ==
    Done("kline") /\ priced.own =>
        LET last == Max(DOMAIN priced.bars)
        IN  priced.closes[last].n = priced.bars[last] * priced.closes[last].d

\* A limit is never taken from a close that an event lies after: not after a
\* suspension with an event in it, nor when the events could not be read.
EventsAreNeverMissed ==
    Done("limit") /\ priced.status = "normal" =>
        priced.read /\ EventsSince(priced.from) = Dividends({request.day})

=============================================================================
