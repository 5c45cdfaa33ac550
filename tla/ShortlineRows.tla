---------------------------- MODULE ShortlineRows ----------------------------
(***************************************************************************)
(* A row of shortline_indicators (helpers/shortline.py): the statistics of *)
(* a security, from a file of the target session or of the one before it,  *)
(* brought to the target session with the live quote.                      *)
(*                                                                         *)
(* Days are trading sessions; the statistics of a day follow from the days *)
(* on which the security ended at its upper limit.  A column of amounts is *)
(* told apart by the day whose amount it is.                               *)
(***************************************************************************)
EXTENDS Integers, Sequences, FiniteSets, FiniteSetsExt

CONSTANTS
    Target,      \* the target session; sessions are counted from 1
    Listings     \* "main", "st", "new": listings by the limit they have

RowAssumption == Target \in Nat /\ Target > 2 /\ Listings \subseteq {"main", "st", "new"}

VARIABLES
    limitDays,   \* the sessions that end at the limit; the target's: it is there now
    security,    \* its kind of listing
    stat, stat2, \* the days of the security's rows in the two files, or none
    quote,       \* the live quote
    indicator    \* the row that is built

rowVars == <<limitDays, security, stat, stat2, quote, indicator>>

NoDay == 0
NoQuote == [last |-> "none", high |-> "none", bid |-> "none"]
Unbuilt == [status |-> "unbuilt"]
Previous == Target - 1

\* A price: the real limit; the step below it that the code takes for the limit
\* of an ST security; a lower one.
Prices == {"below", "step", "limit"}

\* At the limit the bids stand there, if the quote came with its levels; a last
\* price at the limit may have lower bids or none.
Quotes ==
    {NoQuote} \cup
    (IF Target \in limitDays
     THEN [last : {"limit"}, high : {"limit"}, bid : {"limit", "none"}]
     ELSE {q \in [last : Prices, high : Prices, bid : {"below", "none"}] :
              /\ q.last = "limit" => q.high = "limit"
              /\ q.last = "step" => q.high # "below"})

RowTypeOK ==
    /\ limitDays \subseteq 1 .. Target
    /\ security \in Listings
    /\ {stat, stat2} \subseteq 0 .. Target
    /\ quote \in Quotes
    /\ indicator.status \in {"unbuilt", "unknown", "none", "touched", "sealed"}

RowInit ==
    /\ limitDays \in SUBSET (1 .. Target)
    /\ security \in Listings
    /\ stat \in 0 .. Target
    /\ stat2 \in 0 .. Target
    /\ quote \in Quotes
    /\ indicator = Unbuilt

-----------------------------------------------------------------------------
\* The files, as their columns are used: external.

\* limit_up_streak_days of the file of a day.
Streak(d) == Cardinality({b \in 1 .. d : b .. d \subseteq limitDays})

\* limit_stat_days and limit_up_count_in_stat_days: the days since the first of
\* the limits counted, and their number.
Window(d) ==
    LET counted == limitDays \cap 1 .. d
    IN  IF counted = {} THEN [days |-> 0, count |-> 0]
        ELSE [days |-> d - Min(counted) + 1, count |-> Cardinality(counted)]

-----------------------------------------------------------------------------

\* _price_limit_ratio: a name with N or C has no limit; one with ST has 5 %, where
\* the exchange and helpers/core.py have 10; others what their code says.
KnowsLimit == security # "new"

\* The price beside the limit that is computed so.
Computed(price) ==
    CASE price = "limit" -> IF security = "st" THEN "over" ELSE "at"
      [] price = "step"  -> IF security = "st" THEN "at" ELSE "under"
      [] OTHER -> "under"

\* A price at the limit counts as sealed with bid1 there, or anything bid at all.
LimitStatus ==
    IF quote = NoQuote THEN "unknown"
    ELSE IF ~KnowsLimit THEN "none"
    ELSE IF Computed(quote.last) = "at" /\ quote.bid # "none" THEN "sealed"
    ELSE IF {Computed(quote.last), Computed(quote.high)} # {"under"} THEN "touched"
    ELSE "none"

Usable(day) == day \in {Previous, Target}

\* A row of tdxstat.cfg that is of neither day is not used.
StatDay == IF Usable(stat) THEN stat ELSE NoDay

\* Mutant of Aligned: the columns of a file are taken as they are named.
AlignedByName ==
    IF stat2 = NoDay THEN [status |-> "stats_row_missing", prev |-> NoDay, prev2 |-> NoDay]
    ELSE [status |-> "same_day", prev |-> stat2 - 1, prev2 |-> stat2 - 2]

\* prev: the day of prev_amount, prev_seal_amount and the opening columns;
\* prev2: that of prev2_seal_amount.
Aligned ==
    CASE stat2 = NoDay -> [status |-> "stats_row_missing", prev |-> NoDay, prev2 |-> NoDay]
      [] stat2 = Target -> [status |-> "same_day", prev |-> stat2 - 1, prev2 |-> stat2 - 2]
      [] stat2 = Previous ->
            [status |-> "previous_trading_day", prev |-> stat2, prev2 |-> stat2 - 1]
      [] OTHER -> [status |-> "stats_date_unaligned", prev |-> NoDay, prev2 |-> NoDay]

\* _row_stats_date: of tdxstat2.cfg, else of tdxstat.cfg.
StatsDate == IF stat2 # NoDay THEN stat2 ELSE StatDay

Ladder ==
    IF LimitStatus # "sealed" \/ StatDay = NoDay THEN NoDay
    ELSE CASE StatsDate = Target   -> Max({1, Streak(StatDay)})
           [] StatsDate = Previous -> Max({1, Streak(StatDay) + 1})
           [] OTHER -> NoDay

\* days and count, with today where the file is of the day before.
Board ==
    LET file == Window(StatDay)
    IN  IF LimitStatus = "sealed" /\ StatsDate = Previous
        THEN [days |-> file.days + 1, count |-> file.count + 1]
        ELSE file

BuildIndicator ==
    /\ indicator = Unbuilt
    /\ indicator' = [status |-> LimitStatus, aligned |-> Aligned, ladder |-> Ladder,
                     board |-> Board]
    /\ UNCHANGED <<limitDays, security, stat, stat2, quote>>

RowNext == BuildIndicator

RowSpec == RowInit /\ [][RowNext]_rowVars

-----------------------------------------------------------------------------

Built == indicator # Unbuilt

\* Whatever day the file is of, the row compares the target session with the
\* session before it, and that with the one before.
YesterdayIsYesterday ==
    Built /\ indicator.aligned.prev # NoDay =>
        indicator.aligned.prev = Previous /\ indicator.aligned.prev2 = Previous - 1

\* For a security at its limit, the height of its ladder and "n days m limits"
\* are what the file of the target session will say, if both rows are of one
\* day; the file of the day before neither loses today nor counts it twice.
LadderCountsToday ==
    Built /\ indicator.status = "sealed" /\ Target \in limitDays /\ stat = stat2 /\ Usable(stat) =>
        /\ indicator.ladder = Streak(Target)
        /\ indicator.board = Window(Target)

\* "少量个股行日期不一致时 ... 不会跨日误算": the same if the rows are of two days.
NothingIsCountedAcrossDays ==
    Built /\ indicator.status = "sealed" /\ Target \in limitDays /\ indicator.ladder # NoDay =>
        indicator.ladder = Streak(Target)

\* A row says sealed only of a security that is bid at its limit.
SealedIsBidAtTheLimit == Built /\ indicator.status = "sealed" => Target \in limitDays

\* A security at its limit, quoted with its levels, is said to be sealed.
SealsAreSeen == Built /\ Target \in limitDays /\ quote.bid = "limit" => indicator.status = "sealed"
=============================================================================
