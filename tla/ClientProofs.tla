----------------------------- MODULE ClientProofs -----------------------------
(***************************************************************************)
(* What is proved of the parts of the Python client that work on behalf of *)
(* a caller who never sees their state.                                    *)
(*                                                                         *)
(*   helper sources (HelperPlans): HelpersInv, of which the heart is that  *)
(*     every list of sources names its days before its statistics;         *)
(*   the search for data of empty codes (MoneyFlow): FlowInv, by which the *)
(*     hosts a task has asked are the candidates from its first one on;    *)
(*   the board cache (BoardCache): BoardInv, by which a call that comes to *)
(*     write a date has asked for every source on that day or later;       *)
(*   the bar files and archives (OfflineFiles): OfflineInv, by which the   *)
(*     file and what a writer still has to write make whole records.       *)
(*                                                                         *)
(* The components share no variable; each has its own section, invariant   *)
(* and theorems.                                                           *)
(***************************************************************************)
EXTENDS HelperPlans, MoneyFlow, BoardCache, OfflineFiles,
        FiniteSetTheorems, SequenceTheorems, WellFoundedInduction, TLAPS

-----------------------------------------------------------------------------
(* The sources of a helper                                                 *)

\* What a helper can do without.
SparedSources == {"depth", "finance", "closes", "bars", "events", "opening rush", "topics of rows"}

AllSources == {Handshake, Workdays, Stats, Snapshots, Depth, Finance, FreshFinance, Securities,
               FreshSecurities, PreviousCloses, RecentBars, Events, OpeningRush, CodeTable,
               LegacyQuotes, CategoryPage, TopicIds, HotTopics, TopicsOfRows, TopicCompare,
               IndexListing, AuctionSeries, OpeningMatch, TodayTicks, AuxLine}

\* A source that may cost the call is none of those, and only the statistics
\* file is called "stats".
WellPriced(source) ==
    /\ source.costs \in {"call", "page", "source"}
    /\ source.costs = "call" => source.name \notin SparedSources
    /\ source.name = "stats" <=> source = Stats

DayNames == {"handshake", "workdays"}

\* The days are resolved before the statistics are read.
WellOrdered(sources) ==
    /\ sources \in Seq(AllSources)
    /\ \A i, j \in 1 .. Len(sources) :
          i < j /\ sources[i] = Stats => sources[j].name \notin DayNames

LEMMA SourcesArePriced == \A source \in AllSources : WellPriced(source)
<1> DEFINE Fair(source) ==
      /\ source.costs \in {"call", "page", "source"}
      /\ source.costs = "call" => source.name \notin SparedSources
      /\ source.name # "stats"
<1>0. /\ Stats.costs \in {"call", "page", "source"}
      /\ Stats.costs = "call" => Stats.name \notin SparedSources
      /\ Stats.name = "stats"
  BY DEF Stats, Source, SparedSources
<1>1. Fair(Handshake) BY DEF Handshake, Source, SparedSources
<1>2. Fair(Workdays) BY DEF Workdays, Source, SparedSources
<1>3. Fair(Snapshots) BY DEF Snapshots, Source, SparedSources
<1>4. Fair(Depth) BY DEF Depth, Source, SparedSources
<1>5. Fair(Finance) BY DEF Finance, Source, SparedSources
<1>6. Fair(FreshFinance) BY DEF FreshFinance, Source, SparedSources
<1>7. Fair(Securities) BY DEF Securities, Source, SparedSources
<1>8. Fair(FreshSecurities) BY DEF FreshSecurities, Source, SparedSources
<1>9. Fair(PreviousCloses) BY DEF PreviousCloses, Source, SparedSources
<1>10. Fair(RecentBars) BY DEF RecentBars, Source, SparedSources
<1>11. Fair(Events) BY DEF Events, Source, SparedSources
<1>12. Fair(OpeningRush) BY DEF OpeningRush, Source, SparedSources
<1>13. Fair(CodeTable) BY DEF CodeTable, Source, SparedSources
<1>14. Fair(LegacyQuotes) BY DEF LegacyQuotes, Source, SparedSources
<1>15. Fair(CategoryPage) BY DEF CategoryPage, Source, SparedSources
<1>16. Fair(TopicIds) BY DEF TopicIds, Source, SparedSources
<1>17. Fair(HotTopics) BY DEF HotTopics, Source, SparedSources
<1>18. Fair(TopicsOfRows) BY DEF TopicsOfRows, Source, SparedSources
<1>19. Fair(TopicCompare) BY DEF TopicCompare, Source, SparedSources
<1>20. Fair(IndexListing) BY DEF IndexListing, Source, SparedSources
<1>21. Fair(AuctionSeries) BY DEF AuctionSeries, Source, SparedSources
<1>22. Fair(OpeningMatch) BY DEF OpeningMatch, Source, SparedSources
<1>23. Fair(TodayTicks) BY DEF TodayTicks, Source, SparedSources
<1>24. Fair(AuxLine) BY DEF AuxLine, Source, SparedSources
<1> HIDE DEF Fair
<1>25. \A source \in AllSources : source = Stats \/ Fair(source)
  BY <1>1, <1>2, <1>3, <1>4, <1>5, <1>6, <1>7, <1>8, <1>9, <1>10, <1>11, <1>12, <1>13, <1>14, <1>15, <1>16, <1>17, <1>18, <1>19, <1>20, <1>21, <1>22, <1>23, <1>24, Zenon DEF AllSources
<1> SUFFICES ASSUME NEW source \in AllSources PROVE WellPriced(source) OBVIOUS
<1>a. CASE source = Stats BY <1>0, <1>a DEF WellPriced
<1>b. CASE Fair(source) BY <1>0, <1>b DEF WellPriced, Fair
<1> QED BY <1>a, <1>b, <1>25

\* No source but the handshake and the list of workdays resolves a day.
Undated == AllSources \ {Handshake, Workdays}

LEMMA OnlyTwoAreDated ==
    /\ \A source \in Undated : source.name \notin DayNames
    /\ \A source \in AllSources : source.name \in DayNames => source # Stats
<1>1. Stats.name \notin DayNames BY DEF Stats, Source, DayNames
<1>2. Snapshots.name \notin DayNames BY DEF Snapshots, Source, DayNames
<1>3. Depth.name \notin DayNames BY DEF Depth, Source, DayNames
<1>4. Finance.name \notin DayNames BY DEF Finance, Source, DayNames
<1>5. FreshFinance.name \notin DayNames BY DEF FreshFinance, Source, DayNames
<1>6. Securities.name \notin DayNames BY DEF Securities, Source, DayNames
<1>7. FreshSecurities.name \notin DayNames BY DEF FreshSecurities, Source, DayNames
<1>8. PreviousCloses.name \notin DayNames BY DEF PreviousCloses, Source, DayNames
<1>9. RecentBars.name \notin DayNames BY DEF RecentBars, Source, DayNames
<1>10. Events.name \notin DayNames BY DEF Events, Source, DayNames
<1>11. OpeningRush.name \notin DayNames BY DEF OpeningRush, Source, DayNames
<1>12. CodeTable.name \notin DayNames BY DEF CodeTable, Source, DayNames
<1>13. LegacyQuotes.name \notin DayNames BY DEF LegacyQuotes, Source, DayNames
<1>14. CategoryPage.name \notin DayNames BY DEF CategoryPage, Source, DayNames
<1>15. TopicIds.name \notin DayNames BY DEF TopicIds, Source, DayNames
<1>16. HotTopics.name \notin DayNames BY DEF HotTopics, Source, DayNames
<1>17. TopicsOfRows.name \notin DayNames BY DEF TopicsOfRows, Source, DayNames
<1>18. TopicCompare.name \notin DayNames BY DEF TopicCompare, Source, DayNames
<1>19. IndexListing.name \notin DayNames BY DEF IndexListing, Source, DayNames
<1>20. AuctionSeries.name \notin DayNames BY DEF AuctionSeries, Source, DayNames
<1>21. OpeningMatch.name \notin DayNames BY DEF OpeningMatch, Source, DayNames
<1>22. TodayTicks.name \notin DayNames BY DEF TodayTicks, Source, DayNames
<1>23. AuxLine.name \notin DayNames BY DEF AuxLine, Source, DayNames
<1>24. \A source \in Undated : source.name \notin DayNames
  BY <1>1, <1>2, <1>3, <1>4, <1>5, <1>6, <1>7, <1>8, <1>9, <1>10, <1>11, <1>12, <1>13, <1>14, <1>15, <1>16, <1>17, <1>18, <1>19, <1>20, <1>21, <1>22, <1>23, Zenon DEF AllSources, Undated
<1> QED BY <1>1, <1>24, Zenon

LEMMA UndatedSources ==
    {Stats, Snapshots, Depth, Finance, FreshFinance,
     Securities, FreshSecurities, PreviousCloses, RecentBars, Events,
     OpeningRush, CodeTable, LegacyQuotes, CategoryPage, TopicIds,
     HotTopics, TopicsOfRows, TopicCompare, IndexListing, AuctionSeries,
     OpeningMatch, TodayTicks, AuxLine} \subseteq Undated
<1>2. Stats # Handshake /\ Stats # Workdays BY DEF Stats, Handshake, Workdays, Source
<1>3. Snapshots # Handshake /\ Snapshots # Workdays BY DEF Snapshots, Handshake, Workdays, Source
<1>4. Depth # Handshake /\ Depth # Workdays BY DEF Depth, Handshake, Workdays, Source
<1>5. Finance # Handshake /\ Finance # Workdays BY DEF Finance, Handshake, Workdays, Source
<1>6. FreshFinance # Handshake /\ FreshFinance # Workdays BY DEF FreshFinance, Handshake, Workdays, Source
<1>7. Securities # Handshake /\ Securities # Workdays BY DEF Securities, Handshake, Workdays, Source
<1>8. FreshSecurities # Handshake /\ FreshSecurities # Workdays BY DEF FreshSecurities, Handshake, Workdays, Source
<1>9. PreviousCloses # Handshake /\ PreviousCloses # Workdays BY DEF PreviousCloses, Handshake, Workdays, Source
<1>10. RecentBars # Handshake /\ RecentBars # Workdays BY DEF RecentBars, Handshake, Workdays, Source
<1>11. Events # Handshake /\ Events # Workdays BY DEF Events, Handshake, Workdays, Source
<1>12. OpeningRush # Handshake /\ OpeningRush # Workdays BY DEF OpeningRush, Handshake, Workdays, Source
<1>13. CodeTable # Handshake /\ CodeTable # Workdays BY DEF CodeTable, Handshake, Workdays, Source
<1>14. LegacyQuotes # Handshake /\ LegacyQuotes # Workdays BY DEF LegacyQuotes, Handshake, Workdays, Source
<1>15. CategoryPage # Handshake /\ CategoryPage # Workdays BY DEF CategoryPage, Handshake, Workdays, Source
<1>16. TopicIds # Handshake /\ TopicIds # Workdays BY DEF TopicIds, Handshake, Workdays, Source
<1>17. HotTopics # Handshake /\ HotTopics # Workdays BY DEF HotTopics, Handshake, Workdays, Source
<1>18. TopicsOfRows # Handshake /\ TopicsOfRows # Workdays BY DEF TopicsOfRows, Handshake, Workdays, Source
<1>19. TopicCompare # Handshake /\ TopicCompare # Workdays BY DEF TopicCompare, Handshake, Workdays, Source
<1>20. IndexListing # Handshake /\ IndexListing # Workdays BY DEF IndexListing, Handshake, Workdays, Source
<1>21. AuctionSeries # Handshake /\ AuctionSeries # Workdays BY DEF AuctionSeries, Handshake, Workdays, Source
<1>22. OpeningMatch # Handshake /\ OpeningMatch # Workdays BY DEF OpeningMatch, Handshake, Workdays, Source
<1>23. TodayTicks # Handshake /\ TodayTicks # Workdays BY DEF TodayTicks, Handshake, Workdays, Source
<1>24. AuxLine # Handshake /\ AuxLine # Workdays BY DEF AuxLine, Handshake, Workdays, Source
<1> QED BY <1>2, <1>3, <1>4, <1>5, <1>6, <1>7, <1>8, <1>9, <1>10, <1>11, <1>12, <1>13, <1>14, <1>15, <1>16, <1>17, <1>18, <1>19, <1>20, <1>21, <1>22, <1>23, <1>24, ZenonT(40) DEF Undated, AllSources

LEMMA UndatedIsOrdered ==
    ASSUME NEW t \in Seq(Undated)
    PROVE  WellOrdered(t) /\ \A i \in 1 .. Len(t) : t[i].name \notin DayNames
<1>1. t \in Seq(AllSources) BY DEF Undated
<1>2. \A i \in 1 .. Len(t) : t[i] \in Undated OBVIOUS
<1> QED BY <1>1, <1>2, OnlyTwoAreDated DEF WellOrdered

\* A source that is not of a date may follow anything.
LEMMA FollowedByUndated ==
    ASSUME NEW s, WellOrdered(s), NEW t, WellOrdered(t),
           \A i \in 1 .. Len(t) : t[i].name \notin DayNames
    PROVE  WellOrdered(s \o t)
<1>1. s \in Seq(AllSources) /\ t \in Seq(AllSources) BY DEF WellOrdered
<1>2. s \o t \in Seq(AllSources) /\ Len(s \o t) = Len(s) + Len(t) BY <1>1
<1>3. \A i \in 1 .. Len(s \o t) : (s \o t)[i] = IF i <= Len(s) THEN s[i] ELSE t[i - Len(s)]
  BY <1>1
<1>5. ASSUME NEW i \in 1 .. Len(s \o t), NEW j \in 1 .. Len(s \o t), i < j, (s \o t)[i] = Stats
      PROVE  (s \o t)[j].name \notin DayNames
  <2>1. CASE j <= Len(s) BY <1>1, <1>2, <1>3, <1>5, <2>1 DEF WellOrdered
  <2>2. CASE j > Len(s)
    <3>1. j - Len(s) \in 1 .. Len(t) /\ ~(j <= Len(s)) BY <1>1, <1>2, <2>2
    <3> QED BY <1>3, <3>1
  <2> QED BY <2>1, <2>2, <1>1
<1> QED BY <1>2, <1>5 DEF WellOrdered

\* Every helper resolves its days before it reads the statistics.
LEMMA HelpersAreWellOrdered ==
    \A helper \in AllHelpers \cup {NoHelper} : WellOrdered(helper.sources)
<1> DEFINE Plainly(t) == WellOrdered(t) /\ \A i \in 1 .. Len(t) : t[i].name \notin DayNames
<1>0. \A t \in Seq(Undated) : Plainly(t) BY UndatedIsOrdered
<1> HIDE DEF Plainly
<1>1. full_quotes.sources \in Seq(Undated)
  <2>1. <<Snapshots, Depth>> \in Seq(Undated) BY UndatedSources
  <2> QED BY <2>1 DEF full_quotes, Helper
<1>2. stock_profile_table.sources \in Seq(Undated)
  <2>1. <<Snapshots, Depth, Securities, Finance>> \in Seq(Undated) BY UndatedSources
  <2> QED BY <2>1 DEF stock_profile_table, Helper
<1>3. realtime_rank.sources \in Seq(Undated)
  <2>1. <<CategoryPage, Securities>> \in Seq(Undated) BY UndatedSources
  <2> QED BY <2>1 DEF realtime_rank, Helper
<1>4. latest_stock_list.sources \in Seq(Undated)
  <2>1. <<CodeTable>> \in Seq(Undated) BY UndatedSources
  <2> QED BY <2>1 DEF latest_stock_list, Helper
<1>5. latest_suspended.sources \in Seq(Undated)
  <2>1. <<CodeTable, LegacyQuotes, CodeTable>> \in Seq(Undated) BY UndatedSources
  <2> QED BY <2>1 DEF latest_suspended, Helper
<1>6. stock_topics.sources \in Seq(Undated)
  <2>1. <<TopicIds, HotTopics>> \in Seq(Undated) BY UndatedSources
  <2> QED BY <2>1 DEF stock_topics, Helper
<1>7. index_members.sources \in Seq(Undated)
  <2>1. <<IndexListing>> \in Seq(Undated) BY UndatedSources
  <2> QED BY <2>1 DEF index_members, Helper
<1>8. ipo_calendar.sources \in Seq(Undated)
  <2>1. <<IndexListing>> \in Seq(Undated) BY UndatedSources
  <2> QED BY <2>1 DEF ipo_calendar, Helper
<1>9. board_members.sources \in Seq(Undated)
  <2>1. <<IndexListing>> \in Seq(Undated) BY UndatedSources
  <2> QED BY <2>1 DEF board_members, Helper
<1>10. market_stat.sources \in Seq(Undated)
  <2>1. <<LegacyQuotes>> \in Seq(Undated) BY UndatedSources
  <2> QED BY <2>1 DEF market_stat, Helper
<1>11. today_fund_flow.sources \in Seq(Undated)
  <2>1. <<TodayTicks>> \in Seq(Undated) BY UndatedSources
  <2> QED BY <2>1 DEF today_fund_flow, Helper
<1>12. buy_sell_strength.sources \in Seq(Undated)
  <2>1. <<AuxLine>> \in Seq(Undated) BY UndatedSources
  <2> QED BY <2>1 DEF buy_sell_strength, Helper
<1>13. board_quotes.sources \in Seq(Undated)
  <2>1. <<Snapshots>> \in Seq(Undated) BY UndatedSources
  <2> QED BY <2>1 DEF board_quotes, Helper
<1>14. NoHelper.sources \in Seq(Undated)
  <2>1. <<>> \in Seq(Undated) BY UndatedSources
  <2> QED BY <2>1 DEF NoHelper, Helper
<1>s. Session \in Seq(AllSources) /\ WellOrdered(Session)
  <2>1. Session = <<Handshake, Workdays, Stats>> BY DEF Session
  <2>2. Session \in Seq(AllSources) BY <2>1 DEF AllSources
  <2>3. Len(Session) = 3 /\ Session[1] # Stats /\ Session[2] # Stats
    <3>1. Handshake # Stats /\ Workdays # Stats BY DEF Handshake, Workdays, Stats, Source
    <3> QED BY <2>1, <3>1
  <2> QED BY <2>2, <2>3 DEF WellOrdered
<1>15. WellOrdered(daily_share_capital.sources)
  <2>1. <<Finance>> \in Seq(Undated) BY UndatedSources
  <2>2. Plainly(<<Finance>>) BY <1>0, <2>1
  <2>3. WellOrdered(Session \o <<Finance>>)
    BY FollowedByUndated, <2>2, <1>s DEF Plainly
  <2> QED BY <2>3 DEF daily_share_capital, Helper
<1>16. WellOrdered(shortline_indicators.sources)
  <2>1. <<Snapshots, Depth, FreshSecurities, RecentBars, FreshFinance, OpeningRush>> \in Seq(Undated) BY UndatedSources
  <2>2. Plainly(<<Snapshots, Depth, FreshSecurities, RecentBars, FreshFinance, OpeningRush>>) BY <1>0, <2>1
  <2>3. WellOrdered(Session \o <<Snapshots, Depth, FreshSecurities, RecentBars, FreshFinance, OpeningRush>>)
    BY FollowedByUndated, <2>2, <1>s DEF Plainly
  <2> QED BY <2>3 DEF shortline_indicators, Helper
<1>17. WellOrdered(limit_ladder.sources) BY <1>16 DEF limit_ladder, Helper
<1>18. WellOrdered(theme_strength_rank.sources)
  <2>1. <<TopicsOfRows>> \in Seq(Undated) BY UndatedSources
  <2>2. Plainly(<<TopicsOfRows>>) BY <1>0, <2>1
  <2>3. WellOrdered(limit_ladder.sources \o <<TopicsOfRows>>)
    BY FollowedByUndated, <2>2, <1>17 DEF Plainly
  <2> QED BY <2>3 DEF theme_strength_rank, Helper
<1>19. WellOrdered(topic_stocks.sources)
  <2>1. <<TopicCompare>> \in Seq(Undated) BY UndatedSources
  <2>2. Plainly(<<TopicCompare>>) BY <1>0, <2>1
  <2>3. WellOrdered(stock_topics.sources \o <<TopicCompare>>)
    BY FollowedByUndated, <2>2, <1>0, <1>6 DEF Plainly
  <2> QED BY <2>3 DEF topic_stocks, Helper
<1>20. WellOrdered(daily_price_limits.sources)
  <2>1. <<Workdays, Securities, PreviousCloses, Finance, Events>> \in Seq(AllSources) BY DEF AllSources
  <2>2. Workdays # Stats BY DEF Workdays, Stats, Source
  <2>3. Securities # Stats BY DEF Securities, Stats, Source
  <2>4. PreviousCloses # Stats BY DEF PreviousCloses, Stats, Source
  <2>5. Finance # Stats BY DEF Finance, Stats, Source
  <2>6. Events # Stats BY DEF Events, Stats, Source
  <2>9. \A i \in 1 .. 5 : <<Workdays, Securities, PreviousCloses, Finance, Events>>[i] # Stats
    BY <2>2, <2>3, <2>4, <2>5, <2>6
  <2> QED BY <2>1, <2>9 DEF WellOrdered, daily_price_limits, Helper
<1>21. WellOrdered(auction_data.sources)
  <2>1. <<Handshake, AuctionSeries, OpeningMatch, Snapshots>> \in Seq(AllSources) BY DEF AllSources
  <2>2. Handshake # Stats BY DEF Handshake, Stats, Source
  <2>3. AuctionSeries # Stats BY DEF AuctionSeries, Stats, Source
  <2>4. OpeningMatch # Stats BY DEF OpeningMatch, Stats, Source
  <2>5. Snapshots # Stats BY DEF Snapshots, Stats, Source
  <2>9. \A i \in 1 .. 4 : <<Handshake, AuctionSeries, OpeningMatch, Snapshots>>[i] # Stats
    BY <2>2, <2>3, <2>4, <2>5
  <2> QED BY <2>1, <2>9 DEF WellOrdered, auction_data, Helper
<1> QED
  <2>1. \A t \in Seq(Undated) : WellOrdered(t) BY <1>0 DEF Plainly
  <2> QED
    BY <1>1, <1>2, <1>15, <1>20, <1>16, <1>17, <1>18, <1>3, <1>4, <1>5, <1>6, <1>19, <1>7, <1>8, <1>9, <1>21, <1>10, <1>11, <1>12, <1>13, <1>14, <2>1, Zenon DEF AllHelpers

LEMMA HelpersAskSomething == \A helper \in AllHelpers : Len(helper.sources) >= 1
<1>0. \A s \in Seq(AllSources), t \in Seq(AllSources) : Len(s \o t) = Len(s) + Len(t) /\ Len(s) \in Nat
  OBVIOUS
<1>1. Len(full_quotes.sources) >= 1 BY DEF full_quotes, Helper
<1>2. Len(stock_profile_table.sources) >= 1 BY DEF stock_profile_table, Helper
<1>3. Len(daily_share_capital.sources) >= 1
  <2>0. Session \in Seq(AllSources) BY DEF Session, AllSources
  <2>1. <<Finance>> \in Seq(AllSources) /\ Len(<<Finance>>) >= 1 BY DEF AllSources
  <2>2. Len(Session \o <<Finance>>) >= 1 BY <1>0, <2>0, <2>1
  <2> QED BY <2>2 DEF daily_share_capital, Helper
<1>4. Len(daily_price_limits.sources) >= 1 BY DEF daily_price_limits, Helper
<1>5. Len(shortline_indicators.sources) >= 1
  <2>0. Session \in Seq(AllSources) BY DEF Session, AllSources
  <2>1. <<Snapshots, Depth, FreshSecurities, RecentBars, FreshFinance, OpeningRush>> \in Seq(AllSources) /\ Len(<<Snapshots, Depth, FreshSecurities, RecentBars, FreshFinance, OpeningRush>>) >= 1 BY DEF AllSources
  <2>2. Len(Session \o <<Snapshots, Depth, FreshSecurities, RecentBars, FreshFinance, OpeningRush>>) >= 1 BY <1>0, <2>0, <2>1
  <2> QED BY <2>2 DEF shortline_indicators, Helper
<1>6. Len(limit_ladder.sources) >= 1 BY <1>5 DEF limit_ladder, Helper
<1>7. Len(theme_strength_rank.sources) >= 1
  <2>0. limit_ladder.sources \in Seq(AllSources)
    BY HelpersAreWellOrdered DEF WellOrdered, AllHelpers
  <2>1. <<TopicsOfRows>> \in Seq(AllSources) /\ Len(<<TopicsOfRows>>) >= 1 BY DEF AllSources
  <2>2. Len(limit_ladder.sources \o <<TopicsOfRows>>) >= 1 BY <1>0, <2>0, <2>1
  <2> QED BY <2>2 DEF theme_strength_rank, Helper
<1>8. Len(realtime_rank.sources) >= 1 BY DEF realtime_rank, Helper
<1>9. Len(latest_stock_list.sources) >= 1 BY DEF latest_stock_list, Helper
<1>10. Len(latest_suspended.sources) >= 1 BY DEF latest_suspended, Helper
<1>11. Len(stock_topics.sources) >= 1 BY DEF stock_topics, Helper
<1>12. Len(topic_stocks.sources) >= 1
  <2>0. stock_topics.sources \in Seq(AllSources)
    BY HelpersAreWellOrdered DEF WellOrdered, AllHelpers
  <2>1. <<TopicCompare>> \in Seq(AllSources) /\ Len(<<TopicCompare>>) >= 1 BY DEF AllSources
  <2>2. Len(stock_topics.sources \o <<TopicCompare>>) >= 1 BY <1>0, <2>0, <2>1
  <2> QED BY <2>2 DEF topic_stocks, Helper
<1>13. Len(index_members.sources) >= 1 BY DEF index_members, Helper
<1>14. Len(ipo_calendar.sources) >= 1 BY DEF ipo_calendar, Helper
<1>15. Len(board_members.sources) >= 1 BY DEF board_members, Helper
<1>16. Len(auction_data.sources) >= 1 BY DEF auction_data, Helper
<1>17. Len(market_stat.sources) >= 1 BY DEF market_stat, Helper
<1>18. Len(today_fund_flow.sources) >= 1 BY DEF today_fund_flow, Helper
<1>19. Len(buy_sell_strength.sources) >= 1 BY DEF buy_sell_strength, Helper
<1>20. Len(board_quotes.sources) >= 1 BY DEF board_quotes, Helper
<1> QED BY <1>1, <1>2, <1>3, <1>4, <1>5, <1>6, <1>7, <1>8, <1>9, <1>10, <1>11, <1>12, <1>13, <1>14, <1>15, <1>16, <1>17, <1>18, <1>19, <1>20, Zenon DEF AllHelpers

-----------------------------------------------------------------------------
(* The calls                                                               *)

SourceNames == { source.name : source \in AllSources }
Reasons == {"none", "argument", "not ready", "workdays", "stats", "missing"} \cup SourceNames

HelperCalls ==
    [helper : AllHelpers \cup {NoHelper}, at : Nat, page : Int, bad : BOOLEAN, refresh : BOOLEAN,
     lacks : {{}, Lacking}, on : Int, target : Int, previous : Int, stats : Int,
     lost : SUBSET SourceNames, got : {"none", "rows", "error"}, why : Reasons]
Memories == [days : Int, stats : Int, securities : Int, finance : SUBSET {"part", "whole"},
             index : Int]

DaysTyped == today \in Int
MemoryTyped == remembered \in Memories
CallsTyped == helping \in [HelperUsers -> HelperCalls]

\* The statistics that a call has read by source n are of its days.
StatsFit(turn, n) ==
    \A i \in 1 .. Len(turn.helper.sources) :
        i <= n /\ turn.helper.sources[i] = Stats => turn.stats \in {turn.target, turn.previous}

\* A call on its way has read the sources before the one it is at, one that gave
\* rows has read all of them, and one that failed did so of a source that costs
\* the call.
CallIsSound(turn) ==
    /\ turn.at <= Len(turn.helper.sources)
    /\ turn.at > 0 => turn.got = "none" /\ StatsFit(turn, turn.at - 1)
    /\ turn.got = "rows" => StatsFit(turn, Len(turn.helper.sources))
    /\ turn.got = "error" => turn.why \notin SparedSources

CallsAreSound == \A u \in HelperUsers : CallIsSound(helping[u])

HelpersInv == DaysTyped /\ MemoryTyped /\ CallsTyped /\ CallsAreSound

LEMMA LengthOfSources ==
    ASSUME NEW turn \in HelperCalls
    PROVE  /\ WellOrdered(turn.helper.sources)
           /\ Len(turn.helper.sources) \in Nat
           /\ \A i \in 1 .. Len(turn.helper.sources) :
                 turn.helper.sources[i] \in AllSources /\ WellPriced(turn.helper.sources[i])
<1>1. WellOrdered(turn.helper.sources) BY HelpersAreWellOrdered DEF HelperCalls
<1>2. turn.helper.sources \in Seq(AllSources) BY <1>1 DEF WellOrdered
<1>3. Len(turn.helper.sources) \in Nat BY <1>2
<1>4. \A i \in 1 .. Len(turn.helper.sources) : turn.helper.sources[i] \in AllSources BY <1>2
<1> QED BY <1>1, <1>3, <1>4, SourcesArePriced

\* One thread's call changes: it stays sound if it was and the new one is.
LEMMA OneCall ==
    ASSUME HelpersInv, NEW u \in HelperUsers, NEW turn \in HelperCalls, CallIsSound(turn),
           helping' = [helping EXCEPT ![u] = turn]
    PROVE  CallsTyped' /\ CallsAreSound'
<1>1. CallsTyped' BY DEF HelpersInv, CallsTyped
<1>2. \A w \in HelperUsers : helping'[w] = IF w = u THEN turn ELSE helping[w]
  BY DEF HelpersInv, CallsTyped
<1>3. CallsAreSound' BY <1>2 DEF CallsAreSound, HelpersInv
<1> QED BY <1>1, <1>3

\* A call that has its source and goes on with the next one, or is done.
LEMMA GoingOn ==
    ASSUME HelpersInv, NEW u \in HelperUsers, NEW turn \in HelperCalls,
           turn.at \in 1 .. Len(turn.helper.sources), turn.got = "none",
           StatsFit(turn, turn.at), Onward(u, turn)
    PROVE  CallsTyped' /\ CallsAreSound'
<1> DEFINE on == [turn EXCEPT !.at = @ + 1, !.page = 1]
           late == [turn EXCEPT !.at = 0, !.got = "error", !.why = "argument"]
           rows == [turn EXCEPT !.at = 0, !.got = "rows"]
<1>0. Len(turn.helper.sources) \in Nat BY LengthOfSources
<1>1. CASE turn.at < Len(turn.helper.sources)
  <2>1. helping' = [helping EXCEPT ![u] = on] BY <1>1 DEF Onward
  <2>0. turn.at + 1 \in Nat /\ 1 \in Int BY DEF HelperCalls
  <2>2. on \in HelperCalls BY <2>0, Zenon DEF HelperCalls
  <2>3. /\ on.at = turn.at + 1 /\ on.helper = turn.helper /\ on.got = "none"
        /\ on.stats = turn.stats /\ on.target = turn.target /\ on.previous = turn.previous
    BY DEF HelperCalls
  <2> HIDE DEF on
  <2>4. StatsFit(on, on.at - 1) BY <2>3, <1>0 DEF StatsFit
  <2>5. CallIsSound(on) BY <2>3, <2>4, <1>0, <1>1 DEF CallIsSound
  <2> QED BY <2>1, <2>2, <2>5, OneCall
<1>2. CASE ~(turn.at < Len(turn.helper.sources)) /\ turn.bad
  <2>1. helping' = [helping EXCEPT ![u] = late] BY <1>2 DEF Onward
  <2>2. late \in HelperCalls BY DEF HelperCalls, Reasons
  <2>3. late.at = 0 /\ late.helper = turn.helper /\ late.got = "error" /\ late.why = "argument"
    BY DEF HelperCalls
  <2> HIDE DEF late
  <2>4. CallIsSound(late) BY <2>3, <1>0 DEF CallIsSound, SparedSources
  <2> QED BY <2>1, <2>2, <2>4, OneCall
<1>3. CASE ~(turn.at < Len(turn.helper.sources)) /\ ~turn.bad
  <2>1. helping' = [helping EXCEPT ![u] = rows] BY <1>3 DEF Onward
  <2>2. rows \in HelperCalls BY DEF HelperCalls
  <2>3. /\ rows.at = 0 /\ rows.helper = turn.helper /\ rows.got = "rows"
        /\ rows.stats = turn.stats /\ rows.target = turn.target /\ rows.previous = turn.previous
    BY DEF HelperCalls
  <2> HIDE DEF rows
  <2>4. turn.at = Len(turn.helper.sources) BY <1>0, <1>3
  <2>5. StatsFit(rows, Len(rows.helper.sources)) BY <2>3, <2>4 DEF StatsFit
  <2>6. CallIsSound(rows) BY <2>3, <2>5, <1>0 DEF CallIsSound
  <2> QED BY <2>1, <2>2, <2>6, OneCall
<1> QED BY <1>1, <1>2, <1>3

\* A call that ends with an error that is not of something it can do without.
LEMMA Ending ==
    ASSUME HelpersInv, NEW u \in HelperUsers, NEW why \in Reasons \ SparedSources,
           Ends(u, "error", why)
    PROVE  CallsTyped' /\ CallsAreSound'
<1> DEFINE over == [helping[u] EXCEPT !.at = 0, !.got = "error", !.why = why]
<1>1. helping[u] \in HelperCalls BY DEF HelpersInv, CallsTyped
<1>2. helping' = [helping EXCEPT ![u] = over] BY <1>1 DEF Ends, HelpersInv, CallsTyped, HelperCalls
<1>3. over \in HelperCalls BY <1>1 DEF HelperCalls
<1>4. over.at = 0 /\ over.helper = helping[u].helper /\ over.got = "error" /\ over.why = why
  BY <1>1 DEF HelperCalls
<1>5. Len(over.helper.sources) \in Nat BY <1>3, LengthOfSources
<1> HIDE DEF over
<1>6. CallIsSound(over) BY <1>4, <1>5 DEF CallIsSound
<1> QED BY <1>2, <1>3, <1>6, OneCall

-----------------------------------------------------------------------------
(* The steps                                                               *)

\* What the invariant says of the call of a thread that is at a source.
LEMMA AtASource ==
    ASSUME HelpersInv, NEW u \in HelperUsers, helping[u].at > 0
    PROVE  /\ helping[u] \in HelperCalls
           /\ helping[u].at \in 1 .. Len(helping[u].helper.sources)
           /\ helping[u].got = "none"
           /\ StatsFit(helping[u], helping[u].at - 1)
           /\ Here(u) \in AllSources /\ WellPriced(Here(u))
<1>1. helping[u] \in HelperCalls BY DEF HelpersInv, CallsTyped
<1>2. CallIsSound(helping[u]) BY DEF HelpersInv, CallsAreSound
<1>3. helping[u].at \in Nat BY <1>1 DEF HelperCalls
<1>4. helping[u].at \in 1 .. Len(helping[u].helper.sources)
  BY <1>1, <1>2, <1>3, LengthOfSources DEF CallIsSound
<1> QED BY <1>1, <1>2, <1>4, LengthOfSources DEF CallIsSound, Here

\* At a source that is not the statistics file there is nothing new to fit.
LEMMA FitsAsBefore ==
    ASSUME HelpersInv, NEW u \in HelperUsers, helping[u].at > 0, Here(u) # Stats
    PROVE  StatsFit(helping[u], helping[u].at)
<1>1. /\ helping[u].at \in 1 .. Len(helping[u].helper.sources)
      /\ StatsFit(helping[u], helping[u].at - 1)
  BY AtASource
<1>2. \A i \in 1 .. Len(helping[u].helper.sources) :
         i <= helping[u].at => i <= helping[u].at - 1 \/ i = helping[u].at
  BY <1>1
<1> QED BY <1>1, <1>2 DEF StatsFit, Here

\* A call that only changes its dates fits all the same: it has read no
\* statistics yet.
LEMMA DatesComeFirst ==
    ASSUME HelpersInv, NEW u \in HelperUsers, helping[u].at > 0, Here(u).name \in DayNames,
           NEW turn, turn.helper = helping[u].helper
    PROVE  StatsFit(turn, helping[u].at)
<1> DEFINE s == helping[u].helper.sources
           n == helping[u].at
<1>1. helping[u] \in HelperCalls /\ n \in 1 .. Len(s) BY AtASource
<1>2. WellOrdered(s) BY <1>1, LengthOfSources
<1>3. s[n].name \in DayNames BY DEF Here
<1>4. s[n] # Stats BY <1>3 DEF DayNames, Stats, Source
<1>5. \A i \in 1 .. Len(s) : i <= n => s[i] # Stats
  BY <1>1, <1>2, <1>3, <1>4 DEF WellOrdered
<1> QED BY <1>5 DEF StatsFit

LEMMA CallHelperStep ==
    ASSUME HelpersInv, NEW u \in HelperUsers, CallHelper(u)
    PROVE  HelpersInv'
<1>1. PICK helper \in { h \in AllHelpers : h.name \in HelperNames }, bad \in BOOLEAN,
           refresh \in BOOLEAN, lacks \in {{}, Lacking} :
        LET turn == [NotHelping EXCEPT !.helper = helper, !.bad = bad, !.refresh = refresh,
                                       !.lacks = lacks, !.on = today]
        IN  helping' = [helping EXCEPT ![u] =
               IF bad /\ helper.checks = "first"
               THEN [turn EXCEPT !.got = "error", !.why = "argument"]
               ELSE [turn EXCEPT !.at = 1]]
  BY DEF CallHelper
<1> DEFINE turn == [NotHelping EXCEPT !.helper = helper, !.bad = bad, !.refresh = refresh,
                                      !.lacks = lacks, !.on = today]
           refused == [turn EXCEPT !.got = "error", !.why = "argument"]
           begun == [turn EXCEPT !.at = 1]
<1>2. today \in Int BY DEF HelpersInv, DaysTyped
<1>3. turn \in HelperCalls
  <2>1. NotHelping \in HelperCalls
    <3>1. NoHelper \in AllHelpers \cup {NoHelper} /\ {} \in SUBSET SourceNames OBVIOUS
    <3> QED BY <3>1 DEF NotHelping, HelperCalls, Reasons
  <2>2. helper \in AllHelpers \cup {NoHelper} OBVIOUS
  <2> QED BY <1>2, <2>1, <2>2, Zenon DEF HelperCalls
<1>4. turn.at = 0 /\ turn.got = "none" /\ turn.helper = helper BY DEF NotHelping
<1> HIDE DEF turn
<1>5. CallsTyped' /\ CallsAreSound'
  <2>1. CASE bad /\ helper.checks = "first"
    <3>1. helping' = [helping EXCEPT ![u] = refused] BY <1>1, <2>1 DEF turn
    <3>2. refused \in HelperCalls BY <1>3 DEF HelperCalls, Reasons
    <3>3. refused.at = 0 /\ refused.got = "error" /\ refused.why = "argument"
          /\ refused.helper = helper
      BY <1>3, <1>4 DEF HelperCalls
    <3>4. Len(refused.helper.sources) \in Nat BY <3>2, LengthOfSources
    <3> HIDE DEF refused
    <3>5. CallIsSound(refused) BY <3>3, <3>4 DEF CallIsSound, SparedSources
    <3> QED BY <3>1, <3>2, <3>5, OneCall
  <2>2. CASE ~(bad /\ helper.checks = "first")
    <3>1. helping' = [helping EXCEPT ![u] = begun] BY <1>1, <2>2 DEF turn
    <3>2. begun \in HelperCalls BY <1>3 DEF HelperCalls
    <3>3. begun.at = 1 /\ begun.got = "none" /\ begun.helper = helper
      BY <1>3, <1>4 DEF HelperCalls
    <3> HIDE DEF begun
    <3>4. Len(begun.helper.sources) \in Nat BY <3>2, LengthOfSources
    <3>5. 1 <= Len(begun.helper.sources) BY <3>3, HelpersAskSomething
    <3>6. StatsFit(begun, begun.at - 1) BY <3>3 DEF StatsFit
    <3>7. CallIsSound(begun) BY <3>3, <3>5, <3>6 DEF CallIsSound
    <3> QED BY <3>1, <3>2, <3>7, OneCall
  <2> QED BY <2>1, <2>2
<1> QED BY <1>5 DEF CallHelper, HelpersInv, DaysTyped, MemoryTyped

LEMMA ShakeHandsStep ==
    ASSUME HelpersInv, NEW u \in HelperUsers, ShakeHands(u)
    PROVE  HelpersInv'
<1> DEFINE turn == [helping[u] EXCEPT !.target = today, !.on = today]
<1>1. helping[u].at > 0 /\ Here(u).name \in DayNames
  BY DEF ShakeHands, In, Handshake, Source, DayNames
<1>2. CallsTyped' /\ CallsAreSound'
  <2>1. CASE Onward(u, turn)
    <3>1. today \in Int BY DEF HelpersInv, DaysTyped
    <3>2. helping[u] \in HelperCalls BY <1>1, AtASource
    <3>3. turn \in HelperCalls BY <3>1, <3>2 DEF HelperCalls
    <3>4. turn.helper = helping[u].helper /\ turn.at = helping[u].at /\ turn.got = helping[u].got
      BY <3>2 DEF HelperCalls
    <3> HIDE DEF turn
    <3>5. StatsFit(turn, turn.at) BY <1>1, <3>4, DatesComeFirst
    <3> QED BY <1>1, <2>1, <3>3, <3>4, <3>5, AtASource, GoingOn
  <2>2. CASE Ends(u, "error", "not ready")
    <3>1. "not ready" \in Reasons \ SparedSources BY DEF Reasons, SparedSources
    <3> QED BY <2>2, <3>1, Ending
  <2> QED BY <2>1, <2>2 DEF ShakeHands
<1> QED BY <1>2 DEF ShakeHands, HelpersInv, DaysTyped, MemoryTyped

LEMMA ReadWorkdaysStep ==
    ASSUME HelpersInv, NEW u \in HelperUsers, ReadWorkdays(u)
    PROVE  HelpersInv'
<1> DEFINE target == IF helping[u].target = 0 THEN today ELSE helping[u].target
           turn == [helping[u] EXCEPT !.previous = PreviousWorkday(target)]
<1>1. helping[u].at > 0 /\ Here(u).name \in DayNames
  BY DEF ReadWorkdays, In, Workdays, Source, DayNames
<1>2. helping[u] \in HelperCalls BY <1>1, AtASource
<1>3. today \in Int /\ remembered \in Memories BY DEF HelpersInv, DaysTyped, MemoryTyped
<1>4. target \in Int BY <1>2, <1>3 DEF HelperCalls
<1>5. Loaded \in Int BY <1>3 DEF Loaded, Memories
<1> HIDE DEF target
<1>6. CallsTyped' /\ CallsAreSound'
  <2>1. CASE Onward(u, turn)
    <3>1. PreviousWorkday(target) \in Int BY <1>4, <1>5 DEF PreviousWorkday
    <3>2. turn \in HelperCalls BY <1>2, <3>1 DEF HelperCalls
    <3>3. turn.helper = helping[u].helper /\ turn.at = helping[u].at /\ turn.got = helping[u].got
      BY <1>2 DEF HelperCalls
    <3> HIDE DEF turn
    <3>4. StatsFit(turn, turn.at) BY <1>1, <3>3, DatesComeFirst
    <3> QED BY <1>1, <2>1, <3>2, <3>3, <3>4, AtASource, GoingOn
  <2>2. CASE Ends(u, "error", "workdays")
    <3>1. "workdays" \in Reasons \ SparedSources BY DEF Reasons, SparedSources
    <3> QED BY <2>2, <3>1, Ending
  <2> QED BY <2>1, <2>2 DEF ReadWorkdays, target
<1>7. remembered' \in Memories BY <1>3, <1>5 DEF ReadWorkdays, Memories
<1> QED BY <1>6, <1>7 DEF ReadWorkdays, HelpersInv, DaysTyped, MemoryTyped

\* Statistics of one of its days, kept or downloaded, are what the call asked for.
LEMMA TakingStats ==
    ASSUME HelpersInv, NEW u \in HelperUsers, In(u, Stats), NEW date \in Int, Fits(u, date),
           Onward(u, [helping[u] EXCEPT !.stats = date])
    PROVE  CallsTyped' /\ CallsAreSound'
<1> DEFINE turn == [helping[u] EXCEPT !.stats = date]
<1>1. helping[u].at > 0 BY DEF In
<1>2. helping[u] \in HelperCalls BY <1>1, AtASource
<1>3. turn \in HelperCalls BY <1>2 DEF HelperCalls
<1>4. /\ turn.helper = helping[u].helper /\ turn.at = helping[u].at /\ turn.got = helping[u].got
      /\ turn.stats = date /\ turn.target = helping[u].target
      /\ turn.previous = helping[u].previous
  BY <1>2 DEF HelperCalls
<1> HIDE DEF turn
<1>5. StatsFit(turn, turn.at) BY <1>4 DEF StatsFit, Fits
<1> QED BY <1>1, <1>3, <1>4, <1>5, AtASource, GoingOn DEF turn

LEMMA StatsSteps ==
    ASSUME HelpersInv, NEW u \in HelperUsers, ReuseStats(u) \/ LockStats(u) \/ DownloadStats(u)
    PROVE  HelpersInv'
<1>0. today \in Int /\ remembered \in Memories BY DEF HelpersInv, DaysTyped, MemoryTyped
<1>1. CASE ReuseStats(u)
  <2>1. remembered.stats \in Int BY <1>0 DEF Memories
  <2>2. CallsTyped' /\ CallsAreSound' BY <1>1, <2>1, TakingStats DEF ReuseStats
  <2> QED BY <1>1, <2>2 DEF ReuseStats, HelpersInv, DaysTyped, MemoryTyped
<1>2. CASE LockStats(u)
  BY <1>2 DEF LockStats, HelpersInv, DaysTyped, MemoryTyped, CallsTyped, CallsAreSound,
              CallIsSound, StatsFit
<1>3. CASE DownloadStats(u)
  <2>1. CASE \E date \in {today - 1, today} :
               /\ Fits(u, date)
               /\ remembered' = [remembered EXCEPT !.stats = date]
               /\ Onward(u, [helping[u] EXCEPT !.stats = date])
    <3>1. PICK date \in {today - 1, today} :
               /\ Fits(u, date)
               /\ remembered' = [remembered EXCEPT !.stats = date]
               /\ Onward(u, [helping[u] EXCEPT !.stats = date])
      BY <2>1
    <3>2. date \in Int BY <1>0
    <3>3. CallsTyped' /\ CallsAreSound' BY <1>3, <3>1, <3>2, TakingStats DEF DownloadStats
    <3>4. remembered' \in Memories BY <1>0, <3>1, <3>2 DEF Memories
    <3> QED BY <1>3, <3>3, <3>4 DEF DownloadStats, HelpersInv, DaysTyped, MemoryTyped
  <2>2. CASE Ends(u, "error", "stats") /\ UNCHANGED remembered
    <3>1. "stats" \in Reasons \ SparedSources BY DEF Reasons, SparedSources
    <3>2. CallsTyped' /\ CallsAreSound' BY <2>2, <3>1, Ending
    <3> QED BY <1>3, <2>2, <3>2 DEF DownloadStats, HelpersInv, DaysTyped, MemoryTyped
  <2> QED BY <1>3, <2>1, <2>2 DEF DownloadStats
<1> QED BY <1>1, <1>2, <1>3

LEMMA UseKeptStep ==
    ASSUME HelpersInv, NEW u \in HelperUsers, UseKept(u)
    PROVE  HelpersInv'
<1>1. helping[u].at > 0 /\ Onward(u, helping[u]) BY DEF UseKept
<1>2. Here(u) # Stats BY DEF UseKept, Kept, Stats, Source
<1>3. StatsFit(helping[u], helping[u].at) BY <1>1, <1>2, FitsAsBefore
<1>4. CallsTyped' /\ CallsAreSound' BY <1>1, <1>3, AtASource, GoingOn
<1> QED BY <1>4 DEF UseKept, HelpersInv, DaysTyped, MemoryTyped

LEMMA Remembering ==
    ASSUME HelpersInv, NEW source, NEW lost, Remember(source, lost)
    PROVE  MemoryTyped'
<1>1. today \in Int /\ remembered \in Memories BY DEF HelpersInv, DaysTyped, MemoryTyped
<1>2. CASE source.keeps = "securities"
  <2>1. remembered' = [remembered EXCEPT !.securities = today] BY <1>2 DEF Remember
  <2> QED BY <1>1, <2>1 DEF Memories, MemoryTyped
<1>3. CASE source.keeps = "index"
  <2>1. remembered' = [remembered EXCEPT !.index = today] BY <1>3 DEF Remember
  <2> QED BY <1>1, <2>1 DEF Memories, MemoryTyped
<1>4. CASE source.keeps = "finance"
  <2>1. PICK part \in {"part", "whole"} : remembered' = [remembered EXCEPT !.finance = {part}]
    BY <1>4 DEF Remember
  <2>2. {part} \in SUBSET {"part", "whole"} OBVIOUS
  <2> QED BY <1>1, <2>1, <2>2 DEF Memories, MemoryTyped
<1>5. CASE source.keeps \notin {"securities", "index", "finance"}
  <2>1. remembered' = remembered BY <1>5 DEF Remember
  <2> QED BY <1>1, <2>1 DEF MemoryTyped
<1> QED BY <1>2, <1>3, <1>4, <1>5

\* A page is done, whole or lost, by a call that is otherwise as it was.
LEMMA PageIsDone ==
    ASSUME HelpersInv, NEW u \in HelperUsers, helping[u].at > 0, Here(u) # Stats,
           NEW lost \in SUBSET SourceNames, PageDone(u, [helping[u] EXCEPT !.lost = lost])
    PROVE  MemoryTyped' /\ CallsTyped' /\ CallsAreSound'
<1> DEFINE turn == [helping[u] EXCEPT !.lost = lost]
           next == [turn EXCEPT !.page = @ + 1]
<1>1. helping[u] \in HelperCalls BY AtASource
<1>2. turn \in HelperCalls BY <1>1 DEF HelperCalls
<1>3. /\ turn.helper = helping[u].helper /\ turn.at = helping[u].at /\ turn.got = helping[u].got
      /\ turn.stats = helping[u].stats /\ turn.target = helping[u].target
      /\ turn.previous = helping[u].previous
  BY <1>1 DEF HelperCalls
<1> HIDE DEF turn
<1>4. StatsFit(turn, turn.at) /\ StatsFit(turn, turn.at - 1)
  BY <1>3, FitsAsBefore, AtASource DEF StatsFit
<1>5. CASE helping' = [helping EXCEPT ![u] = next] /\ UNCHANGED remembered
  <2>1. next \in HelperCalls
    <3>1. turn.page + 1 \in Int BY <1>2 DEF HelperCalls
    <3> QED BY <1>2, <3>1 DEF HelperCalls
  <2>2. /\ next.helper = turn.helper /\ next.at = turn.at /\ next.got = turn.got
        /\ next.stats = turn.stats /\ next.target = turn.target /\ next.previous = turn.previous
    BY <1>2 DEF HelperCalls
  <2> HIDE DEF next
  <2>3. StatsFit(next, next.at - 1) BY <1>4, <2>2 DEF StatsFit
  <2>4. next.got = "none" /\ next.at \in 1 .. Len(next.helper.sources)
    BY <1>3, <2>2, AtASource
  <2>5. CallIsSound(next) BY <2>3, <2>4, <2>1, LengthOfSources DEF CallIsSound
  <2> QED BY <1>5, <2>1, <2>5, OneCall DEF HelpersInv, MemoryTyped
<1>6. CASE Onward(u, turn) /\ Remember(Here(u), turn.lost)
  <2>1. turn.at \in 1 .. Len(turn.helper.sources) /\ turn.got = "none" BY <1>3, AtASource
  <2> QED BY <1>2, <1>4, <1>6, <2>1, GoingOn, Remembering
<1> QED BY <1>5, <1>6 DEF PageDone, turn

LEMMA PageIsLost ==
    ASSUME HelpersInv, NEW u \in HelperUsers, Plain(u), NEW why \in {Here(u).name, "missing"},
           PageLost(u, why)
    PROVE  HelpersInv'
<1>1. helping[u].at > 0 BY DEF Plain
<1>2. Here(u) \in AllSources /\ WellPriced(Here(u)) BY <1>1, AtASource
<1>3. Here(u) # Stats BY DEF Plain, Stats, Source
<1>4. helping[u] \in HelperCalls BY <1>1, AtASource
<1> DEFINE lost == helping[u].lost \cup {Here(u).name}
<1>5. Here(u).name \in SourceNames BY <1>2 DEF SourceNames
<1>6. lost \in SUBSET SourceNames BY <1>4, <1>5 DEF HelperCalls
<1>7. [helping[u] EXCEPT !.lost = @ \cup {Here(u).name}] = [helping[u] EXCEPT !.lost = lost]
  OBVIOUS
<1> HIDE DEF lost
<1>8. MemoryTyped' /\ CallsTyped' /\ CallsAreSound'
  <2>1. CASE Here(u).costs = "call"
    <3>1. Ends(u, "error", why) /\ UNCHANGED remembered BY <2>1 DEF PageLost
    <3>2. why \in Reasons \ SparedSources
      <4>1. Here(u).name \notin SparedSources BY <1>2, <2>1 DEF WellPriced
      <4>2. "missing" \notin SparedSources BY DEF SparedSources
      <4> QED BY <1>5, <4>1, <4>2 DEF Reasons
    <3> QED BY <3>1, <3>2, Ending DEF HelpersInv, MemoryTyped
  <2>2. CASE Here(u).costs = "page"
    <3>1. PageDone(u, [helping[u] EXCEPT !.lost = lost]) BY <1>7, <2>2 DEF PageLost
    <3> QED BY <1>1, <1>3, <1>6, <3>1, PageIsDone
  <2>3. CASE Here(u).costs = "source"
    <3> DEFINE turn == [helping[u] EXCEPT !.lost = lost]
    <3>1. Onward(u, turn) /\ UNCHANGED remembered BY <1>7, <2>3 DEF PageLost
    <3>2. turn \in HelperCalls BY <1>4, <1>6 DEF HelperCalls
    <3>3. /\ turn.helper = helping[u].helper /\ turn.at = helping[u].at
          /\ turn.got = helping[u].got /\ turn.stats = helping[u].stats
          /\ turn.target = helping[u].target /\ turn.previous = helping[u].previous
      BY <1>4 DEF HelperCalls
    <3> HIDE DEF turn
    <3>4. StatsFit(turn, turn.at) BY <1>1, <1>3, <3>3, FitsAsBefore DEF StatsFit
    <3>5. turn.at \in 1 .. Len(turn.helper.sources) /\ turn.got = "none"
      BY <1>1, <3>3, AtASource
    <3> QED BY <3>1, <3>2, <3>4, <3>5, GoingOn DEF HelpersInv, MemoryTyped
  <2> QED BY <1>2, <2>1, <2>2, <2>3 DEF WellPriced
<1> QED BY <1>8 DEF PageLost, HelpersInv, DaysTyped

LEMMA PageSteps ==
    ASSUME HelpersInv, NEW u \in HelperUsers, PageAnswered(u) \/ PageFails(u) \/ PageLacks(u)
    PROVE  HelpersInv'
<1>1. CASE PageAnswered(u)
  <2>1. helping[u].at > 0 /\ Here(u) # Stats BY <1>1 DEF PageAnswered, Plain, Stats, Source
  <2>2. helping[u] \in HelperCalls BY <2>1, AtASource
  <2>3. helping[u].lost \in SUBSET SourceNames BY <2>2 DEF HelperCalls
  <2>4. helping[u] = [helping[u] EXCEPT !.lost = helping[u].lost] BY <2>2 DEF HelperCalls
  <2>5. PageDone(u, [helping[u] EXCEPT !.lost = helping[u].lost])
    BY <1>1, <2>4 DEF PageAnswered
  <2>6. MemoryTyped' /\ CallsTyped' /\ CallsAreSound' BY <2>1, <2>3, <2>5, PageIsDone
  <2> QED BY <1>1, <2>6 DEF PageAnswered, HelpersInv, DaysTyped
<1>2. CASE PageFails(u) BY <1>2, PageIsLost DEF PageFails
<1>3. CASE PageLacks(u) BY <1>3, PageIsLost DEF PageLacks
<1> QED BY <1>1, <1>2, <1>3

LEMMA OutsideSteps ==
    ASSUME HelpersInv, ClearHelpers \/ RefreshWorkdays \/ NextDay
    PROVE  HelpersInv'
<1>0. today \in Int /\ remembered \in Memories BY DEF HelpersInv, DaysTyped, MemoryTyped
<1>1. CallsTyped' /\ CallsAreSound'
  BY DEF ClearHelpers, RefreshWorkdays, NextDay, HelpersInv, CallsTyped, CallsAreSound, CallIsSound,
         StatsFit
<1>2. CASE ClearHelpers
  <2>1. remembered' \in Memories BY <1>0, <1>2 DEF ClearHelpers, NothingKept, Memories
  <2> QED BY <1>1, <1>2, <2>1 DEF ClearHelpers, HelpersInv, DaysTyped, MemoryTyped
<1>3. CASE RefreshWorkdays
  <2>1. remembered' \in Memories BY <1>0, <1>3 DEF RefreshWorkdays, Memories
  <2> QED BY <1>1, <1>3, <2>1 DEF RefreshWorkdays, HelpersInv, DaysTyped, MemoryTyped
<1>4. CASE NextDay
  <2>1. today' \in Int BY <1>0, <1>4 DEF NextDay
  <2> QED BY <1>1, <1>4, <2>1 DEF NextDay, HelpersInv, DaysTyped, MemoryTyped
<1> QED BY <1>2, <1>3, <1>4

\* A helper answers from statistics of the days it resolved, and no source it
\* can do without costs the call, whatever the sources answer, however the days
\* go by and whoever empties what the client remembers (helpers/shortline.py,
\* helpers/core.py).
THEOREM HelperWords == HelpersSpec => []HelpersKeepTheirWord
<1>1. HelpersInit => HelpersInv
  <2> SUFFICES ASSUME HelpersInit PROVE HelpersInv OBVIOUS
  <2>1. DaysTyped /\ MemoryTyped
    BY DEF HelpersInit, DaysTyped, MemoryTyped, NothingKept, Memories
  <2>2. NotHelping \in HelperCalls
    <3>1. NoHelper \in AllHelpers \cup {NoHelper} /\ {} \in SUBSET SourceNames OBVIOUS
    <3> QED BY <3>1 DEF NotHelping, HelperCalls, Reasons
  <2>3. CallIsSound(NotHelping)
    <3>1. NotHelping.at = 0 /\ NotHelping.got = "none" BY DEF NotHelping
    <3> QED BY <2>2, <3>1, LengthOfSources DEF CallIsSound
  <2> QED BY <2>1, <2>2, <2>3 DEF HelpersInit, HelpersInv, CallsTyped, CallsAreSound
<1>2. HelpersInv /\ [HelpersNext]_helperVars => HelpersInv'
  <2> SUFFICES ASSUME HelpersInv, [HelpersNext]_helperVars PROVE HelpersInv' OBVIOUS
  <2>1. ASSUME NEW u \in HelperUsers, HelperStep(u) PROVE HelpersInv'
    BY <2>1, CallHelperStep, ShakeHandsStep, ReadWorkdaysStep, StatsSteps, UseKeptStep, PageSteps
       DEF HelperStep
  <2>2. CASE UNCHANGED helperVars
    BY <2>2 DEF helperVars, HelpersInv, DaysTyped, MemoryTyped, CallsTyped, CallsAreSound,
                CallIsSound, StatsFit
  <2> QED BY <2>1, <2>2, OutsideSteps DEF HelpersNext
<1>3. HelpersInv => HelpersKeepTheirWord
  <2> SUFFICES ASSUME HelpersInv, NEW u \in HelperUsers
               PROVE  /\ helping[u].got = "rows"
                         /\ Stats \in { helping[u].helper.sources[i] :
                                        i \in 1 .. Len(helping[u].helper.sources) }
                            => Fits(u, helping[u].stats)
                      /\ helping[u].got = "error"
                            => helping[u].why \notin SparedSources
    BY DEF HelpersKeepTheirWord, SparedSources
  <2>1. helping[u] \in HelperCalls /\ CallIsSound(helping[u])
    BY DEF HelpersInv, CallsTyped, CallsAreSound
  <2>2. Len(helping[u].helper.sources) \in Nat BY <2>1, LengthOfSources
  <2> QED BY <2>1, <2>2 DEF CallIsSound, StatsFit, Fits
<1> QED BY <1>1, <1>2, <1>3, PTL DEF HelpersSpec

-----------------------------------------------------------------------------
(* The hosts in the order of a search                                      *)

\* The host a search looks at after step others, and those others.
HostAt(first, step) == 1 + ((first + step) % NCandidates)
Passed(first, step) == { HostAt(first, i) : i \in 0 .. step - 1 }

LEMMA LimitIsSmall ==
    ASSUME MoneyFlowAssumption
    PROVE  Least(MaxProbes, NCandidates) \in Nat /\ Least(MaxProbes, NCandidates) <= NCandidates
  BY DEF MoneyFlowAssumption, Least

LEMMA Wraps ==
    ASSUME NEW n \in Nat \ {0}, NEW a \in 0 .. n - 1, NEW b \in 0 .. n - 1
    PROVE  (a + b) % n = IF a + b < n THEN a + b ELSE a + b - n
<1>1. CASE a + b < n
  <2>1. a + b \in 0 .. n - 1
    BY <1>1
  <2>2. ASSUME NEW x \in 0 .. n - 1 PROVE x % n = x
    OBVIOUS
  <2> QED
    BY <1>1, <2>1, <2>2
<1>2. CASE ~(a + b < n)
  <2>1. PICK x : x = a + b - n
    OBVIOUS
  <2>2. x \in 0 .. n - 1 /\ a + b = n + x
    BY <1>2, <2>1
  <2>3. (n + x) % n = x
    BY <2>2
  <2> QED
    BY <1>2, <2>1, <2>2, <2>3
<1> QED
  BY <1>1, <1>2

\* A search looks at another host at every step.
LEMMA HostsDiffer ==
    ASSUME MoneyFlowAssumption,
           NEW first \in 0 .. NCandidates - 1, NEW step \in 0 .. NCandidates - 1
    PROVE  /\ HostAt(first, step) \in Candidates
           /\ HostAt(first, step) \notin Passed(first, step)
<1>1. NCandidates \in Nat \ {0}
  BY DEF MoneyFlowAssumption
<1>2. ASSUME NEW i \in 0 .. NCandidates - 1
      PROVE  HostAt(first, i) = 1 + (IF first + i < NCandidates THEN first + i
                                     ELSE first + i - NCandidates)
  BY <1>1, Wraps DEF HostAt
<1>3. HostAt(first, step) \in Candidates
  BY <1>1, <1>2 DEF Candidates
<1>4. ASSUME NEW i \in 0 .. step - 1 PROVE HostAt(first, i) # HostAt(first, step)
  <2>1. i \in 0 .. NCandidates - 1 /\ i < step
    BY <1>1
  <2> QED
    BY <1>1, <1>2, <2>1
<1> QED
  BY <1>3, <1>4 DEF Passed

LEMMA PassedOneMore ==
    ASSUME NEW first \in Nat, NEW step \in Nat
    PROVE  Passed(first, step + 1) = Passed(first, step) \cup {HostAt(first, step)}
<1>1. 0 .. (step + 1) - 1 = (0 .. step - 1) \cup {step}
  OBVIOUS
<1> QED
  BY <1>1, Zenon DEF Passed

LEMMA PassedNone == ASSUME NEW first PROVE Passed(first, 0) = {}
  BY DEF Passed

-----------------------------------------------------------------------------
(* The invariant.                                                          *)

Limit == Least(MaxProbes, NCandidates)
AnyTransport == Transports \cup {None}

Places == {"wait", "preferred", "pool", "ask", "recover", "again", "probe", "query",
           "data", "empty", "error"}
TaskRecords == [at : Places, via : AnyTransport, first : 0 .. NCandidates - 1, step : Nat,
                tried : SUBSET Candidates, spared : SUBSET Candidates, excused : BOOLEAN]
CallRecords == [transport : AnyTransport, left : Nat, cursor : 0 .. NCandidates - 1,
                lock : Nat, opened : Nat]

FlowTyped ==
    /\ holder \in [AskedCodes -> Nobody .. Pool]
    /\ dedicated \in AnyTransport /\ dedicated.host \notin Candidates
    /\ preferred \in AnyTransport
    /\ call \in [DOMAIN Calls -> CallRecords]
    /\ task \in [Tasks -> TaskRecords]
    /\ open \subseteq Transports
    /\ closes \in 0 .. MaxCloses

WithinBudget == \A b \in DOMAIN Calls : call[b].opened + call[b].left <= Budget(b)

\* The transport an API keeps is the one some call found data on, and that call
\* asks it again; before the first close() there is no other.
TransportAdopted ==
    /\ preferred # None => /\ preferred.by \in DOMAIN Calls
                           /\ call[preferred.by].transport = preferred
    /\ \A b \in DOMAIN Calls : call[b].transport # None =>
           /\ call[b].transport.host \in Candidates
           /\ closes = 0 => call[b].transport = preferred

\* A search passed the hosts of seen, one after the other, without the data,
\* save at one it was spared; and the host of its call does not have it.
SoughtInVain(t, seen) ==
    /\ seen = Passed(task[t].first, task[t].step)
    /\ IsFiniteSet(seen) /\ Cardinality(seen) = task[t].step
    /\ ~task[t].excused /\ holder[CodeOf(t)] \in seen => holder[CodeOf(t)] \in task[t].spared
    /\ Failover(t).transport # None => holder[CodeOf(t)] # Failover(t).transport.host

NothingTried(t) == task[t].tried = {} /\ task[t].spared = {} /\ task[t].step = 0
Searching(t) == task[t].at \in {"again", "probe", "query"}

TaskInv(t) ==
    /\ task[t].at \in {"wait", "preferred", "pool", "ask", "recover", "again"} => NothingTried(t)
    /\ task[t].at = "ask" =>
          /\ task[t].via # None
          /\ closes = 0 /\ task[t].via.host \in Candidates => task[t].via = preferred
    /\ Searching(t) => Holds(t)
    /\ task[t].at = "again" => Failover(t).transport # None
    /\ task[t].at = "probe" => task[t].step <= Limit /\ SoughtInVain(t, task[t].tried)
    /\ task[t].at = "query" =>
          /\ ProbesLeft(t)
          /\ task[t].via = [host |-> ProbeHost(t), by |-> t[1]]
          /\ ProbeHost(t) \in task[t].tried
          /\ SoughtInVain(t, task[t].tried \ {ProbeHost(t)})

\* A transport to one host that is open is the one kept, or of a search.
TransportOwned(o) ==
    closes = 0 /\ o.host \in Candidates =>
        \/ o = preferred
        \/ \E t \in Tasks : task[t].at = "query" /\ task[t].via = o

FlowInv ==
    /\ FlowTyped /\ WithinBudget /\ TransportAdopted
    /\ \A t \in Tasks : TaskInv(t)
    /\ \A o \in open : TransportOwned(o)
    /\ EmptyWasLookedFor

-----------------------------------------------------------------------------
(* One step of one task, and what it leaves of the others.                 *)

LEMMA TaskParts ==
    ASSUME MoneyFlowAssumption, NEW t \in Tasks
    PROVE  /\ t[1] \in DOMAIN Calls /\ t[1] \in Nat \ {0} /\ t[2] \in Nat \ {0}
           /\ CodeOf(t) \in AskedCodes
           /\ \A u \in Tasks : u[1] = t[1] /\ u[2] = t[2] => u = t
<1>1. PICK b \in DOMAIN Calls : t \in {b} \X DOMAIN Calls[b]
  BY DEF Tasks
<1>2. Calls \in Seq(Seq(AskedCodes))
  BY DEF MoneyFlowAssumption
<1>3. Calls[b] \in Seq(AskedCodes) /\ b \in Nat \ {0}
  BY <1>1, <1>2
<1>4. t[1] = b /\ t[2] \in DOMAIN Calls[b] /\ t = <<t[1], t[2]>>
  BY <1>1
<1>5. t[2] \in Nat \ {0}
  BY <1>3, <1>4
<1>6. Calls[b][t[2]] \in AskedCodes
  BY <1>3, <1>4
<1>7. ASSUME NEW u \in Tasks, u[1] = t[1], u[2] = t[2] PROVE u = t
  <2>1. PICK c \in DOMAIN Calls : u \in {c} \X DOMAIN Calls[c]
    BY DEF Tasks
  <2>2. u = <<u[1], u[2]>>
    BY <2>1
  <2> QED
    BY <1>4, <1>7, <2>2
<1> QED
  BY <1>1, <1>3, <1>4, <1>5, <1>6, <1>7 DEF CodeOf

LEMMA CallParts ==
    ASSUME MoneyFlowAssumption, NEW b \in DOMAIN Calls
    PROVE  b \in Nat \ {0} /\ Budget(b) \in Nat
<1>1. Calls \in Seq(Seq(AskedCodes)) /\ BudgetCodes \in Nat /\ MaxProbes \in Nat
  BY DEF MoneyFlowAssumption
<1>2. b \in Nat \ {0} /\ Calls[b] \in Seq(AskedCodes)
  BY <1>1
<1>3. Len(Calls[b]) \in Nat
  BY <1>2
<1>4. Least(Len(Calls[b]), BudgetCodes) \in Nat
  BY <1>1, <1>3 DEF Least
<1> QED
  BY <1>1, <1>2, <1>4 DEF Budget

\* The lock of a call has one holder.
LEMMA LockedOut ==
    ASSUME MoneyFlowAssumption, FlowInv, NEW t \in Tasks, NEW u \in Tasks, u # t,
           Searching(u), call[t[1]].lock \in {0, t[2]}
    PROVE  u[1] # t[1]
<1>1. call[u[1]].lock = u[2]
  BY DEF FlowInv, TaskInv, Holds
<1>2. u[2] # 0
  BY TaskParts
<1> QED
  BY <1>1, <1>2, TaskParts

LEMMA TaskElsewhere ==
    ASSUME NEW u \in Tasks, TaskInv(u), task'[u] = task[u], holder' = holder,
           Searching(u) => call'[u[1]] = call[u[1]],
           closes' = 0 => closes = 0 /\ (preferred' = preferred \/ preferred = None)
    PROVE  TaskInv(u)'
<1>1. CASE Searching(u)
  BY <1>1 DEF TaskInv, NothingTried, Searching, Holds, SoughtInVain, Failover, ProbesLeft, ProbeHost
<1>2. CASE ~Searching(u)
  BY <1>2 DEF TaskInv, NothingTried, Searching
<1> QED
  BY <1>1, <1>2

LookedFor(t) ==
    task[t].at = "empty" /\ ~task[t].excused =>
        \/ holder[CodeOf(t)] \notin Candidates
        \/ /\ holder[CodeOf(t)] \notin task[t].tried
           /\ Cardinality(task[t].tried) = Limit
        \/ holder[CodeOf(t)] \in task[t].spared

LEMMA LookedForEmpty == EmptyWasLookedFor <=> \A t \in Tasks : LookedFor(t)
  BY DEF EmptyWasLookedFor, LookedFor, Limit

\* What is left to show of a step of t.
LEMMA TaskStepOf ==
    ASSUME MoneyFlowAssumption, FlowInv, NEW t \in Tasks,
           holder' = holder, closes' = closes, preferred' = preferred \/ preferred = None,
           \A u \in Tasks : u # t => task'[u] = task[u],
           \A b \in DOMAIN Calls : b # t[1] => call'[b] = call[b],
           call[t[1]].lock \in {0, t[2]} \/ call'[t[1]] = call[t[1]],
           call'[t[1]].opened + call'[t[1]].left <= Budget(t[1]),
           FlowTyped', TransportAdopted', TaskInv(t)', LookedFor(t)',
           \A o \in open' : \/ TransportOwned(o)'
                            \/ o \in open /\ (task[t].at = "query" => o # task[t].via)
    PROVE  FlowInv'
<1>1. WithinBudget'
  BY DEF FlowInv, WithinBudget
<1>2. ASSUME NEW u \in Tasks PROVE TaskInv(u)'
  <2>1. CASE u = t
    BY <2>1
  <2>2. CASE u # t
    <3>1. Searching(u) => call'[u[1]] = call[u[1]]
      BY <2>2, LockedOut, TaskParts
    <3>2. TaskInv(u) /\ task'[u] = task[u]
      BY <2>2 DEF FlowInv
    <3> QED
      BY <3>1, <3>2, TaskElsewhere
  <2> QED
    BY <2>1, <2>2
<1>3. ASSUME NEW u \in Tasks PROVE LookedFor(u)'
  <2>1. CASE u = t
    BY <2>1
  <2>2. CASE u # t
    <3>1. LookedFor(u) /\ task'[u] = task[u]
      BY <2>2, LookedForEmpty DEF FlowInv
    <3> QED
      BY <3>1 DEF LookedFor
  <2> QED
    BY <2>1, <2>2
<1>4. ASSUME NEW o \in open' PROVE TransportOwned(o)'
  <2>1. CASE o \in open /\ (task[t].at = "query" => o # task[t].via)
    <3>1. TransportOwned(o)
      BY <2>1 DEF FlowInv
    <3> SUFFICES ASSUME closes = 0, o.host \in Candidates PROVE TransportOwned(o)'
      BY DEF TransportOwned
    <3>2. CASE o = preferred
      <4>1. preferred # None
        BY <3>2 DEF None, Candidates, Nobody
      <4>2. preferred' = o
        BY <3>2, <4>1
      <4> QED
        BY <4>2 DEF TransportOwned
    <3>3. CASE \E u \in Tasks : task[u].at = "query" /\ task[u].via = o
      <4>1. PICK u \in Tasks : task[u].at = "query" /\ task[u].via = o
        BY <3>3
      <4>2. task'[u] = task[u]
        BY <2>1, <4>1
      <4> QED
        BY <4>1, <4>2 DEF TransportOwned
    <3> QED
      BY <3>1, <3>2, <3>3 DEF TransportOwned
  <2> QED
    BY <2>1
<1>5. EmptyWasLookedFor'
  BY <1>3, LookedForEmpty DEF EmptyWasLookedFor, LookedFor, Limit
<1> QED
  BY <1>1, <1>2, <1>4, <1>5 DEF FlowInv

-----------------------------------------------------------------------------
(* Every step keeps the invariant.                                         *)

LEMMA TransportParts ==
    ASSUME MoneyFlowAssumption
    PROVE  /\ None \notin Transports /\ None.host = Nobody /\ None.by = 0
           /\ Nobody \notin Candidates /\ Pool \notin Candidates
           /\ \A host \in Candidates, b \in DOMAIN Calls : [host |-> host, by |-> b] \in Transports
           /\ \A n \in 0 .. MaxCloses : [host |-> Pool, by |-> n] \in Transports
<1>1. NCandidates \in Nat \ {0}
  BY DEF MoneyFlowAssumption
<1>2. Nobody \notin Candidates /\ Pool \notin Candidates /\ Nobody # Pool
  BY <1>1 DEF Nobody, Candidates, Pool
<1> QED
  BY <1>2, Zenon DEF None, Transports

\* Steps that leave the calls and the open transports as they are.
LEMMA QuietStep ==
    ASSUME MoneyFlowAssumption, FlowInv, NEW t \in Tasks, ~Searching(t), NEW k \in TaskRecords,
           task' = [task EXCEPT ![t] = k],
           holder' = holder, closes' = closes, preferred' = preferred, call' = call,
           open' = open, dedicated' \in AnyTransport, dedicated'.host \notin Candidates,
           k.at \in {"preferred", "pool", "ask", "error", "recover", "data"},
           k.at \in {"preferred", "pool", "ask", "recover"} =>
               k.tried = {} /\ k.spared = {} /\ k.step = 0,
           k.at = "ask" => /\ k.via # None
                           /\ closes = 0 /\ k.via.host \in Candidates => k.via = preferred
    PROVE  FlowInv'
<1>1. task'[t] = k /\ \A u \in Tasks : u # t => task'[u] = task[u]
  BY DEF FlowInv, FlowTyped
<1>2. FlowTyped'
  BY DEF FlowInv, FlowTyped
<1>3. TransportAdopted'
  BY DEF FlowInv, TransportAdopted
<1>4. TaskInv(t)'
  BY <1>1 DEF TaskInv, NothingTried, Searching
<1>5. LookedFor(t)'
  BY <1>1 DEF LookedFor
<1>6. call'[t[1]].opened + call'[t[1]].left <= Budget(t[1])
  BY TaskParts DEF FlowInv, WithinBudget
<1>7. task[t].at # "query"
  BY DEF Searching
<1> QED
  BY <1>1, <1>2, <1>3, <1>4, <1>5, <1>6, <1>7, TaskStepOf

LEMMA TaskTyped ==
    ASSUME FlowInv, NEW t \in Tasks
    PROVE  /\ task[t] \in TaskRecords
           /\ task[t].at \in Places /\ task[t].via \in AnyTransport
           /\ task[t].first \in 0 .. NCandidates - 1 /\ task[t].step \in Nat
           /\ task[t].tried \in SUBSET Candidates /\ task[t].spared \in SUBSET Candidates
           /\ task[t].excused \in BOOLEAN
           /\ DOMAIN task = Tasks
  BY DEF FlowInv, FlowTyped, TaskRecords

LEMMA CallTyped ==
    ASSUME FlowInv, NEW b \in DOMAIN Calls
    PROVE  /\ call[b] \in CallRecords
           /\ call[b].transport \in AnyTransport /\ call[b].left \in Nat
           /\ call[b].cursor \in 0 .. NCandidates - 1 /\ call[b].lock \in Nat
           /\ call[b].opened \in Nat
           /\ DOMAIN call = DOMAIN Calls
  BY DEF FlowInv, FlowTyped, CallRecords

\* A task at another place.
LEMMA TaskAt ==
    ASSUME FlowInv, NEW t \in Tasks, NEW at \in Places
    PROVE  /\ [task EXCEPT ![t].at = at] = [task EXCEPT ![t] = [task[t] EXCEPT !.at = at]]
           /\ [task[t] EXCEPT !.at = at] \in TaskRecords
           /\ LET k == [task[t] EXCEPT !.at = at] IN
              /\ k.at = at /\ k.via = task[t].via /\ k.first = task[t].first
              /\ k.step = task[t].step /\ k.tried = task[t].tried
              /\ k.spared = task[t].spared /\ k.excused = task[t].excused
  BY TaskTyped, Zenon DEF TaskRecords

LEMMA StartStep ==
    ASSUME MoneyFlowAssumption, FlowInv, NEW t \in Tasks, Start(t)
    PROVE  FlowInv'
<1>1. PICK at \in {"preferred", "pool"} : task' = [task EXCEPT ![t].at = at]
  BY DEF Start, Go
<1>2. at \in Places
  BY DEF Places
<1>3. PICK k : k = [task[t] EXCEPT !.at = at]
  OBVIOUS
<1>4. k \in TaskRecords /\ task' = [task EXCEPT ![t] = k] /\ k.at = at
      /\ k.tried = task[t].tried /\ k.spared = task[t].spared /\ k.step = task[t].step
  BY <1>1, <1>2, <1>3, TaskAt, Zenon
<1>5. task[t].at = "wait" /\ ~Searching(t)
  BY DEF Start, Searching
<1>6. NothingTried(t)
  BY <1>5 DEF FlowInv, TaskInv
<1>7. dedicated' \in AnyTransport /\ dedicated'.host \notin Candidates
  BY DEF FlowInv, FlowTyped, Start
<1> QED
  BY <1>4, <1>5, <1>6, <1>7, QuietStep DEF Start, NothingTried

LEMMA TakePreferredStep ==
    ASSUME MoneyFlowAssumption, FlowInv, NEW t \in Tasks, TakePreferred(t)
    PROVE  FlowInv'
<1>1. task[t].at = "preferred" /\ ~Searching(t)
  BY DEF TakePreferred, Searching
<1>2. NothingTried(t)
  BY <1>1 DEF FlowInv, TaskInv
<1>3. dedicated' \in AnyTransport /\ dedicated'.host \notin Candidates
  BY DEF FlowInv, FlowTyped, TakePreferred
<1>4. CASE preferred = None
  <2>1. PICK k : k = [task[t] EXCEPT !.at = "error", !.excused = TRUE]
    OBVIOUS
  <2>2. task' = [task EXCEPT ![t] = k]
    BY <1>4, <2>1, TaskTyped, Zenon DEF TakePreferred
  <2>3. k \in TaskRecords /\ k.at = "error"
    <3>1. "error" \in Places /\ TRUE \in BOOLEAN
      BY DEF Places
    <3> QED
      BY <2>1, <3>1, TaskTyped, Zenon DEF TaskRecords
  <2> QED
    BY <1>1, <1>3, <2>2, <2>3, QuietStep DEF TakePreferred
<1>5. CASE preferred # None
  <2>1. PICK k : k = [task[t] EXCEPT !.at = "ask", !.via = preferred]
    OBVIOUS
  <2>2. task' = [task EXCEPT ![t] = k]
    BY <1>5, <2>1, TaskTyped, Zenon DEF TakePreferred
  <2>3. k \in TaskRecords /\ k.at = "ask" /\ k.via = preferred
        /\ k.tried = task[t].tried /\ k.spared = task[t].spared /\ k.step = task[t].step
    <3>1. "ask" \in Places /\ preferred \in AnyTransport
      BY DEF Places, FlowInv, FlowTyped
    <3> QED
      BY <2>1, <3>1, TaskTyped, Zenon DEF TaskRecords
  <2> QED
    BY <1>1, <1>2, <1>3, <1>5, <2>2, <2>3, QuietStep DEF TakePreferred, NothingTried
<1> QED
  BY <1>4, <1>5

LEMMA TakeDedicatedStep ==
    ASSUME MoneyFlowAssumption, FlowInv, NEW t \in Tasks, TakeDedicated(t)
    PROVE  FlowInv'
<1>1. task[t].at = "pool" /\ ~Searching(t)
  BY DEF TakeDedicated, Searching
<1>2. NothingTried(t)
  BY <1>1 DEF FlowInv, TaskInv
<1>3. PICK d : d = dedicated'
  OBVIOUS
<1>4. d \in AnyTransport /\ d.host \notin Candidates /\ d # None
  <2>1. dedicated \in AnyTransport /\ dedicated.host \notin Candidates /\ closes \in 0 .. MaxCloses
    BY DEF FlowInv, FlowTyped
  <2>2. [host |-> Pool, by |-> closes] \in Transports
    BY <2>1, TransportParts
  <2> QED
    BY <1>3, <2>1, <2>2, TransportParts DEF TakeDedicated, AnyTransport
<1>5. PICK k : k = [task[t] EXCEPT !.at = "ask", !.via = d]
  OBVIOUS
<1>6. task' = [task EXCEPT ![t] = k]
  BY <1>3, <1>5, TaskTyped, Zenon DEF TakeDedicated
<1>7. k \in TaskRecords /\ k.at = "ask" /\ k.via = d
      /\ k.tried = task[t].tried /\ k.spared = task[t].spared /\ k.step = task[t].step
  <2>1. "ask" \in Places
    BY DEF Places
  <2> QED
    BY <1>4, <1>5, <2>1, TaskTyped, Zenon DEF TaskRecords
<1> QED
  BY <1>1, <1>2, <1>3, <1>4, <1>6, <1>7, QuietStep, ZenonT(40) DEF TakeDedicated, NothingTried

LEMMA AskFailsStep ==
    ASSUME MoneyFlowAssumption, FlowInv, NEW t \in Tasks, AskFails(t)
    PROVE  FlowInv'
<1>1. PICK k : k = [task[t] EXCEPT !.at = "error", !.excused = TRUE]
  OBVIOUS
<1>2. task' = [task EXCEPT ![t] = k]
  BY <1>1, TaskTyped, Zenon DEF AskFails
<1>3. k \in TaskRecords /\ k.at = "error"
  <2>1. "error" \in Places /\ TRUE \in BOOLEAN
    BY DEF Places
  <2> QED
    BY <1>1, <2>1, TaskTyped, Zenon DEF TaskRecords
<1>4. ~Searching(t)
  BY DEF AskFails, Searching
<1>5. dedicated' \in AnyTransport /\ dedicated'.host \notin Candidates
  BY DEF FlowInv, FlowTyped, AskFails
<1> QED
  BY <1>2, <1>3, <1>4, <1>5, QuietStep DEF AskFails

\* A step of t under the lock, or to it, that keeps what its call found.
LEMMA LockedStep ==
    ASSUME MoneyFlowAssumption, FlowInv, NEW t \in Tasks,
           NEW k \in TaskRecords, task' = [task EXCEPT ![t] = k],
           NEW c \in CallRecords, call' = [call EXCEPT ![t[1]] = c],
           c.transport = call[t[1]].transport, c.opened + c.left <= Budget(t[1]),
           call[t[1]].lock \in {0, t[2]} \/ c = call[t[1]],
           UNCHANGED <<holder, dedicated, preferred, closes>>, open' \subseteq Transports,
           TaskInv(t)', LookedFor(t)',
           \A o \in open' : \/ TransportOwned(o)'
                            \/ o \in open /\ (task[t].at = "query" => o # task[t].via)
    PROVE  FlowInv'
<1>1. t[1] \in DOMAIN Calls
  BY TaskParts
<1>2. \A u \in Tasks : u # t => task'[u] = task[u]
  BY TaskTyped
<1>3. call'[t[1]] = c /\ \A b \in DOMAIN Calls : b # t[1] => call'[b] = call[b]
  BY <1>1, CallTyped
<1>4. FlowTyped'
  <2>1. task' \in [Tasks -> TaskRecords]
    BY DEF FlowInv, FlowTyped
  <2>2. call' \in [DOMAIN Calls -> CallRecords]
    BY <1>1 DEF FlowInv, FlowTyped
  <2> QED
    BY <2>1, <2>2 DEF FlowInv, FlowTyped
<1>5. TransportAdopted'
  <2>1. \A b \in DOMAIN Calls : call'[b].transport = call[b].transport
    BY <1>3
  <2> QED
    BY <2>1 DEF FlowInv, TransportAdopted
<1> QED
  BY <1>2, <1>3, <1>4, <1>5, TaskStepOf

\* A call whose lock is set or freed.
LEMMA LockParts ==
    ASSUME FlowInv, NEW b \in DOMAIN Calls, NEW n \in Nat
    PROVE  /\ [call EXCEPT ![b].lock = n] = [call EXCEPT ![b] = [call[b] EXCEPT !.lock = n]]
           /\ [call[b] EXCEPT !.lock = n] \in CallRecords
           /\ LET c == [call[b] EXCEPT !.lock = n] IN
              /\ c.lock = n /\ c.transport = call[b].transport /\ c.left = call[b].left
              /\ c.opened = call[b].opened
  BY CallTyped, Zenon DEF CallRecords

LEMMA SameCall ==
    ASSUME FlowInv, NEW b \in DOMAIN Calls
    PROVE  /\ call = [call EXCEPT ![b] = call[b]]
           /\ call[b] \in CallRecords /\ call[b].opened + call[b].left <= Budget(b)
  BY DEF FlowInv, FlowTyped, WithinBudget

LEMMA AskStep ==
    ASSUME MoneyFlowAssumption, FlowInv, NEW t \in Tasks, Ask(t)
    PROVE  FlowInv'
<1>1. PICK at \in {"data", "recover"} : task' = [task EXCEPT ![t].at = at]
  BY DEF Ask, Go
<1>2. at \in Places
  BY DEF Places
<1>3. PICK k : k = [task[t] EXCEPT !.at = at]
  OBVIOUS
<1>4. k \in TaskRecords /\ task' = [task EXCEPT ![t] = k] /\ k.at = at
      /\ k.tried = task[t].tried /\ k.spared = task[t].spared /\ k.step = task[t].step
  BY <1>1, <1>2, <1>3, TaskAt, Zenon
<1>5. task'[t] = k
  BY <1>4, TaskTyped
<1>6. /\ NothingTried(t) /\ task[t].via # None
      /\ closes = 0 /\ task[t].via.host \in Candidates => task[t].via = preferred
  BY DEF FlowInv, TaskInv, Ask
<1>7. TaskInv(t)'
  BY <1>4, <1>5, <1>6 DEF TaskInv, NothingTried, Searching
<1>8. LookedFor(t)'
  BY <1>4, <1>5 DEF LookedFor
<1>9. task[t].via \in Transports /\ task[t].at = "ask" /\ open' = open \cup {task[t].via}
  BY <1>6, TaskTyped DEF AnyTransport, Ask
<1>10. open' \subseteq Transports
  BY <1>9 DEF FlowInv, FlowTyped
<1>11. \A o \in open' : o \in open \/ TransportOwned(o)'
  BY <1>6, <1>9 DEF TransportOwned, Ask
<1>12. PICK c : c = call[t[1]]
  OBVIOUS
<1>13. c \in CallRecords /\ call' = [call EXCEPT ![t[1]] = c] /\ c.opened + c.left <= Budget(t[1])
  BY <1>12, SameCall, TaskParts DEF Ask
<1>14. UNCHANGED <<holder, dedicated, preferred, closes>>
  BY DEF Ask
<1> QED
  BY <1>4, <1>7, <1>8, <1>9, <1>10, <1>11, <1>12, <1>13, <1>14, LockedStep

LEMMA Remainder ==
    ASSUME MoneyFlowAssumption, NEW n \in Nat
    PROVE  n % NCandidates \in 0 .. NCandidates - 1
  BY DEF MoneyFlowAssumption

\* Where a search begins, nothing is passed.
LEMMA NothingSought ==
    ASSUME NEW t \in Tasks, task[t].tried = {}, task[t].step = 0,
           Failover(t).transport # None => holder[CodeOf(t)] # Failover(t).transport.host
    PROVE  SoughtInVain(t, {})
  BY PassedNone, FS_EmptySet DEF SoughtInVain

LEMMA RecoverStep ==
    ASSUME MoneyFlowAssumption, FlowInv, NEW t \in Tasks, Recover(t)
    PROVE  FlowInv'
<1>0. t[1] \in DOMAIN Calls /\ t[2] \in Nat
  BY TaskParts
<1>1. PICK at \in {"probe", "again"} :
          at = IF Failover(t).transport = None THEN "probe" ELSE "again"
  OBVIOUS
<1>2. PICK first \in 0 .. NCandidates - 1 : first = Failover(t).cursor % NCandidates
  <2>1. Failover(t).cursor \in Nat
    BY <1>0, CallTyped DEF Failover
  <2> QED
    BY <2>1, Remainder
<1>3. at \in Places
  BY DEF Places
<1>4. PICK k : k = [task[t] EXCEPT !.at = at, !.first = first]
  OBVIOUS
<1>5. task' = [task EXCEPT ![t] = k]
  BY <1>1, <1>2, <1>4, TaskTyped, Zenon DEF Recover
<1>6. k \in TaskRecords /\ k.at = at /\ k.tried = task[t].tried /\ k.spared = task[t].spared
      /\ k.step = task[t].step
  BY <1>3, <1>4, TaskTyped, Zenon DEF TaskRecords
<1>7. task'[t] = k
  BY <1>5, TaskTyped
<1>8. NothingTried(t)
  BY DEF FlowInv, TaskInv, Recover
<1>9. PICK c : c = [call[t[1]] EXCEPT !.lock = t[2]]
  OBVIOUS
<1>10. call' = [call EXCEPT ![t[1]] = c] /\ c \in CallRecords /\ c.lock = t[2]
       /\ c.transport = call[t[1]].transport /\ c.left = call[t[1]].left
       /\ c.opened = call[t[1]].opened
  BY <1>0, <1>9, LockParts, Zenon DEF Recover
<1>11. call'[t[1]] = c
  BY <1>0, <1>10, CallTyped
<1>12. UNCHANGED <<holder, dedicated, preferred, closes, open>>
       /\ call[t[1]].lock = 0 /\ task[t].at = "recover"
  BY DEF Recover, Failover
<1>13. TaskInv(t)'
  <2>1. CASE at = "probe"
    <3>1. Failover(t)'.transport = None
      BY <1>1, <1>10, <1>11, <2>1 DEF Failover
    <3>2. task'[t].tried = {} /\ task'[t].step = 0 /\ task'[t].at = "probe"
      BY <1>6, <1>7, <1>8, <2>1 DEF NothingTried
    <3>3. SoughtInVain(t, {})'
      BY <3>1, <3>2, PassedNone, FS_EmptySet DEF SoughtInVain
    <3>4. 0 <= Limit
      BY LimitIsSmall DEF Limit
    <3>5. Holds(t)'
      BY <1>10, <1>11 DEF Holds
    <3> QED
      BY <3>2, <3>3, <3>4, <3>5 DEF TaskInv
  <2>2. CASE at = "again"
    <3>1. Failover(t)'.transport # None
      BY <1>1, <1>10, <1>11, <2>2 DEF Failover
    <3>2. task'[t].at = "again" /\ NothingTried(t)'
      BY <1>6, <1>7, <1>8, <2>2 DEF NothingTried
    <3>3. Holds(t)'
      BY <1>10, <1>11 DEF Holds
    <3> QED
      BY <3>1, <3>2, <3>3 DEF TaskInv
  <2> QED
    BY <2>1, <2>2
<1>14. LookedFor(t)'
  BY <1>6, <1>7 DEF LookedFor
<1>15. open' \subseteq Transports /\ call[t[1]].opened + call[t[1]].left <= Budget(t[1])
  BY <1>0, <1>12 DEF FlowInv, FlowTyped, WithinBudget
<1> QED
  BY <1>5, <1>6, <1>10, <1>12, <1>13, <1>14, <1>15, LockedStep

\* A step that ends the search of t, and leaves what its call found.
LEMMA EndingStep ==
    ASSUME MoneyFlowAssumption, FlowInv, NEW t \in Tasks, Searching(t),
           NEW at \in {"data", "empty", "error"},
           NEW k \in TaskRecords, task' = [task EXCEPT ![t] = k], k.at = at,
           NEW c \in CallRecords, call' = [call EXCEPT ![t[1]] = c],
           c.transport = call[t[1]].transport, c.opened + c.left <= Budget(t[1]),
           UNCHANGED <<holder, dedicated, preferred, closes>>, open' \subseteq Transports,
           at = "empty" => LookedFor(t)',
           \A o \in open' : \/ TransportOwned(o)'
                            \/ o \in open /\ (task[t].at = "query" => o # task[t].via)
    PROVE  FlowInv'
<1>1. task'[t] = k
  BY TaskTyped
<1>2. TaskInv(t)'
  BY <1>1 DEF TaskInv, Searching
<1>3. LookedFor(t)'
  BY <1>1 DEF LookedFor
<1>4. call[t[1]].lock = t[2]
  BY DEF FlowInv, TaskInv, Holds
<1> QED
  BY <1>2, <1>3, <1>4, LockedStep

LEMMA AskAgainStep ==
    ASSUME MoneyFlowAssumption, FlowInv, NEW t \in Tasks, AskAgain(t)
    PROVE  FlowInv'
<1>0. t[1] \in DOMAIN Calls /\ 0 \in Nat
  BY TaskParts
<1>1. task[t].at = "again" /\ Searching(t)
  BY DEF AskAgain, Searching
<1>2. PICK found : found = Failover(t).transport
  OBVIOUS
<1>3. found \in Transports /\ (closes = 0 => found = preferred) /\ found # None
  <2>1. Failover(t).transport # None
    BY <1>1 DEF FlowInv, TaskInv
  <2>2. found \in AnyTransport
    BY <1>0, <1>2, CallTyped DEF Failover
  <2> QED
    BY <1>0, <1>2, <2>1, <2>2 DEF FlowInv, TransportAdopted, AnyTransport, Failover
<1>4. open' = open \cup {found} /\ UNCHANGED <<holder, dedicated, preferred, closes>>
  BY <1>2 DEF AskAgain
<1>5. open' \subseteq Transports
  BY <1>3, <1>4 DEF FlowInv, FlowTyped
<1>6. \A o \in open' : TransportOwned(o)' \/ (o \in open /\ (task[t].at = "query" => o # task[t].via))
  BY <1>1, <1>3, <1>4 DEF TransportOwned
<1>7. CASE HasData(found, t)
  <2>1. task' = [task EXCEPT ![t].at = "data"] /\ call' = [call EXCEPT ![t[1]].lock = 0]
    BY <1>2, <1>7 DEF AskAgain, Go, Release
  <2>2. "data" \in Places
    BY DEF Places
  <2>3. PICK k : k = [task[t] EXCEPT !.at = "data"]
    OBVIOUS
  <2>4. k \in TaskRecords /\ task' = [task EXCEPT ![t] = k] /\ k.at = "data"
    BY <2>1, <2>2, <2>3, TaskAt, Zenon
  <2>5. PICK c : c = [call[t[1]] EXCEPT !.lock = 0]
    OBVIOUS
  <2>6. call' = [call EXCEPT ![t[1]] = c] /\ c \in CallRecords
        /\ c.transport = call[t[1]].transport /\ c.left = call[t[1]].left
        /\ c.opened = call[t[1]].opened
    BY <1>0, <2>1, <2>5, LockParts, Zenon
  <2>7. c.opened + c.left <= Budget(t[1])
    BY <1>0, <2>6, SameCall
  <2> QED
    BY <1>1, <1>4, <1>5, <1>6, <2>4, <2>6, <2>7, EndingStep
<1>8. CASE ~HasData(found, t)
  <2>1. task' = [task EXCEPT ![t].at = "probe"] /\ call' = call
    BY <1>2, <1>8 DEF AskAgain, Go
  <2>2. "probe" \in Places
    BY DEF Places
  <2>3. PICK k : k = [task[t] EXCEPT !.at = "probe"]
    OBVIOUS
  <2>4. k \in TaskRecords /\ task' = [task EXCEPT ![t] = k] /\ k.at = "probe"
        /\ k.tried = task[t].tried /\ k.step = task[t].step
    BY <2>1, <2>2, <2>3, TaskAt, Zenon
  <2>5. task'[t] = k
    BY <2>4, TaskTyped
  <2>6. NothingTried(t) /\ Holds(t)
    BY <1>1 DEF FlowInv, TaskInv, Searching
  <2>7. task'[t].tried = {} /\ task'[t].step = 0 /\ task'[t].at = "probe"
    BY <2>4, <2>5, <2>6 DEF NothingTried
  <2>8. holder'[CodeOf(t)] # Failover(t)'.transport.host
    BY <1>2, <1>4, <1>8, <2>1 DEF HasData, Failover
  <2>9. SoughtInVain(t, {})'
    BY <2>7, <2>8, PassedNone, FS_EmptySet DEF SoughtInVain
  <2>10. 0 <= Limit
    BY LimitIsSmall DEF Limit
  <2>11. TaskInv(t)'
    BY <2>1, <2>6, <2>7, <2>9, <2>10 DEF TaskInv, Holds
  <2>12. LookedFor(t)'
    BY <2>7 DEF LookedFor
  <2>13. PICK c : c = call[t[1]]
    OBVIOUS
  <2>14. c \in CallRecords /\ call' = [call EXCEPT ![t[1]] = c] /\ c.opened + c.left <= Budget(t[1])
    BY <1>0, <2>1, <2>13, SameCall
  <2> QED
    BY <1>4, <1>5, <1>6, <2>4, <2>11, <2>12, <2>13, <2>14, LockedStep
<1> QED
  BY <1>7, <1>8

LEMMA AskAgainFailsStep ==
    ASSUME MoneyFlowAssumption, FlowInv, NEW t \in Tasks, AskAgainFails(t)
    PROVE  FlowInv'
<1>0. t[1] \in DOMAIN Calls /\ 0 \in Nat
  BY TaskParts
<1>1. PICK k : k = [task[t] EXCEPT !.at = "error", !.excused = TRUE]
  OBVIOUS
<1>2. task' = [task EXCEPT ![t] = k]
  BY <1>1, TaskTyped, Zenon DEF AskAgainFails
<1>3. k \in TaskRecords /\ k.at = "error"
  <2>1. "error" \in Places /\ TRUE \in BOOLEAN
    BY DEF Places
  <2> QED
    BY <1>1, <2>1, TaskTyped, Zenon DEF TaskRecords
<1>4. PICK c : c = [call[t[1]] EXCEPT !.lock = 0]
  OBVIOUS
<1>5. call' = [call EXCEPT ![t[1]] = c] /\ c \in CallRecords
      /\ c.transport = call[t[1]].transport /\ c.left = call[t[1]].left
      /\ c.opened = call[t[1]].opened
  BY <1>0, <1>4, LockParts, Zenon DEF AskAgainFails, Release
<1>6. c.opened + c.left <= Budget(t[1])
  BY <1>0, <1>5, SameCall
<1>7. task[t].at = "again" /\ Searching(t) /\ UNCHANGED <<holder, dedicated, preferred, closes, open>>
  BY DEF AskAgainFails, Searching
<1>8. open' \subseteq Transports
  BY <1>7 DEF FlowInv, FlowTyped
<1> QED
  BY <1>2, <1>3, <1>5, <1>6, <1>7, <1>8, EndingStep

LEMMA NoBudgetStep ==
    ASSUME MoneyFlowAssumption, FlowInv, NEW t \in Tasks, NoBudget(t)
    PROVE  FlowInv'
<1>0. t[1] \in DOMAIN Calls /\ 0 \in Nat
  BY TaskParts
<1>1. PICK k : k = [task[t] EXCEPT !.at = "empty", !.excused = TRUE]
  OBVIOUS
<1>2. task' = [task EXCEPT ![t] = k]
  BY <1>1, TaskTyped, Zenon DEF NoBudget
<1>3. k \in TaskRecords /\ k.at = "empty" /\ k.excused
  <2>1. "empty" \in Places /\ TRUE \in BOOLEAN
    BY DEF Places
  <2> QED
    BY <1>1, <2>1, TaskTyped, Zenon DEF TaskRecords
<1>4. PICK c : c = [call[t[1]] EXCEPT !.lock = 0]
  OBVIOUS
<1>5. call' = [call EXCEPT ![t[1]] = c] /\ c \in CallRecords
      /\ c.transport = call[t[1]].transport /\ c.left = call[t[1]].left
      /\ c.opened = call[t[1]].opened
  BY <1>0, <1>4, LockParts, ZenonT(40) DEF NoBudget, Release
<1>6. c.opened + c.left <= Budget(t[1])
  BY <1>0, <1>5, SameCall
<1>7. task[t].at = "probe" /\ Searching(t) /\ UNCHANGED <<holder, dedicated, preferred, closes, open>>
  BY DEF NoBudget, Searching
<1>8. open' \subseteq Transports
  BY <1>7 DEF FlowInv, FlowTyped
<1>9. LookedFor(t)'
  BY <1>2, <1>3, TaskTyped DEF LookedFor
<1> QED
  BY <1>2, <1>3, <1>5, <1>6, <1>7, <1>8, <1>9, EndingStep

\* A search that comes to its limit has passed as many hosts, and the data is
\* at none of them.
LEMMA GiveUpStep ==
    ASSUME MoneyFlowAssumption, FlowInv, NEW t \in Tasks, GiveUp(t)
    PROVE  FlowInv'
<1>0. t[1] \in DOMAIN Calls /\ 0 \in Nat
  BY TaskParts
<1>1. task[t].at = "probe" /\ ~ProbesLeft(t) /\ Searching(t)
      /\ UNCHANGED <<holder, dedicated, preferred, closes, open>>
  BY DEF GiveUp, Searching
<1>2. "empty" \in Places
  BY DEF Places
<1>3. PICK k : k = [task[t] EXCEPT !.at = "empty"]
  OBVIOUS
<1>4. k \in TaskRecords /\ task' = [task EXCEPT ![t] = k] /\ k.at = "empty"
      /\ k.tried = task[t].tried /\ k.spared = task[t].spared /\ k.excused = task[t].excused
  BY <1>2, <1>3, TaskAt, Zenon DEF GiveUp, Go
<1>5. task'[t] = k
  BY <1>4, TaskTyped
<1>6. PICK cursor \in 0 .. NCandidates - 1 : cursor = (task[t].first + 1) % NCandidates
  <2>1. task[t].first + 1 \in Nat
    BY TaskTyped DEF MoneyFlowAssumption
  <2> QED
    BY <2>1, Remainder
<1>7. PICK c : c = [call[t[1]] EXCEPT !.lock = 0, !.cursor = cursor]
  OBVIOUS
<1>8. call' = [call EXCEPT ![t[1]] = c]
  BY <1>0, <1>6, <1>7, CallTyped, Zenon DEF GiveUp
<1>9. c \in CallRecords /\ c.transport = call[t[1]].transport /\ c.left = call[t[1]].left
      /\ c.opened = call[t[1]].opened
  BY <1>0, <1>7, CallTyped, Zenon DEF CallRecords
<1>10. c.opened + c.left <= Budget(t[1])
  BY <1>0, <1>9, SameCall
<1>11. open' \subseteq Transports
  BY <1>1 DEF FlowInv, FlowTyped
<1>12. task[t].step <= Limit /\ SoughtInVain(t, task[t].tried)
  BY <1>1 DEF FlowInv, TaskInv
<1>13. task[t].step = Limit
  BY <1>1, <1>12, LimitIsSmall, TaskTyped DEF ProbesLeft, Limit
<1>14. Cardinality(task[t].tried) = Limit
       /\ (~task[t].excused /\ holder[CodeOf(t)] \in task[t].tried
             => holder[CodeOf(t)] \in task[t].spared)
  BY <1>12, <1>13 DEF SoughtInVain
<1>15. LookedFor(t)'
  BY <1>1, <1>4, <1>5, <1>14 DEF LookedFor, Limit
<1> QED
  BY <1>1, <1>4, <1>9, <1>8, <1>10, <1>11, <1>15, EndingStep

\* The host a search looks at next is another one.
LEMMA Onwards ==
    ASSUME MoneyFlowAssumption, FlowInv, NEW t \in Tasks, NEW seen, SoughtInVain(t, seen), ProbesLeft(t)
    PROVE  /\ ProbeHost(t) \in Candidates /\ ProbeHost(t) \notin seen
           /\ seen \cup {ProbeHost(t)} = Passed(task[t].first, task[t].step + 1)
           /\ IsFiniteSet(seen \cup {ProbeHost(t)})
           /\ Cardinality(seen \cup {ProbeHost(t)}) = task[t].step + 1
           /\ task[t].step + 1 <= Limit
<1>1. PICK first, step : first = task[t].first /\ step = task[t].step
  OBVIOUS
<1>2. first \in 0 .. NCandidates - 1 /\ step \in Nat
  BY <1>1, TaskTyped
<1>3. NCandidates \in Nat \ {0}
  BY DEF MoneyFlowAssumption
<1>4. step < Limit
  BY <1>1 DEF ProbesLeft, Limit
<1>5. Limit \in Nat /\ Limit <= NCandidates
  BY LimitIsSmall DEF Limit
<1>6. step \in 0 .. NCandidates - 1 /\ step + 1 <= Limit /\ first \in Nat
  BY <1>2, <1>3, <1>4, <1>5
<1>7. ProbeHost(t) = HostAt(first, step)
  BY <1>1 DEF ProbeHost, HostAt
<1>8. seen = Passed(first, step) /\ IsFiniteSet(seen) /\ Cardinality(seen) = step
  BY <1>1 DEF SoughtInVain
<1>9. HostAt(first, step) \in Candidates /\ HostAt(first, step) \notin seen
  BY <1>2, <1>6, <1>8, HostsDiffer
<1>10. seen \cup {HostAt(first, step)} = Passed(first, step + 1)
  BY <1>2, <1>6, <1>8, PassedOneMore
<1>11. IsFiniteSet(seen \cup {HostAt(first, step)})
       /\ Cardinality(seen \cup {HostAt(first, step)}) = step + 1
  BY <1>8, <1>9, FS_AddElement
<1> QED
  BY <1>1, <1>6, <1>7, <1>9, <1>10, <1>11

\* A search that passed one more host, and goes on.
LEMMA PassingStep ==
    ASSUME MoneyFlowAssumption, FlowInv, NEW t \in Tasks, Searching(t),
           NEW seen, SoughtInVain(t, seen), ProbesLeft(t), NEW k \in TaskRecords, task' = [task EXCEPT ![t] = k],
           k.at = "probe", k.first = task[t].first, k.step = task[t].step + 1,
           k.tried = seen \cup {ProbeHost(t)},
           ~k.excused => ~task[t].excused,
           task[t].spared \subseteq k.spared,
           ~k.excused /\ holder[CodeOf(t)] = ProbeHost(t) => ProbeHost(t) \in k.spared,
           NEW c \in CallRecords, call' = [call EXCEPT ![t[1]] = c],
           c.transport = call[t[1]].transport, c.lock = call[t[1]].lock,
           c.opened + c.left <= Budget(t[1]),
           UNCHANGED <<holder, dedicated, preferred, closes>>, open' \subseteq open,
           task[t].at = "query" => task[t].via \notin open'
    PROVE  FlowInv'
<1>1. t[1] \in DOMAIN Calls
  BY TaskParts
<1>2. task'[t] = k /\ call'[t[1]] = c
  BY <1>1, TaskTyped, CallTyped
<1>3. call[t[1]].lock = t[2]
  BY DEF FlowInv, TaskInv, Holds
<1>4. /\ k.tried = Passed(k.first, k.step) /\ IsFiniteSet(k.tried) /\ Cardinality(k.tried) = k.step
      /\ k.step <= Limit
  <2>1. /\ seen \cup {ProbeHost(t)} = Passed(task[t].first, task[t].step + 1)
        /\ IsFiniteSet(seen \cup {ProbeHost(t)})
        /\ Cardinality(seen \cup {ProbeHost(t)}) = task[t].step + 1
        /\ task[t].step + 1 <= Limit
    BY Onwards, Zenon
  <2> QED
    BY <2>1, Zenon
<1>5. ~k.excused /\ holder[CodeOf(t)] \in k.tried => holder[CodeOf(t)] \in k.spared
  BY DEF SoughtInVain
<1>6. Failover(t)'.transport # None => holder'[CodeOf(t)] # Failover(t)'.transport.host
  BY <1>2 DEF SoughtInVain, Failover
<1>7. SoughtInVain(t, k.tried)'
  BY <1>2, <1>4, <1>5, <1>6 DEF SoughtInVain
<1>8. TaskInv(t)'
  BY <1>2, <1>3, <1>4, <1>7 DEF TaskInv, Holds, Searching
<1>9. LookedFor(t)'
  BY <1>2 DEF LookedFor
<1>10. open' \subseteq Transports
  BY DEF FlowInv, FlowTyped
<1> QED
  BY <1>3, <1>8, <1>9, <1>10, LockedStep

LEMMA SkipStep ==
    ASSUME MoneyFlowAssumption, FlowInv, NEW t \in Tasks, Skip(t)
    PROVE  FlowInv'
<1>0. t[1] \in DOMAIN Calls /\ t[1] # 0
  BY TaskParts
<1>1. task[t].at = "probe" /\ ProbesLeft(t) /\ Searching(t) /\ call[t[1]].left > 0
      /\ ProbeHost(t) \in {preferred.host, Failover(t).transport.host}
      /\ UNCHANGED <<holder, dedicated, preferred, closes, open>>
  BY DEF Skip, Searching, Failover
<1>2. SoughtInVain(t, task[t].tried)
  BY <1>1 DEF FlowInv, TaskInv
<1>3. PICK h, kept : h = ProbeHost(t) /\ kept = task[t].spared \cup Unasked(t)
  OBVIOUS
<1>4. h \in Candidates
  BY <1>1, <1>2, <1>3, Onwards
<1>5. kept \in SUBSET Candidates
  BY <1>3, <1>4, TaskTyped DEF Unasked
<1>6. PICK k : k = [task[t] EXCEPT !.at = "probe", !.step = @ + 1, !.tried = @ \cup {h},
                                   !.spared = kept]
  OBVIOUS
<1>7. task' = [task EXCEPT ![t] = k]
  BY <1>3, <1>6, TaskTyped, ZenonT(60) DEF Skip, NextProbe
<1>8. k \in TaskRecords /\ k.at = "probe" /\ k.first = task[t].first
      /\ k.step = task[t].step + 1 /\ k.tried = task[t].tried \cup {h}
      /\ k.excused = task[t].excused /\ k.spared = kept
  <2>1. "probe" \in Places /\ task[t].step + 1 \in Nat /\ task[t].tried \cup {h} \in SUBSET Candidates
    BY <1>4, TaskTyped DEF Places
  <2> QED
    BY <1>5, <1>6, <2>1, TaskTyped, Zenon DEF TaskRecords
<1>9. PICK c : c = [call[t[1]] EXCEPT !.left = @ - 1]
  OBVIOUS
<1>10. call' = [call EXCEPT ![t[1]] = c]
  BY <1>0, <1>9, CallTyped, Zenon DEF Skip, Take
<1>11. c \in CallRecords /\ c.transport = call[t[1]].transport /\ c.left = call[t[1]].left - 1
       /\ c.opened = call[t[1]].opened /\ c.lock = call[t[1]].lock
  <2>1. call[t[1]].left - 1 \in Nat
    BY <1>0, <1>1, CallTyped
  <2> QED
    BY <1>0, <1>9, <2>1, CallTyped, Zenon DEF CallRecords
<1>12. c.opened + c.left <= Budget(t[1])
  <2>1. call[t[1]].left \in Nat /\ call[t[1]].opened \in Nat /\ Budget(t[1]) \in Nat
        /\ call[t[1]].opened + call[t[1]].left <= Budget(t[1])
    BY <1>0, SameCall, CallTyped, CallParts
  <2> QED
    BY <1>11, <2>1
<1>13. ASSUME holder[CodeOf(t)] = h PROVE h \in kept
  <2>1. h # Failover(t).transport.host
    <3>1. SUFFICES ASSUME h = Failover(t).transport.host PROVE FALSE
      OBVIOUS
    <3>2. Failover(t).transport # None
      BY <1>4, <3>1, TransportParts
    <3> QED
      BY <1>2, <1>13, <3>1, <3>2 DEF SoughtInVain
  <2>2. h = preferred.host
    BY <1>1, <1>3, <2>1
  <2>3. preferred # None
    BY <1>4, <2>2, TransportParts
  <2>4. preferred.by # t[1]
    BY <2>1, <2>2, <2>3 DEF FlowInv, TransportAdopted, Failover
  <2>5. Unasked(t) = {h}
    BY <1>3, <2>1, <2>4 DEF Unasked
  <2> QED
    BY <1>3, <2>5
<1>14. task[t].spared \subseteq k.spared
  BY <1>3, <1>8
<1>15. open' \subseteq open /\ task[t].at # "query"
  BY <1>1
<1> QED
  BY <1>1, <1>2, <1>3, <1>7, <1>8, <1>10, <1>11, <1>12, <1>13, <1>14, <1>15, PassingStep

\* What the invariant says of a task whose query is on its way.
LEMMA QueryParts ==
    ASSUME MoneyFlowAssumption, FlowInv, NEW t \in Tasks, task[t].at = "query"
    PROVE  /\ Searching(t) /\ ProbesLeft(t) /\ ProbeHost(t) \in Candidates
           /\ task[t].via.host = ProbeHost(t) /\ task[t].via.by = t[1]
           /\ SoughtInVain(t, task[t].tried \ {ProbeHost(t)})
           /\ task[t].tried = (task[t].tried \ {ProbeHost(t)}) \cup {ProbeHost(t)}
<1>1. /\ ProbesLeft(t) /\ task[t].via = [host |-> ProbeHost(t), by |-> t[1]]
      /\ ProbeHost(t) \in task[t].tried /\ SoughtInVain(t, task[t].tried \ {ProbeHost(t)})
  BY DEF FlowInv, TaskInv
<1>2. ProbeHost(t) \in Candidates
  BY <1>1, Onwards
<1> QED
  BY <1>1, <1>2 DEF Searching

LEMMA ProbeFailsStep ==
    ASSUME MoneyFlowAssumption, FlowInv, NEW t \in Tasks, ProbeFails(t)
    PROVE  FlowInv'
<1>0. t[1] \in DOMAIN Calls
  BY TaskParts
<1>1. task[t].at = "query" /\ open' = open \ {task[t].via}
      /\ UNCHANGED <<holder, dedicated, preferred, closes, call>>
  BY DEF ProbeFails
<1>2. PICK k : k = [task[t] EXCEPT !.at = "probe", !.step = @ + 1, !.excused = TRUE]
  OBVIOUS
<1>3. task' = [task EXCEPT ![t] = k]
  BY <1>2, TaskTyped, Zenon DEF ProbeFails, NextProbe
<1>4. k \in TaskRecords /\ k.at = "probe" /\ k.first = task[t].first
      /\ k.step = task[t].step + 1 /\ k.tried = task[t].tried
      /\ k.excused /\ k.spared = task[t].spared
  <2>1. "probe" \in Places /\ task[t].step + 1 \in Nat /\ TRUE \in BOOLEAN
    BY TaskTyped DEF Places
  <2> QED
    BY <1>2, <2>1, TaskTyped, Zenon DEF TaskRecords
<1>5. PICK c : c = call[t[1]]
  OBVIOUS
<1>6. c \in CallRecords /\ call' = [call EXCEPT ![t[1]] = c] /\ c.opened + c.left <= Budget(t[1])
      /\ c.transport = call[t[1]].transport /\ c.lock = call[t[1]].lock
  BY <1>0, <1>1, <1>5, SameCall
<1>7. open' \subseteq open /\ task[t].via \notin open'
  BY <1>1
<1>8. PICK seen : seen = task[t].tried \ {ProbeHost(t)}
  OBVIOUS
<1>9. Searching(t) /\ ProbesLeft(t) /\ SoughtInVain(t, seen) /\ task[t].tried = seen \cup {ProbeHost(t)}
  BY <1>1, <1>8, QueryParts, Zenon
<1> QED
  BY <1>1, <1>3, <1>4, <1>6, <1>7, <1>9, PassingStep, ZenonT(40)

LEMMA ProbeIsEmptyStep ==
    ASSUME MoneyFlowAssumption, FlowInv, NEW t \in Tasks, ProbeIsEmpty(t)
    PROVE  FlowInv'
<1>0. t[1] \in DOMAIN Calls
  BY TaskParts
<1>1. task[t].at = "query" /\ open' = open \ {task[t].via} /\ ~HasData(task[t].via, t)
      /\ UNCHANGED <<holder, dedicated, preferred, closes, call>>
  BY DEF ProbeIsEmpty
<1>2. PICK k : k = [task[t] EXCEPT !.at = "probe", !.step = @ + 1]
  OBVIOUS
<1>3. task' = [task EXCEPT ![t] = k]
  BY <1>2, TaskTyped, Zenon DEF ProbeIsEmpty, NextProbe
<1>4. k \in TaskRecords /\ k.at = "probe" /\ k.first = task[t].first
      /\ k.step = task[t].step + 1 /\ k.tried = task[t].tried
      /\ k.excused = task[t].excused /\ k.spared = task[t].spared
  <2>1. "probe" \in Places /\ task[t].step + 1 \in Nat
    BY TaskTyped DEF Places
  <2> QED
    BY <1>2, <2>1, TaskTyped, Zenon DEF TaskRecords
<1>5. PICK c : c = call[t[1]]
  OBVIOUS
<1>6. c \in CallRecords /\ call' = [call EXCEPT ![t[1]] = c] /\ c.opened + c.left <= Budget(t[1])
      /\ c.transport = call[t[1]].transport /\ c.lock = call[t[1]].lock
  BY <1>0, <1>1, <1>5, SameCall
<1>7. open' \subseteq open /\ task[t].via \notin open'
  BY <1>1
<1>8. PICK seen : seen = task[t].tried \ {ProbeHost(t)}
  OBVIOUS
<1>9. Searching(t) /\ ProbesLeft(t) /\ SoughtInVain(t, seen) /\ task[t].tried = seen \cup {ProbeHost(t)}
      /\ task[t].via.host = ProbeHost(t)
  BY <1>1, <1>8, QueryParts, Zenon
<1>10. holder[CodeOf(t)] # ProbeHost(t)
  <2>1. task[t].via.host = ProbeHost(t) /\ ~HasData(task[t].via, t)
    BY <1>1, <1>9
  <2> QED
    BY <2>1, Zenon DEF HasData
<1>11. (~k.excused => ~task[t].excused) /\ task[t].spared \subseteq k.spared
       /\ k.tried = seen \cup {ProbeHost(t)}
  BY <1>4, <1>9
<1> QED
  BY <1>1, <1>3, <1>4, <1>6, <1>7, <1>9, <1>10, <1>11, PassingStep

LEMMA ProbeFindsStep ==
    ASSUME MoneyFlowAssumption, FlowInv, NEW t \in Tasks, ProbeFinds(t)
    PROVE  FlowInv'
<1>0. t[1] \in DOMAIN Calls /\ t[1] # 0 /\ 0 \in Nat
  BY TaskParts
<1>1. task[t].at = "query" /\ UNCHANGED <<holder, dedicated, closes>>
  BY DEF ProbeFinds
<1>2. "data" \in Places
  BY DEF Places
<1>3. PICK k : k = [task[t] EXCEPT !.at = "data"]
  OBVIOUS
<1>4. k \in TaskRecords /\ task' = [task EXCEPT ![t] = k] /\ k.at = "data"
  BY <1>2, <1>3, TaskAt, Zenon DEF ProbeFinds, Go
<1>5. Searching(t)
  BY <1>1 DEF Searching
<1>6. CASE preferred # None
  <2>1. call' = [call EXCEPT ![t[1]].lock = 0] /\ open' = open \ {task[t].via}
        /\ preferred' = preferred
    BY <1>6 DEF ProbeFinds, Release
  <2>2. PICK c : c = [call[t[1]] EXCEPT !.lock = 0]
    OBVIOUS
  <2>3. call' = [call EXCEPT ![t[1]] = c] /\ c \in CallRecords
        /\ c.transport = call[t[1]].transport /\ c.left = call[t[1]].left
        /\ c.opened = call[t[1]].opened
    BY <1>0, <2>1, <2>2, LockParts, Zenon
  <2>4. c.opened + c.left <= Budget(t[1])
    BY <1>0, <2>3, SameCall
  <2>5. open' \subseteq Transports /\ \A o \in open' : o \in open /\ o # task[t].via
    BY <2>1 DEF FlowInv, FlowTyped
  <2> QED
    BY <1>1, <1>4, <1>5, <2>1, <2>3, <2>4, <2>5, EndingStep
<1>7. CASE preferred = None
  <2>1. PICK found : found = task[t].via
    OBVIOUS
  <2>2. found \in AnyTransport /\ found.host \in Candidates /\ found.by = t[1] /\ found # None
    <3>1. found.host \in Candidates /\ found.by = t[1]
      BY <1>1, <2>1, QueryParts
    <3> QED
      BY <2>1, <3>1, TransportParts, TaskTyped
  <2>3. preferred' = found /\ open' = open
        /\ call' = [call EXCEPT ![t[1]].lock = 0, ![t[1]].transport = found]
    BY <1>7, <2>1 DEF ProbeFinds
  <2>4. PICK c : c = [call[t[1]] EXCEPT !.lock = 0, !.transport = found]
    OBVIOUS
  <2>5. call' = [call EXCEPT ![t[1]] = c]
    BY <1>0, <2>3, <2>4, CallTyped, Zenon
  <2>6. c \in CallRecords /\ c.transport = found /\ c.left = call[t[1]].left
        /\ c.opened = call[t[1]].opened
    BY <1>0, <2>2, <2>4, CallTyped, Zenon DEF CallRecords
  <2>7. c.opened + c.left <= Budget(t[1])
    BY <1>0, <2>6, SameCall
  <2>8. call'[t[1]] = c /\ \A b \in DOMAIN Calls : b # t[1] => call'[b] = call[b]
    BY <1>0, <2>5, CallTyped
  <2>9. task'[t] = k /\ \A u \in Tasks : u # t => task'[u] = task[u]
    BY <1>4, TaskTyped
  <2>10. call[t[1]].lock = t[2]
    BY <1>5 DEF FlowInv, TaskInv, Holds
  <2>11. FlowTyped'
    <3>1. task' \in [Tasks -> TaskRecords]
      BY <1>4 DEF FlowInv, FlowTyped
    <3>2. call' \in [DOMAIN Calls -> CallRecords]
      BY <1>0, <2>5, <2>6 DEF FlowInv, FlowTyped
    <3> QED
      BY <1>1, <2>2, <2>3, <3>1, <3>2 DEF FlowInv, FlowTyped
  <2>12. TransportAdopted'
    <3>1. ASSUME NEW b \in DOMAIN Calls, call'[b].transport # None
          PROVE  call'[b].transport.host \in Candidates
                 /\ (closes' = 0 => call'[b].transport = preferred')
      <4>1. CASE b = t[1]
        BY <2>2, <2>3, <2>6, <2>8, <4>1
      <4>2. CASE b # t[1]
        BY <1>1, <1>7, <2>8, <3>1, <4>2 DEF FlowInv, TransportAdopted
      <4> QED
        BY <4>1, <4>2
    <3>2. preferred'.by \in DOMAIN Calls /\ call'[preferred'.by].transport = preferred'
      BY <1>0, <2>2, <2>3, <2>6, <2>8
    <3> QED
      BY <3>1, <3>2 DEF TransportAdopted
  <2>13. TaskInv(t)' /\ LookedFor(t)'
    BY <1>4, <2>9 DEF TaskInv, LookedFor, Searching
  <2>14. ASSUME NEW o \in open' PROVE TransportOwned(o)' \/ (o \in open /\ o # task[t].via)
    BY <2>1, <2>3 DEF TransportOwned
  <2> QED
    BY <1>1, <1>7, <2>6, <2>7, <2>8, <2>9, <2>10, <2>11, <2>12, <2>13, <2>14, TaskStepOf
<1> QED
  BY <1>6, <1>7

LEMMA OpenHostStep ==
    ASSUME MoneyFlowAssumption, FlowInv, NEW t \in Tasks, OpenHost(t)
    PROVE  FlowInv'
<1>0. t[1] \in DOMAIN Calls /\ 0 \in Nat
  BY TaskParts
<1>1. task[t].at = "probe" /\ ProbesLeft(t) /\ Searching(t) /\ call[t[1]].left > 0
      /\ UNCHANGED <<holder, dedicated, preferred, closes>>
  BY DEF OpenHost, Searching, Failover
<1>2. SoughtInVain(t, task[t].tried)
  BY <1>1 DEF FlowInv, TaskInv
<1>3. PICK h : h = ProbeHost(t)
  OBVIOUS
<1>4. h \in Candidates /\ h \notin task[t].tried
  BY <1>1, <1>2, <1>3, Onwards
<1>5. PICK n : n = call[t[1]].left - 1
  OBVIOUS
<1>6. n \in Nat /\ call[t[1]].opened + 1 \in Nat
      /\ call[t[1]].opened + n <= Budget(t[1])
      /\ (call[t[1]].opened + 1) + n <= Budget(t[1])
  <2>1. call[t[1]].left \in Nat /\ call[t[1]].opened \in Nat /\ Budget(t[1]) \in Nat
        /\ call[t[1]].opened + call[t[1]].left <= Budget(t[1])
    BY <1>0, SameCall, CallTyped, CallParts
  <2> QED
    BY <1>1, <1>5, <2>1
<1>7. CASE FitsOneHost
  <2>1. PICK found : found = [host |-> h, by |-> t[1]]
    OBVIOUS
  <2>2. found \in Transports /\ found \in AnyTransport
    BY <1>0, <1>4, <2>1, TransportParts DEF AnyTransport
  <2>3. PICK k : k = [task[t] EXCEPT !.at = "query", !.tried = @ \cup {h}, !.via = found]
    OBVIOUS
  <2>4. task' = [task EXCEPT ![t] = k]
    BY <1>3, <1>7, <2>1, <2>3, TaskTyped, Zenon DEF OpenHost
  <2>5. k \in TaskRecords /\ k.at = "query" /\ k.first = task[t].first /\ k.via = found
        /\ k.step = task[t].step /\ k.tried = task[t].tried \cup {h}
        /\ k.excused = task[t].excused /\ k.spared = task[t].spared
    <3>1. "query" \in Places /\ task[t].tried \cup {h} \in SUBSET Candidates
      BY <1>4, TaskTyped DEF Places
    <3> QED
      BY <2>2, <2>3, <3>1, TaskTyped, Zenon DEF TaskRecords
  <2>6. task'[t] = k
    BY <2>4, TaskTyped
  <2>7. open' = open \cup {found}
    BY <1>7, <2>5, <2>6 DEF OpenHost
  <2>8. PICK taken, c : /\ taken = [call[t[1]] EXCEPT !.left = @ - 1]
                        /\ c = [taken EXCEPT !.opened = @ + 1]
    OBVIOUS
  <2>9. call' = [call EXCEPT ![t[1]] = c]
    <3>1. Take(t[1]) = [call EXCEPT ![t[1]] = taken]
      BY <1>0, <2>8, CallTyped, Zenon DEF Take
    <3>2. [[call EXCEPT ![t[1]] = taken] EXCEPT ![t[1]].opened = @ + 1] = [call EXCEPT ![t[1]] = c]
      BY <1>0, <2>8, CallTyped, Zenon
    <3>3. call' = [Take(t[1]) EXCEPT ![t[1]].opened = @ + 1]
      BY <1>7 DEF OpenHost
    <3> QED
      BY <3>1, <3>2, <3>3, Zenon
  <2>10. c \in CallRecords /\ c.transport = call[t[1]].transport /\ c.left = n
         /\ c.opened = call[t[1]].opened + 1 /\ c.lock = call[t[1]].lock
    <3>1. taken \in CallRecords /\ taken.transport = call[t[1]].transport /\ taken.left = n
          /\ taken.opened = call[t[1]].opened /\ taken.lock = call[t[1]].lock
      BY <1>0, <1>5, <1>6, <2>8, CallTyped, Zenon DEF CallRecords
    <3> QED
      BY <1>6, <2>8, <3>1, Zenon DEF CallRecords
  <2>11. call'[t[1]] = c
    BY <1>0, <2>9, CallTyped
  <2>12. call[t[1]].lock = t[2]
    BY <1>1 DEF FlowInv, TaskInv, Holds
  <2>13. (task[t].tried \cup {h}) \ {h} = task[t].tried
    BY <1>4
  <2>14. ProbeHost(t)' = h /\ ProbesLeft(t)'
    BY <1>1, <1>3, <2>5, <2>6 DEF ProbeHost, ProbesLeft
  <2>15. PICK seen : seen = task[t].tried
    OBVIOUS
  <2>16. SoughtInVain(t, seen)'
    BY <1>1, <1>2, <2>5, <2>6, <2>10, <2>11, <2>15 DEF SoughtInVain, Failover
  <2>17. TaskInv(t)'
    <3>1. task'[t].tried \ {ProbeHost(t)'} = seen /\ ProbeHost(t)' \in task'[t].tried
      BY <2>5, <2>6, <2>13, <2>14, <2>15
    <3>2. SoughtInVain(t, task[t].tried \ {ProbeHost(t)})'
      BY <2>16, <3>1 DEF SoughtInVain
    <3>3. Holds(t)'
      BY <2>10, <2>11, <2>12 DEF Holds
    <3>4. task'[t].at = "query" /\ task'[t].via = [host |-> ProbeHost(t)', by |-> t[1]]
      BY <2>1, <2>5, <2>6, <2>14
    <3> QED
      BY <2>14, <3>1, <3>2, <3>3, <3>4 DEF TaskInv
  <2>18. LookedFor(t)'
    BY <2>5, <2>6 DEF LookedFor
  <2>19. ASSUME NEW o \in open' PROVE o \in open \/ TransportOwned(o)'
    BY <2>5, <2>6, <2>7 DEF TransportOwned
  <2>20. open' \subseteq Transports
    BY <2>2, <2>7 DEF FlowInv, FlowTyped
  <2>21. c.opened + c.left <= Budget(t[1]) /\ task[t].at # "query"
    BY <1>1, <1>6, <2>10
  <2> QED
    BY <1>1, <2>4, <2>5, <2>9, <2>10, <2>12, <2>17, <2>18, <2>19, <2>20, <2>21, LockedStep
<1>8. CASE ~FitsOneHost
  <2>1. "error" \in Places
    BY DEF Places
  <2>2. PICK k : k = [task[t] EXCEPT !.at = "error"]
    OBVIOUS
  <2>3. k \in TaskRecords /\ task' = [task EXCEPT ![t] = k] /\ k.at = "error"
    BY <1>8, <2>1, <2>2, TaskAt, Zenon DEF OpenHost, Go
  <2>4. PICK c : c = [call[t[1]] EXCEPT !.left = @ - 1, !.lock = 0]
    OBVIOUS
  <2>5. call' = [call EXCEPT ![t[1]] = c]
    BY <1>0, <1>8, <2>4, CallTyped, Zenon DEF OpenHost, Take
  <2>6. c \in CallRecords /\ c.transport = call[t[1]].transport /\ c.left = n
        /\ c.opened = call[t[1]].opened
    BY <1>0, <1>5, <1>6, <2>4, CallTyped, Zenon DEF CallRecords
  <2>7. open' \subseteq Transports /\ open' = open
    BY <1>8 DEF OpenHost, FlowInv, FlowTyped
  <2>8. c.opened + c.left <= Budget(t[1]) /\ task[t].at # "query"
    BY <1>1, <1>6, <2>6
  <2> QED
    BY <1>1, <2>3, <2>5, <2>6, <2>7, <2>8, EndingStep
<1> QED
  BY <1>7, <1>8

LEMMA CloseStep ==
    ASSUME MoneyFlowAssumption, FlowInv, Close
    PROVE  FlowInv'
<1>1. MaxCloses \in Nat /\ closes \in 0 .. MaxCloses
  BY DEF MoneyFlowAssumption, FlowInv, FlowTyped
<1>2. closes' \in 0 .. MaxCloses /\ closes' # 0
  BY <1>1 DEF Close
<1>3. UNCHANGED <<layout, holder, call, task>> /\ dedicated' = None /\ preferred' = None
      /\ open' \subseteq open
  BY DEF Close
<1>4. FlowTyped'
  BY <1>2, <1>3, TransportParts DEF FlowInv, FlowTyped, AnyTransport
<1>5. WithinBudget' /\ TransportAdopted'
  BY <1>2, <1>3 DEF FlowInv, WithinBudget, TransportAdopted
<1>6. ASSUME NEW u \in Tasks PROVE TaskInv(u)'
  BY <1>2, <1>3, TaskElsewhere DEF FlowInv
<1>7. \A o \in open' : TransportOwned(o)'
  BY <1>2 DEF TransportOwned
<1>8. EmptyWasLookedFor'
  BY <1>3 DEF FlowInv, EmptyWasLookedFor
<1> QED
  BY <1>4, <1>5, <1>6, <1>7, <1>8 DEF FlowInv

LEMMA FlowInvInit ==
    ASSUME MoneyFlowAssumption, FlowInit
    PROVE  FlowInv
<1>1. NCandidates \in Nat \ {0} /\ MaxCloses \in Nat
  BY DEF MoneyFlowAssumption
<1>3. None \in AnyTransport /\ None.host \notin Candidates
  BY TransportParts DEF AnyTransport
<1>4. ASSUME NEW b \in DOMAIN Calls
      PROVE  /\ call[b] \in CallRecords /\ call[b].transport = None
             /\ call[b].opened + call[b].left <= Budget(b)
  <2>1. call[b] = [transport |-> None, left |-> Budget(b), cursor |-> 0, lock |-> 0, opened |-> 0]
    BY DEF FlowInit
  <2>2. Budget(b) \in Nat /\ 0 \in Nat /\ 0 \in 0 .. NCandidates - 1
    BY <1>1, CallParts
  <2>3. call[b] \in CallRecords
    BY <1>3, <2>1, <2>2 DEF CallRecords
  <2>4. call[b].transport = None /\ call[b].opened = 0 /\ call[b].left = Budget(b)
    BY <2>1
  <2> QED
    BY <2>2, <2>3, <2>4
<1>5. ASSUME NEW t \in Tasks
      PROVE  task[t] \in TaskRecords /\ task[t].at = "wait" /\ NothingTried(t)
  <2>1. task[t] = Waiting
    BY DEF FlowInit
  <2>2. Waiting \in TaskRecords
    <3>1. "wait" \in Places /\ 0 \in 0 .. NCandidates - 1 /\ 0 \in Nat /\ FALSE \in BOOLEAN
          /\ {} \in SUBSET Candidates
      BY <1>1 DEF Places
    <3> QED
      BY <1>3, <3>1, Zenon DEF Waiting, TaskRecords
  <2>3. Waiting.at = "wait" /\ Waiting.tried = {} /\ Waiting.spared = {} /\ Waiting.step = 0
    BY DEF Waiting
  <2> QED
    BY <2>1, <2>2, <2>3 DEF NothingTried
<1>6. FlowTyped
  <2>1. call \in [DOMAIN Calls -> CallRecords] /\ task \in [Tasks -> TaskRecords]
    BY <1>4, <1>5 DEF FlowInit
  <2> QED
    BY <1>1, <1>3, <2>1 DEF FlowInit, FlowTyped
<1>7. WithinBudget /\ TransportAdopted
  BY <1>4 DEF FlowInit, WithinBudget, TransportAdopted
<1>8. \A t \in Tasks : TaskInv(t)
  BY <1>5 DEF TaskInv, Searching
<1>9. EmptyWasLookedFor
  BY <1>5 DEF EmptyWasLookedFor
<1> QED
  BY <1>6, <1>7, <1>8, <1>9 DEF FlowInv, FlowInit

LEMMA FlowInvStep ==
    ASSUME MoneyFlowAssumption, FlowInv, [FlowNext]_flowVars
    PROVE  FlowInv'
<1>1. CASE UNCHANGED flowVars
  <2>1. FlowTyped' /\ WithinBudget' /\ TransportAdopted'
    BY <1>1 DEF FlowInv, FlowTyped, WithinBudget, TransportAdopted, flowVars
  <2>2. ASSUME NEW u \in Tasks PROVE TaskInv(u)'
    BY <1>1, TaskElsewhere DEF FlowInv, flowVars
  <2>3. (\A o \in open' : TransportOwned(o)') /\ EmptyWasLookedFor'
    BY <1>1 DEF FlowInv, TransportOwned, EmptyWasLookedFor, flowVars
  <2> QED
    BY <2>1, <2>2, <2>3 DEF FlowInv
<1>2. CASE Close
  BY <1>2, CloseStep
<1>3. ASSUME NEW t \in Tasks, TaskStep(t) PROVE FlowInv'
  BY <1>3, StartStep, TakePreferredStep, TakeDedicatedStep, AskStep, AskFailsStep, RecoverStep,
     AskAgainStep, AskAgainFailsStep, GiveUpStep, NoBudgetStep, SkipStep, OpenHostStep,
     ProbeFailsStep, ProbeIsEmptyStep, ProbeFindsStep DEF TaskStep
<1> QED
  BY <1>1, <1>2, <1>3 DEF FlowNext

LEMMA FlowInvGives ==
    ASSUME MoneyFlowAssumption, FlowInv
    PROVE  MoneyFlowTypeOK /\ EmptyWasLookedFor /\ ProbesAreBounded
<1>1. ASSUME NEW b \in DOMAIN Calls
      PROVE  call[b].left \in 0 .. Budget(b) /\ call[b].opened <= Budget(b)
  <2>1. call[b].left \in Nat /\ call[b].opened \in Nat /\ Budget(b) \in Nat
        /\ call[b].opened + call[b].left <= Budget(b)
    BY SameCall, CallTyped, CallParts
  <2> QED
    BY <2>1
<1>2. MoneyFlowTypeOK
  BY <1>1 DEF FlowInv, FlowTyped, MoneyFlowTypeOK, AnyTransport
<1>3. ProbesAreBounded
  <2>1. closes \in Nat
    BY DEF FlowInv, FlowTyped, MoneyFlowAssumption
  <2>2. ASSUME NEW o \in open, o.host \in Candidates
        PROVE  o = preferred \/ (\E t \in Tasks : task[t].at = "query" /\ task[t].via = o)
               \/ closes > 0
    BY <2>1, <2>2 DEF FlowInv, TransportOwned
  <2> QED
    BY <1>1, <2>2 DEF ProbesAreBounded
<1> QED
  BY <1>2, <1>3 DEF FlowInv

-----------------------------------------------------------------------------

\* The comments of _EmptyFailover and _recover_empty: an answer without data
\* says nothing of the other hosts.  However many calls of however many codes
\* search at once, and whenever the API is closed, a code is given up as empty
\* only after as many hosts as the code allows, and none that has its data.
THEOREM FlowIsLookedFor == MoneyFlowAssumption /\ FlowSpec => []EmptyWasLookedFor
<1>1. MoneyFlowAssumption /\ FlowInit => FlowInv
  BY FlowInvInit
<1>2. MoneyFlowAssumption /\ FlowInv /\ [FlowNext]_flowVars => FlowInv'
  BY FlowInvStep
<1>3. MoneyFlowAssumption /\ FlowInv => EmptyWasLookedFor
  BY FlowInvGives
<1>4. MoneyFlowAssumption => []MoneyFlowAssumption
  OBVIOUS
<1> QED
  BY <1>1, <1>2, <1>3, <1>4, PTL DEF FlowSpec

\* Whatever the threads do, a call opens no more hosts than its budget
\* (_EmptyFailover.take), and what a search opened is adopted, closed, or still
\* asked (_adopt, _close_quietly).
THEOREM FlowProbesAreBounded == MoneyFlowAssumption /\ FlowSpec => []ProbesAreBounded
<1>1. MoneyFlowAssumption /\ FlowInit => FlowInv
  BY FlowInvInit
<1>2. MoneyFlowAssumption /\ FlowInv /\ [FlowNext]_flowVars => FlowInv'
  BY FlowInvStep
<1>3. MoneyFlowAssumption /\ FlowInv => ProbesAreBounded
  BY FlowInvGives
<1>4. MoneyFlowAssumption => []MoneyFlowAssumption
  OBVIOUS
<1> QED
  BY <1>1, <1>2, <1>3, <1>4, PTL DEF FlowSpec

-----------------------------------------------------------------------------
(* The board cache                                                         *)

BoardPlaces == {"idle", "memory", "disk", "fetch", "write", "fill", "parse", "list", "save",
                "fillList", "publish", "date", "fillDate", "members"}
BoardCalls == [at : BoardPlaces, refresh : BOOLEAN, stale : BOOLEAN, date : Int,
               file : BoardFiles, got : Int]
BoardDisks == [files : [BoardFiles -> Int], list : Int, success : Int, definitions : BOOLEAN]
BoardMemories == [date : Int, security : Int, members : {NotMatched} \cup (Int \X Int)]

BoardTyped ==
    /\ marketDate \in Nat
    /\ disk \in BoardDisks
    /\ memory \in BoardMemories
    /\ tried \in [Sources -> Nat]
    /\ board \in [BoardCallers -> BoardCalls]

\* No call is of a day that has not come, and nothing was asked for on one.
NotAhead ==
    /\ \A c \in BoardCallers : board[c].date <= marketDate
    /\ \A s \in Sources : tried[s] <= marketDate

\* What was asked on the day of a call or later, by the place the call is at:
\* the first file, the file in hand, both files, and the table.
BoardCallIsSound(turn) ==
    /\ turn.at \in {"memory", "disk"} => turn.file = "infoharbor"
    /\ turn.at \in {"fetch", "write", "fill"} /\ turn.file = "tdxhy"
          => tried["infoharbor"] >= turn.date
    /\ turn.at \in {"write", "fill"} => tried[turn.file] >= turn.date
    /\ (\/ turn.at \in {"parse", "list", "save", "fillList", "publish", "date", "fillDate"}
        \/ turn.at \in {"fetch", "write", "fill"} /\ ~turn.stale)
          => \A f \in BoardFiles : tried[f] >= turn.date
    /\ turn.at \in {"save", "fillList", "publish", "date", "fillDate"}
          => tried["list"] >= turn.date

BoardInv ==
    /\ BoardTyped
    /\ NotAhead
    /\ \A c \in BoardCallers : BoardCallIsSound(board[c])
    /\ DateSaysWhatWasAsked

\* A call that has not begun, or is over, has asked for nothing.
LEMMA IdleCallerIsSound ==
  /\ IdleCaller \in BoardCalls /\ IdleCaller.at = "idle" /\ IdleCaller.date = 0
  /\ BoardCallIsSound(IdleCaller) /\ BoardCallIsSound(IdleCaller)'
<1>1. IdleCaller \in BoardCalls /\ IdleCaller.at = "idle" /\ IdleCaller.date = 0
  BY DEF IdleCaller, BoardCalls, BoardPlaces, BoardFiles, NoDate, Nothing
<1> QED
  BY <1>1 DEF BoardCallIsSound

\* The places and the files a call goes to.
LEMMA PlacesAndFiles ==
  /\ "memory" \in BoardPlaces /\ "fetch" \in BoardPlaces /\ "write" \in BoardPlaces
  /\ "parse" \in BoardPlaces /\ "save" \in BoardPlaces /\ "publish" \in BoardPlaces
  /\ "date" \in BoardPlaces
  /\ "infoharbor" \in BoardFiles /\ "tdxhy" \in BoardFiles 
  /\ Nothing \in Int /\ Partial \in Int
BY DEF BoardPlaces, BoardFiles, Nothing, Partial

LEMMA BoardInvInit == BoardInit => BoardInv
<1> SUFFICES ASSUME BoardInit PROVE BoardInv
  OBVIOUS
<1>1. /\ marketDate = 1 /\ memory = Empty
      /\ tried = [s \in Sources |-> 0]
      /\ board = [c \in BoardCallers |-> IdleCaller]
  BY DEF BoardInit, NoDate
<1>2. PICK definitions \in BOOLEAN :
        disk = [files |-> [f \in BoardFiles |-> 0], list |-> 0, success |-> 0,
                definitions |-> definitions]
  BY DEF BoardInit, NoDate, Nothing
<1>3. disk \in BoardDisks /\ disk.success = 0
  BY <1>2 DEF BoardDisks
<1>4. memory \in BoardMemories /\ memory.date = 0
  BY <1>1 DEF BoardMemories, Empty, NoDate, Nothing
<1>5. BoardTyped
  BY <1>1, <1>3, <1>4, IdleCallerIsSound DEF BoardTyped
<1>6. \A c \in BoardCallers : board[c] = IdleCaller
  BY <1>1
<1>7. NotAhead
  BY <1>1, <1>6, IdleCallerIsSound DEF NotAhead, Sources
<1>8. DateSaysWhatWasAsked
  BY <1>1, <1>3, <1>4 DEF DateSaysWhatWasAsked
<1> QED
  BY <1>5, <1>6, <1>7, <1>8, IdleCallerIsSound DEF BoardInv

\* What holds of one caller.
LEMMA BoardCallParts ==
  ASSUME BoardInv, NEW c \in BoardCallers
  PROVE  /\ board[c] \in BoardCalls /\ BoardCallIsSound(board[c])
         /\ board[c].date \in Int /\ board[c].got \in Int
         /\ board[c].stale \in BOOLEAN /\ board[c].file \in BoardFiles
         /\ board[c].date <= marketDate
         /\ marketDate \in Nat /\ disk \in BoardDisks /\ memory \in BoardMemories
         /\ tried \in [Sources -> Nat] /\ (\A s \in Sources : tried[s] <= marketDate)
         /\ DateSaysWhatWasAsked
<1>1. /\ board[c] \in BoardCalls /\ BoardCallIsSound(board[c])
      /\ board[c].date <= marketDate
  BY DEF BoardInv, BoardTyped, NotAhead
<1> QED
  BY <1>1 DEF BoardInv, BoardTyped, BoardCalls, NotAhead

\* A step of one caller keeps the invariant if the days it asked on are never
\* earlier, and the dates it writes are of days it asked on.
LEMMA BoardStepOf ==
  ASSUME BoardInv, NEW c \in BoardCallers, NEW k \in BoardCalls,
         board' = [board EXCEPT ![c] = k],
         marketDate' = marketDate, k.date <= marketDate,
         disk' \in BoardDisks, memory' \in BoardMemories,
         tried' \in [Sources -> Nat],
         \A s \in Sources : tried'[s] >= tried[s] /\ tried'[s] <= marketDate,
         disk'.success \in {disk.success, 0}
            \/ \A s \in Sources : tried'[s] >= disk'.success,
         memory'.date = memory.date \/ \A s \in Sources : tried'[s] >= memory'.date,
         BoardCallIsSound(k)'
  PROVE  BoardInv'
<1>1. BoardTyped /\ NotAhead /\ \A b \in BoardCallers : BoardCallIsSound(board[b])
  BY DEF BoardInv
<1>2. BoardTyped'
  BY <1>1 DEF BoardTyped
<1>3. \A b \in BoardCallers : board'[b] = IF b = c THEN k ELSE board[b]
  BY <1>1 DEF BoardTyped
<1>4. NotAhead'
  BY <1>1, <1>3 DEF NotAhead
<1>5. \A b \in BoardCallers : BoardCallIsSound(board[b])'
  <2> TAKE b \in BoardCallers
  <2>1. CASE b = c
    <3>1. board'[b] = k
      BY <2>1, <1>3
    <3> QED
      BY <3>1 DEF BoardCallIsSound
  <2>2. CASE b # c
    <3>1. /\ board'[b] = board[b] /\ board[b] \in BoardCalls
          /\ board[b].date \in Int /\ board[b].file \in Sources
      BY <2>2, <1>3, <1>1 DEF BoardTyped, BoardCalls, Sources
    <3>2. BoardCallIsSound(board[b])
      BY <1>1
    <3>3. \A s \in Sources : tried[s] \in Nat /\ tried'[s] \in Nat /\ tried'[s] >= tried[s]
      BY <1>1 DEF BoardTyped
    <3>4. "infoharbor" \in Sources /\ "list" \in Sources /\ BoardFiles \subseteq Sources
      BY DEF Sources, BoardFiles
    <3> QED
      BY <3>1, <3>2, <3>3, <3>4 DEF BoardCallIsSound
  <2> QED
    BY <2>1, <2>2
<1>6. DateSaysWhatWasAsked'
  <2>1. /\ \A s \in Sources : tried[s] \in Nat /\ tried'[s] \in Nat
        /\ disk.success \in Int /\ disk'.success \in Int
        /\ memory.date \in Int /\ memory'.date \in Int
    BY <1>1 DEF BoardTyped, BoardDisks, BoardMemories
  <2>2. DateSaysWhatWasAsked
    BY DEF BoardInv
  <2> QED
    BY <2>1, <2>2 DEF DateSaysWhatWasAsked
<1> QED
  BY <1>2, <1>4, <1>5, <1>6 DEF BoardInv

\* A step of one caller that asks for nothing and dates nothing.
LEMMA BoardStepAside ==
  ASSUME BoardInv, NEW c \in BoardCallers, NEW k \in BoardCalls,
         board' = [board EXCEPT ![c] = k], k.date <= marketDate,
         UNCHANGED <<marketDate, tried>>,
         disk' \in BoardDisks, disk'.success \in {disk.success, 0},
         memory' \in BoardMemories, memory'.date = memory.date,
         BoardCallIsSound(k)
  PROVE  BoardInv'
<1>1. tried \in [Sources -> Nat]
  BY DEF BoardInv, BoardTyped
<1>2. /\ tried' \in [Sources -> Nat]
      /\ \A s \in Sources : tried'[s] >= tried[s] /\ tried'[s] <= marketDate
  BY <1>1 DEF BoardInv, NotAhead
<1>3. BoardCallIsSound(k)'
  BY DEF BoardCallIsSound
<1> QED
  BY <1>2, <1>3, BoardStepOf

\* A caller that goes to another place, with all it has done so far.
LEMMA BoardMoves ==
  ASSUME BoardInv, NEW c \in BoardCallers, NEW at \in BoardPlaces, Leaves(c, at)
  PROVE  \E k \in BoardCalls : /\ board' = [board EXCEPT ![c] = k] /\ k.at = at
                               /\ k.date = board[c].date /\ k.got = board[c].got
                               /\ k.file = board[c].file /\ k.stale = board[c].stale
<1>1. PICK k : k = [board[c] EXCEPT !.at = at]
  OBVIOUS
<1>2. board[c] \in BoardCalls
  BY BoardCallParts
<1>3. /\ k \in BoardCalls /\ k.at = at /\ k.date = board[c].date /\ k.got = board[c].got
      /\ k.file = board[c].file /\ k.stale = board[c].stale
  BY <1>1, <1>2 DEF BoardCalls
<1>4. board' = [board EXCEPT ![c] = k]
  BY <1>1, Zenon DEF Leaves
<1> QED
  BY <1>3, <1>4

\* After the first file comes the second, and after it both are behind.
LEMMA BoardNextFile ==
  ASSUME BoardInv, NEW c \in BoardCallers, NextFile(c)
  PROVE  \E k \in BoardCalls :
           /\ board' = [board EXCEPT ![c] = k] /\ k.date = board[c].date
           /\ \/ /\ board[c].file = "infoharbor" /\ k.at = "fetch" /\ k.file = "tdxhy"
                 /\ k.stale = board[c].stale
              \/ board[c].file = "tdxhy" /\ k.at = "parse"
<1>1. board[c] \in BoardCalls /\ board[c].file \in BoardFiles
  BY BoardCallParts
<1>2. CASE board[c].file = "infoharbor"
  <2>1. PICK k : k = [board[c] EXCEPT !.at = "fetch", !.file = "tdxhy", !.got = Nothing]
    OBVIOUS
  <2>2. k \in BoardCalls
    BY <1>1, <2>1, PlacesAndFiles DEF BoardCalls
  <2>3. /\ k.at = "fetch" /\ k.date = board[c].date
        /\ k.file = "tdxhy" /\ k.stale = board[c].stale
    BY <1>1, <2>1 DEF BoardCalls
  <2>4. board' = [board EXCEPT ![c] = k]
    BY <1>2, <2>1, Zenon DEF NextFile
  <2> QED
    BY <1>2, <2>2, <2>3, <2>4
<1>3. CASE board[c].file = "tdxhy"
  <2>1. PICK k : k = [board[c] EXCEPT !.at = "parse", !.file = "infoharbor", !.got = Nothing,
                                      !.stale = FALSE]
    OBVIOUS
  <2>2. k \in BoardCalls
    BY <1>1, <2>1, PlacesAndFiles DEF BoardCalls
  <2>3. k.at = "parse" /\ k.date = board[c].date
    BY <1>1, <2>1 DEF BoardCalls
  <2>4. board[c].file # "infoharbor"
    BY <1>3
  <2>5. board' = [board EXCEPT ![c] = k]
    BY <2>1, <2>4, Zenon DEF NextFile
  <2> QED
    BY <1>3, <2>2, <2>3, <2>5
<1> QED
  BY <1>1, <1>2, <1>3 DEF BoardFiles

\* Whoever goes on to the next file has asked for this one, unless nothing had
\* to be asked for.
LEMMA NextFileIsSound ==
  ASSUME BoardInv, NEW c \in BoardCallers, NEW k \in BoardCalls,
         board[c].at \in {"fetch", "fill"}, k.date = board[c].date,
         \/ /\ board[c].file = "infoharbor" /\ k.at = "fetch" /\ k.file = "tdxhy"
            /\ k.stale = board[c].stale
         \/ board[c].file = "tdxhy" /\ k.at = "parse",
         tried' \in [Sources -> Nat], \A s \in Sources : tried'[s] >= tried[s],
         board[c].stale => tried'[board[c].file] >= board[c].date
  PROVE  BoardCallIsSound(k)'
<1>1. /\ BoardCallIsSound(board[c]) /\ board[c].date \in Int
      /\ board[c].stale \in BOOLEAN /\ tried \in [Sources -> Nat]
  BY BoardCallParts
<1>2. "infoharbor" \in Sources /\ "tdxhy" \in Sources /\ BoardFiles \subseteq Sources
  BY DEF Sources, BoardFiles
<1>3. \A s \in Sources : tried[s] \in Nat /\ tried'[s] \in Nat /\ tried'[s] >= tried[s]
  BY <1>1
<1>4. ~board[c].stale => \A f \in BoardFiles : tried[f] >= board[c].date
  BY <1>1 DEF BoardCallIsSound
<1>5. ~board[c].stale => \A f \in BoardFiles : tried'[f] >= board[c].date
  BY <1>1, <1>2, <1>3, <1>4
<1>6. CASE board[c].file = "infoharbor"
  <2>1. tried'["infoharbor"] >= board[c].date
    BY <1>1, <1>5, <1>6 DEF BoardFiles
  <2> QED
    BY <1>5, <1>6, <2>1 DEF BoardCallIsSound
<1>7. CASE board[c].file = "tdxhy"
  <2>1. tried'["tdxhy"] >= board[c].date
    BY <1>1, <1>5, <1>7 DEF BoardFiles
  <2>2. tried["infoharbor"] >= board[c].date
    BY <1>1, <1>7 DEF BoardCallIsSound
  <2>3. \A f \in BoardFiles : tried'[f] >= board[c].date
    BY <1>1, <1>2, <1>3, <2>1, <2>2 DEF BoardFiles
  <2> QED
    BY <1>7, <2>3 DEF BoardCallIsSound
<1> QED
  BY <1>6, <1>7

\* The steps of a call up to the download.
LEMMA BoardCallBegins ==
  ASSUME BoardInv, NEW c \in BoardCallers,
         AskBoards(c) \/ LookInMemory(c) \/ LookOnDisk(c)
  PROVE  BoardInv'
<1>0. /\ board[c] \in BoardCalls /\ BoardCallIsSound(board[c])
      /\ board[c].date \in Int /\ board[c].date <= marketDate
      /\ marketDate \in Nat /\ disk \in BoardDisks /\ memory \in BoardMemories
      /\ tried \in [Sources -> Nat] /\ (\A s \in Sources : tried[s] <= marketDate)
      /\ DateSaysWhatWasAsked
  BY BoardCallParts
<1>1. CASE AskBoards(c)
  <2>1. UNCHANGED <<marketDate, disk, memory, tried>>
    BY <1>1 DEF AskBoards
  <2>2. PICK refresh \in BOOLEAN :
          board' = [board EXCEPT ![c] = [IdleCaller EXCEPT !.at = "memory", !.refresh = refresh,
                                                           !.date = marketDate]]
    BY <1>1 DEF AskBoards
  <2>3. PICK k : k = [IdleCaller EXCEPT !.at = "memory", !.refresh = refresh, !.date = marketDate]
    OBVIOUS
  <2>4. /\ k = [at |-> "memory", refresh |-> refresh, stale |-> FALSE, date |-> marketDate,
                file |-> "infoharbor", got |-> Nothing]
        /\ k.at = "memory" /\ k.date = marketDate /\ k.file = "infoharbor"
    BY <2>3 DEF IdleCaller
  <2>8. marketDate \in Int
    BY <1>0
  <2>9. k \in BoardCalls
    BY <2>4, <2>8, PlacesAndFiles DEF BoardCalls
  <2>5. BoardCallIsSound(k)
    BY <2>4 DEF BoardCallIsSound
  <2>6. board' = [board EXCEPT ![c] = k]
    BY <2>2, <2>3, Zenon
  <2>7. k.date <= marketDate
    BY <1>0, <2>4
  <2> QED
    BY <1>0, <2>1, <2>9, <2>5, <2>6, <2>7, BoardStepAside
<1>2. CASE LookInMemory(c)
  <2>1. UNCHANGED <<marketDate, disk, memory, tried>>
    BY <1>2 DEF LookInMemory
  <2>2. PICK at \in {"members", "disk"} : Leaves(c, at)
    BY <1>2 DEF LookInMemory
  <2>3. PICK k \in BoardCalls : /\ board' = [board EXCEPT ![c] = k] /\ k.at = at
                                /\ k.date = board[c].date /\ k.file = board[c].file
    BY <2>2, BoardMoves DEF BoardPlaces
  <2>4. BoardCallIsSound(k)
    BY <1>0, <1>2, <2>2, <2>3 DEF BoardCallIsSound,
           LookInMemory
  <2> QED
    BY <1>0, <2>1, <2>3, <2>4, BoardStepAside
<1>3. CASE LookOnDisk(c) /\ OnDisk(c)
  <2>1. /\ UNCHANGED <<marketDate, disk, tried>> /\ Leaves(c, "members")
        /\ Publish(c, disk.list)
    BY <1>3 DEF LookOnDisk
  <2>2. PICK k \in BoardCalls : /\ board' = [board EXCEPT ![c] = k] /\ k.at = "members"
                                /\ k.date = board[c].date
    BY <2>1, BoardMoves DEF BoardPlaces
  <2>3. BoardCallIsSound(k)'
    BY <2>2 DEF BoardCallIsSound
  <2>4. memory' \in BoardMemories /\ memory'.date = board[c].date
    BY <1>0, <2>1 DEF Publish, BoardMemories, BoardDisks
  <2>5. disk.success = board[c].date
    BY <1>3 DEF OnDisk
  <2>6. \A s \in Sources : /\ tried'[s] >= tried[s] /\ tried'[s] <= marketDate
                            /\ tried'[s] >= memory'.date
    BY <1>0, <2>1, <2>4, <2>5 DEF DateSaysWhatWasAsked
  <2>7. /\ disk' \in BoardDisks /\ disk'.success = disk.success /\ marketDate' = marketDate
        /\ tried' \in [Sources -> Nat] /\ k.date <= marketDate
    BY <1>0, <2>1, <2>2
  <2> QED
    BY <2>2, <2>3, <2>4, <2>6, <2>7, BoardStepOf
<1>4. CASE LookOnDisk(c) /\ ~OnDisk(c)
  <2>1. /\ UNCHANGED <<marketDate, disk, memory, tried>> /\ board[c].at = "disk"
        /\ board' = [board EXCEPT ![c] = [@ EXCEPT !.at = "fetch", !.stale = MustAsk(c)]]
    BY <1>4 DEF LookOnDisk
  <2>2. PICK k : k = [board[c] EXCEPT !.at = "fetch", !.stale = MustAsk(c)]
    OBVIOUS
  <2>3. MustAsk(c) \in BOOLEAN
    BY <1>0 DEF MustAsk, BoardCalls
  <2>4. /\ k \in BoardCalls /\ k.at = "fetch" /\ k.date = board[c].date
        /\ k.stale = MustAsk(c) /\ k.file = board[c].file
    BY <1>0, <2>2, <2>3 DEF BoardCalls, BoardPlaces
  <2>5. board' = [board EXCEPT ![c] = k]
    BY <2>1, <2>2, Zenon
  <2>6. ~MustAsk(c) => \A f \in BoardFiles : tried[f] >= board[c].date
    BY <1>0 DEF MustAsk, DateSaysWhatWasAsked, Sources
  <2>7. board[c].file = "infoharbor"
    BY <1>0, <2>1 DEF BoardCallIsSound
  <2>8. BoardCallIsSound(k)
    BY <2>4, <2>6, <2>7 DEF BoardCallIsSound
  <2> QED
    BY <1>0, <2>1, <2>4, <2>5, <2>8, BoardStepAside
<1> QED
  BY <1>1, <1>2, <1>3, <1>4

\* The download of the board files.
LEMMA BoardFilesAreFetched ==
  ASSUME BoardInv, NEW c \in BoardCallers,
         FetchFile(c) \/ OpenFile(c) \/ FillFile(c)
  PROVE  BoardInv'
<1>0. /\ board[c] \in BoardCalls /\ BoardCallIsSound(board[c])
      /\ board[c].date \in Int /\ board[c].date <= marketDate /\ board[c].got \in Int
      /\ board[c].stale \in BOOLEAN /\ board[c].file \in BoardFiles
      /\ marketDate \in Nat /\ disk \in BoardDisks /\ memory \in BoardMemories
      /\ tried \in [Sources -> Nat] /\ (\A s \in Sources : tried[s] <= marketDate)
      /\ DateSaysWhatWasAsked
  BY BoardCallParts
<1>1. board[c].file \in Sources
  BY <1>0 DEF Sources
<1>2. CASE FetchFile(c) /\ tried' = [tried EXCEPT ![board[c].file] = marketDate]
  <2>1. UNCHANGED <<marketDate, disk, memory>> /\ board[c].at = "fetch"
    BY <1>2 DEF FetchFile
  <2>5. tried' \in [Sources -> Nat] /\ tried'[board[c].file] >= board[c].date
    BY <1>0, <1>1, <1>2
  <2>2. \A s \in Sources : tried'[s] >= tried[s] /\ tried'[s] <= marketDate
    BY <1>0, <1>1, <1>2
  <2>3. CASE board' = [board EXCEPT ![c] = [@ EXCEPT !.at = "write", !.got = marketDate]]
    <3>1. PICK k : k = [board[c] EXCEPT !.at = "write", !.got = marketDate]
      OBVIOUS
    <3>2. /\ k \in BoardCalls /\ k.at = "write" /\ k.date = board[c].date
          /\ k.file = board[c].file /\ k.stale = board[c].stale
      <4>1. board[c] \in BoardCalls /\ marketDate \in Int
        BY <1>0
      <4>2. k \in BoardCalls
        BY <4>1, <3>1, PlacesAndFiles DEF BoardCalls
      <4> QED
        BY <4>1, <4>2, <3>1 DEF BoardCalls
    <3>3. board' = [board EXCEPT ![c] = k]
      BY <2>3, <3>1, Zenon
    <3>4. BoardCallIsSound(k)'
      <4>1. k.file = "tdxhy" => tried'["infoharbor"] >= k.date
        BY <1>0, <2>1, <2>2, <2>5, <3>2 DEF BoardCallIsSound, Sources, BoardFiles
      <4>2. ~k.stale => \A f \in BoardFiles : tried'[f] >= k.date
        BY <1>0, <2>1, <2>2, <2>5, <3>2 DEF BoardCallIsSound, Sources
      <4> QED
        BY <2>5, <3>2, <4>1, <4>2 DEF BoardCallIsSound
    <3>5. disk' = disk /\ memory' = memory /\ marketDate' = marketDate /\ k.date <= marketDate
      BY <1>0, <2>1, <3>2
    <3> QED
      BY <1>0, <2>5, <2>2, <3>2, <3>3, <3>4, <3>5, BoardStepOf
  <2>4. CASE NextFile(c)
    <3>1. PICK k \in BoardCalls :
            /\ board' = [board EXCEPT ![c] = k] /\ k.date = board[c].date
            /\ \/ /\ board[c].file = "infoharbor" /\ k.at = "fetch" /\ k.file = "tdxhy"
                  /\ k.stale = board[c].stale
               \/ board[c].file = "tdxhy" /\ k.at = "parse"
      BY <2>4, BoardNextFile
    <3>2. BoardCallIsSound(k)'
      BY <2>1, <2>5, <2>2, <3>1, NextFileIsSound
    <3>3. disk' = disk /\ memory' = memory /\ marketDate' = marketDate /\ k.date <= marketDate
      BY <1>0, <2>1, <3>1
    <3> QED
      BY <1>0, <2>5, <2>2, <3>1, <3>2, <3>3, BoardStepOf
  <2> QED
    BY <1>2, <2>3, <2>4 DEF FetchFile
<1>3. CASE FetchFile(c) /\ tried' # [tried EXCEPT ![board[c].file] = marketDate]
  <2>1. /\ UNCHANGED <<marketDate, disk, memory, tried>> /\ board[c].at = "fetch"
        /\ ~board[c].stale /\ NextFile(c)
    BY <1>3 DEF FetchFile
  <2>2. PICK k \in BoardCalls :
          /\ board' = [board EXCEPT ![c] = k] /\ k.date = board[c].date
          /\ \/ /\ board[c].file = "infoharbor" /\ k.at = "fetch" /\ k.file = "tdxhy"
                /\ k.stale = board[c].stale
             \/ board[c].file = "tdxhy" /\ k.at = "parse"
    BY <2>1, BoardNextFile
  <2>3. /\ tried' \in [Sources -> Nat]
        /\ \A s \in Sources : tried'[s] >= tried[s] /\ tried'[s] <= marketDate
    BY <1>0, <2>1
  <2>4. BoardCallIsSound(k)'
    BY <2>1, <2>2, <2>3, NextFileIsSound
  <2>5. disk' = disk /\ memory' = memory /\ marketDate' = marketDate /\ k.date <= marketDate
    BY <1>0, <2>1, <2>2
  <2> QED
    BY <1>0, <2>2, <2>3, <2>4, <2>5, BoardStepOf
<1>4. CASE OpenFile(c)
  <2>1. /\ UNCHANGED <<marketDate, memory, tried>> /\ board[c].at = "write" /\ Leaves(c, "fill")
        /\ disk' = [disk EXCEPT !.files[board[c].file] = Partial]
    BY <1>4 DEF OpenFile
  <2>2. disk' \in BoardDisks /\ disk'.success = disk.success
    BY <1>0, <2>1 DEF BoardDisks, Partial
  <2>3. PICK k \in BoardCalls : /\ board' = [board EXCEPT ![c] = k] /\ k.at = "fill"
                                /\ k.date = board[c].date /\ k.file = board[c].file
                                /\ k.stale = board[c].stale
    BY <2>1, BoardMoves DEF BoardPlaces
  <2>4. BoardCallIsSound(k)
    BY <1>0, <2>1, <2>3 DEF BoardCallIsSound
  <2> QED
    BY <1>0, <2>1, <2>2, <2>3, <2>4, BoardStepAside
<1>5. CASE FillFile(c)
  <2>1. /\ UNCHANGED <<marketDate, memory, tried>> /\ board[c].at = "fill" /\ NextFile(c)
        /\ disk' = [disk EXCEPT !.files[board[c].file] = board[c].got]
    BY <1>5 DEF FillFile
  <2>2. disk' \in BoardDisks /\ disk'.success = disk.success
    BY <1>0, <2>1 DEF BoardDisks
  <2>3. PICK k \in BoardCalls :
          /\ board' = [board EXCEPT ![c] = k] /\ k.date = board[c].date
          /\ \/ /\ board[c].file = "infoharbor" /\ k.at = "fetch" /\ k.file = "tdxhy"
                /\ k.stale = board[c].stale
             \/ board[c].file = "tdxhy" /\ k.at = "parse"
    BY <2>1, BoardNextFile
  <2>4. /\ tried' \in [Sources -> Nat]
        /\ \A s \in Sources : tried'[s] >= tried[s] /\ tried'[s] <= marketDate
    BY <1>0, <2>1
  <2>5. tried'[board[c].file] >= board[c].date
    BY <1>0, <2>1 DEF BoardCallIsSound
  <2>6. BoardCallIsSound(k)'
    BY <2>1, <2>3, <2>4, <2>5, NextFileIsSound
  <2>7. memory' = memory /\ marketDate' = marketDate /\ k.date <= marketDate
    BY <1>0, <2>1, <2>3
  <2> QED
    BY <1>0, <2>2, <2>3, <2>4, <2>6, <2>7, BoardStepOf
<1> QED
  BY <1>2, <1>3, <1>4, <1>5

\* The table of securities, and what is published.
LEMMA BoardTableIsFetched ==
  ASSUME BoardInv, NEW c \in BoardCallers,
         ParseBoards(c) \/ FetchList(c) \/ OpenList(c) \/ FillList(c) \/ PublishPrepared(c)
  PROVE  BoardInv'
<1>0. /\ board[c] \in BoardCalls /\ BoardCallIsSound(board[c])
      /\ board[c].date \in Int /\ board[c].date <= marketDate /\ board[c].got \in Int
      /\ marketDate \in Nat /\ disk \in BoardDisks /\ memory \in BoardMemories
      /\ tried \in [Sources -> Nat] /\ (\A s \in Sources : tried[s] <= marketDate)
      /\ DateSaysWhatWasAsked
  BY BoardCallParts
<1>1. CASE ParseBoards(c)
  <2>1. UNCHANGED <<marketDate, disk, memory, tried>> /\ board[c].at = "parse"
    BY <1>1 DEF ParseBoards
  <2>2. CASE Leaves(c, "list")
    <3>1. PICK k \in BoardCalls : /\ board' = [board EXCEPT ![c] = k] /\ k.at = "list"
                                  /\ k.date = board[c].date
      BY <2>2, BoardMoves DEF BoardPlaces
    <3>2. BoardCallIsSound(k)
      BY <1>0, <2>1, <3>1 DEF BoardCallIsSound
    <3> QED
      BY <1>0, <2>1, <3>1, <3>2, BoardStepAside
  <2>3. CASE board' = [board EXCEPT ![c] = IdleCaller]
    <3>1. IdleCaller.date <= marketDate
      BY <1>0, IdleCallerIsSound
    <3> QED
      BY <1>0, <2>1, <2>3, <3>1, IdleCallerIsSound, BoardStepAside
  <2> QED
    BY <1>1, <2>2, <2>3 DEF ParseBoards
<1>2. CASE FetchList(c)
  <2>1. /\ UNCHANGED <<marketDate, disk, memory>> /\ board[c].at = "list"
        /\ tried' = [tried EXCEPT !["list"] = marketDate]
    BY <1>2 DEF FetchList
  <2>2. /\ \A got \in {marketDate, Partial} : got \in Int
        /\ disk.list \in Int
    BY <1>0 DEF BoardDisks, Partial
  <2>5. \E at \in {"save", "publish"} : \E got \in Int :
          board' = [board EXCEPT ![c] = [@ EXCEPT !.at = at, !.got = got]]
    BY <1>2, <2>2, Zenon DEF FetchList
  <2>3. PICK k \in BoardCalls : /\ board' = [board EXCEPT ![c] = k]
                                /\ k.date = board[c].date /\ k.at \in {"save", "publish"}
    <3>1. PICK at \in {"save", "publish"}, got \in Int :
            board' = [board EXCEPT ![c] = [@ EXCEPT !.at = at, !.got = got]]
      BY <2>5
    <3>2. PICK k : k = [board[c] EXCEPT !.at = at, !.got = got]
      OBVIOUS
    <3>3. board[c] \in BoardCalls /\ at \in BoardPlaces
      BY <1>0, PlacesAndFiles
    <3>4. k \in BoardCalls /\ k.date = board[c].date /\ k.at = at
      BY <3>2, <3>3 DEF BoardCalls
    <3>5. board' = [board EXCEPT ![c] = k]
      BY <3>1, <3>2, Zenon
    <3> QED
      BY <3>4, <3>5
  <2>4. /\ tried' \in [Sources -> Nat] /\ tried'["list"] = marketDate
        /\ \A f \in BoardFiles : tried'[f] = tried[f]
    BY <1>0, <2>1 DEF Sources, BoardFiles
  <2>6. \A s \in Sources : tried'[s] >= tried[s] /\ tried'[s] <= marketDate
    BY <1>0, <2>1
  <2>7. BoardCallIsSound(k)'
    BY <1>0, <2>1, <2>3, <2>4 DEF BoardCallIsSound
  <2>8. disk' = disk /\ memory' = memory /\ marketDate' = marketDate /\ k.date <= marketDate
    BY <1>0, <2>1, <2>3
  <2> QED
    BY <1>0, <2>3, <2>4, <2>6, <2>7, <2>8, BoardStepOf
<1>3. CASE OpenList(c)
  <2>1. /\ UNCHANGED <<marketDate, memory, tried>> /\ board[c].at = "save"
        /\ Leaves(c, "fillList") /\ disk' = [disk EXCEPT !.list = Nothing]
    BY <1>3 DEF OpenList
  <2>2. disk' \in BoardDisks /\ disk'.success = disk.success
    BY <1>0, <2>1 DEF BoardDisks, Nothing
  <2>3. PICK k \in BoardCalls : /\ board' = [board EXCEPT ![c] = k] /\ k.at = "fillList"
                                /\ k.date = board[c].date
    BY <2>1, BoardMoves DEF BoardPlaces
  <2>4. BoardCallIsSound(k)
    BY <1>0, <2>1, <2>3 DEF BoardCallIsSound
  <2> QED
    BY <1>0, <2>1, <2>2, <2>3, <2>4, BoardStepAside
<1>4. CASE FillList(c)
  <2>1. /\ UNCHANGED <<marketDate, memory, tried>> /\ board[c].at = "fillList"
        /\ Leaves(c, "publish") /\ disk' = [disk EXCEPT !.list = board[c].got]
    BY <1>4 DEF FillList
  <2>2. disk' \in BoardDisks /\ disk'.success = disk.success
    BY <1>0, <2>1 DEF BoardDisks
  <2>3. PICK k \in BoardCalls : /\ board' = [board EXCEPT ![c] = k] /\ k.at = "publish"
                                /\ k.date = board[c].date
    BY <2>1, BoardMoves DEF BoardPlaces
  <2>4. BoardCallIsSound(k)
    BY <1>0, <2>1, <2>3 DEF BoardCallIsSound
  <2> QED
    BY <1>0, <2>1, <2>2, <2>3, <2>4, BoardStepAside
<1>5. CASE PublishPrepared(c)
  <2>1. /\ UNCHANGED <<marketDate, disk, tried>> /\ board[c].at = "publish"
        /\ Publish(c, board[c].got)
        /\ board' = [board EXCEPT ![c] = [@ EXCEPT !.at = "date", !.got = Nothing]]
    BY <1>5 DEF PublishPrepared
  <2>2. PICK k : k = [board[c] EXCEPT !.at = "date", !.got = Nothing]
    OBVIOUS
  <2>3. k \in BoardCalls /\ k.at = "date" /\ k.date = board[c].date
    <3>1. board[c] \in BoardCalls
      BY <1>0
    <3>2. k \in BoardCalls
      BY <2>2, <3>1, PlacesAndFiles DEF BoardCalls
    <3> QED
      BY <2>2, <3>1, <3>2 DEF BoardCalls
  <2>4. board' = [board EXCEPT ![c] = k]
    BY <2>1, <2>2, Zenon
  <2>5. memory' \in BoardMemories /\ memory'.date = board[c].date
    BY <1>0, <2>1 DEF Publish, BoardMemories
  <2>6. \A s \in Sources : tried[s] >= board[c].date
    BY <1>0, <2>1 DEF BoardCallIsSound, Sources
  <2>7. /\ tried' \in [Sources -> Nat]
        /\ \A s \in Sources : /\ tried'[s] >= tried[s] /\ tried'[s] <= marketDate
                              /\ tried'[s] >= memory'.date
    BY <1>0, <2>1, <2>5, <2>6
  <2>8. BoardCallIsSound(k)'
    BY <2>1, <2>3, <2>6 DEF BoardCallIsSound, Sources
  <2>9. disk' = disk /\ marketDate' = marketDate /\ k.date <= marketDate
    BY <1>0, <2>1, <2>3
  <2> QED
    BY <1>0, <2>3, <2>4, <2>5, <2>7, <2>8, <2>9, BoardStepOf
<1> QED
  BY <1>1, <1>2, <1>3, <1>4, <1>5

\* The date, and the answer.
LEMMA BoardCallEnds ==
  ASSUME BoardInv, NEW c \in BoardCallers,
         OpenDate(c) \/ FillDate(c) \/ Answer(c) \/ Refuse(c)
  PROVE  BoardInv'
<1>0. /\ board[c] \in BoardCalls /\ BoardCallIsSound(board[c])
      /\ board[c].date \in Int /\ board[c].date <= marketDate
      /\ marketDate \in Nat /\ disk \in BoardDisks /\ memory \in BoardMemories
      /\ tried \in [Sources -> Nat] /\ (\A s \in Sources : tried[s] <= marketDate)
      /\ DateSaysWhatWasAsked
  BY BoardCallParts
<1>1. CASE OpenDate(c)
  <2>1. /\ UNCHANGED <<marketDate, memory, tried>> /\ board[c].at = "date"
        /\ Leaves(c, "fillDate") /\ disk' = [disk EXCEPT !.success = NoDate]
    BY <1>1 DEF OpenDate
  <2>2. disk' \in BoardDisks /\ disk'.success = 0
    BY <1>0, <2>1 DEF BoardDisks, NoDate
  <2>3. PICK k \in BoardCalls : /\ board' = [board EXCEPT ![c] = k] /\ k.at = "fillDate"
                                /\ k.date = board[c].date
    BY <2>1, BoardMoves DEF BoardPlaces
  <2>4. BoardCallIsSound(k)
    BY <1>0, <2>1, <2>3 DEF BoardCallIsSound
  <2> QED
    BY <1>0, <2>1, <2>2, <2>3, <2>4, BoardStepAside
<1>2. CASE FillDate(c)
  <2>1. /\ UNCHANGED <<marketDate, memory, tried>> /\ board[c].at = "fillDate"
        /\ Leaves(c, "members") /\ disk' = [disk EXCEPT !.success = board[c].date]
    BY <1>2 DEF FillDate
  <2>2. disk' \in BoardDisks /\ disk'.success = board[c].date
    BY <1>0, <2>1 DEF BoardDisks
  <2>3. PICK k \in BoardCalls : /\ board' = [board EXCEPT ![c] = k] /\ k.at = "members"
                                /\ k.date = board[c].date
    BY <2>1, BoardMoves DEF BoardPlaces
  <2>4. BoardCallIsSound(k)'
    BY <2>3 DEF BoardCallIsSound
  <2>5. \A s \in Sources : tried[s] >= board[c].date
    BY <1>0, <2>1 DEF BoardCallIsSound, Sources
  <2>6. /\ tried' \in [Sources -> Nat]
        /\ \A s \in Sources : /\ tried'[s] >= tried[s] /\ tried'[s] <= marketDate
                              /\ tried'[s] >= disk'.success
    BY <1>0, <2>1, <2>2, <2>5
  <2>7. memory' = memory /\ marketDate' = marketDate /\ k.date <= marketDate
    BY <1>0, <2>1, <2>3
  <2> QED
    BY <1>0, <2>2, <2>3, <2>4, <2>6, <2>7, BoardStepOf
<1>3. CASE Answer(c) \/ Refuse(c)
  <2>1. UNCHANGED <<marketDate, disk, tried>> /\ board' = [board EXCEPT ![c] = IdleCaller]
    BY <1>3 DEF Answer, Refuse
  <2>2. \A f \in BoardFiles : MembersOf(f) \in {NotMatched} \cup (Int \X Int)
    BY <1>0 DEF MembersOf, BoardMemories, BoardDisks
  <2>3. \/ memory' = memory
        \/ \E members \in {memory.members} \cup {MembersOf(f) : f \in BoardFiles} :
              memory' = [memory EXCEPT !.members = members]
    BY <1>3 DEF Answer, Refuse
  <2>4. memory' \in BoardMemories /\ memory'.date = memory.date
    BY <1>0, <2>2, <2>3 DEF BoardMemories
  <2>5. IdleCaller.date <= marketDate
    BY <1>0, IdleCallerIsSound
  <2> QED
    BY <1>0, <2>1, <2>4, <2>5, IdleCallerIsSound, BoardStepAside
<1> QED
  BY <1>1, <1>2, <1>3

LEMMA BoardInvStep == BoardInv /\ [BoardNext]_boardVars => BoardInv'
<1> SUFFICES ASSUME BoardInv, [BoardNext]_boardVars PROVE BoardInv'
  OBVIOUS
<1>0. /\ marketDate \in Nat /\ disk \in BoardDisks /\ memory \in BoardMemories
      /\ tried \in [Sources -> Nat] /\ board \in [BoardCallers -> BoardCalls]
      /\ DateSaysWhatWasAsked
  BY DEF BoardInv, BoardTyped
<1>1. ASSUME NEW c \in BoardCallers, BoardStep(c) PROVE BoardInv'
  BY <1>1, BoardCallBegins, BoardFilesAreFetched, BoardTableIsFetched, BoardCallEnds
     DEF BoardStep
<1>2. CASE ClearBoards \/ UNCHANGED boardVars
  <2>1. UNCHANGED <<marketDate, disk, tried, board>> /\ memory' \in {memory, Empty}
    BY <1>2 DEF ClearBoards, boardVars
  <2>2. Empty \in BoardMemories /\ Empty.date = 0
    BY DEF Empty, BoardMemories, NoDate, Nothing
  <2>3. BoardTyped'
    BY <1>0, <2>1, <2>2 DEF BoardTyped
  <2>4. \A s \in Sources : tried[s] \in Nat
    BY <1>0
  <2>5. DateSaysWhatWasAsked'
    BY <1>0, <2>1, <2>2, <2>4 DEF DateSaysWhatWasAsked
  <2> QED
    BY <2>1, <2>3, <2>5 DEF BoardInv, NotAhead, BoardCallIsSound
<1>3. CASE DayPasses
  <2>1. \A c \in BoardCallers : board[c].date \in Int
    BY <1>0 DEF BoardCalls
  <2>2. marketDate' = marketDate + 1 /\ UNCHANGED <<disk, memory, tried, board>>
    BY <1>3 DEF DayPasses
  <2>3. BoardTyped'
    BY <1>0, <2>2 DEF BoardTyped
  <2>4. \A s \in Sources : tried[s] \in Nat
    BY <1>0
  <2>5. NotAhead'
    BY <1>0, <2>1, <2>2, <2>4 DEF BoardInv, NotAhead
  <2> QED
    BY <2>2, <2>3, <2>5 DEF BoardInv, BoardCallIsSound, DateSaysWhatWasAsked
<1>4. CASE Restart
  <2>1. /\ UNCHANGED <<marketDate, disk, tried>> /\ memory' = Empty
        /\ board' = [c \in BoardCallers |-> IdleCaller]
    BY <1>4 DEF Restart
  <2>2. Empty \in BoardMemories /\ Empty.date = 0
    BY DEF Empty, BoardMemories, NoDate, Nothing
  <2>3. BoardTyped'
    BY <1>0, <2>1, <2>2, IdleCallerIsSound DEF BoardTyped
  <2>4. \A c \in BoardCallers : board'[c] = IdleCaller
    BY <2>1
  <2>5. NotAhead'
    BY <1>0, <2>1, <2>4, IdleCallerIsSound DEF BoardInv, NotAhead
  <2>6. \A c \in BoardCallers : BoardCallIsSound(board[c])'
    BY <2>4, IdleCallerIsSound DEF BoardCallIsSound
  <2>7. \A s \in Sources : tried[s] \in Nat
    BY <1>0
  <2>8. DateSaysWhatWasAsked'
    BY <1>0, <2>1, <2>2, <2>7 DEF DateSaysWhatWasAsked
  <2> QED
    BY <2>3, <2>5, <2>6, <2>8 DEF BoardInv
<1> QED
  BY <1>1, <1>2, <1>3, <1>4 DEF BoardNext

\* The day a preparation is dated on was asked for in full, for any callers,
\* days, failed fetches, writes cut short and restarts (boards.py 152-199).
THEOREM DatesSayWhatWasAsked == BoardSpec => []DateSaysWhatWasAsked
<1>1. BoardInv => DateSaysWhatWasAsked
  BY DEF BoardInv
<1> QED
  BY BoardInvInit, BoardInvStep, <1>1, PTL DEF BoardSpec

-----------------------------------------------------------------------------
(* The bar files: the two cells of a record, and whole files               *)

Cells == [date : 1 .. Dates, half : 1 .. 2]

\* The two cells of a record, counted from zero.
HeadOf(file, n) == file[2 * n + 1]
TailOf(file, n) == file[2 * n + 2]

\* A file of whole records, each date once and in order, and perhaps the head
\* of one more.
Whole(file) ==
    \A n \in Nat :
        /\ 2 * n + 1 <= Len(file) => HeadOf(file, n).half = 1
        /\ 2 * n + 2 <= Len(file) =>
              TailOf(file, n).half = 2 /\ TailOf(file, n).date = HeadOf(file, n).date
        /\ \A m \in Nat : m < n /\ 2 * n + 1 <= Len(file)
              => HeadOf(file, m).date < HeadOf(file, n).date

Even(file) == \E n \in Nat : Len(file) = 2 * n

LEMMA CellsOf ==
  ASSUME NEW file \in Seq(Cells), Dates \in Nat, NEW n \in Nat
  PROVE  /\ 2 * n + 1 <= Len(file) => HeadOf(file, n) \in Cells /\ HeadOf(file, n).date \in 1 .. Dates
         /\ 2 * n + 2 <= Len(file) => TailOf(file, n) \in Cells /\ TailOf(file, n).date \in 1 .. Dates
<1>1. Len(file) \in Nat /\ \A i \in 1 .. Len(file) : file[i] \in Cells
  OBVIOUS
<1>2. 2 * n + 1 <= Len(file) => HeadOf(file, n) \in Cells
  BY <1>1 DEF HeadOf
<1>3. 2 * n + 2 <= Len(file) => TailOf(file, n) \in Cells
  BY <1>1 DEF TailOf
<1> QED
  BY <1>2, <1>3 DEF Cells

LEMMA WholePrefix ==
  ASSUME NEW a \in Seq(Cells), NEW b \in Seq(Cells), Len(a) <= Len(b),
         \A i \in 1 .. Len(a) : a[i] = b[i], Whole(b)
  PROVE  Whole(a)
<1>1. Len(a) \in Nat /\ Len(b) \in Nat
  OBVIOUS
<1>2. \A n \in Nat : 2 * n + 1 <= Len(a) => HeadOf(a, n) = HeadOf(b, n) /\ 2 * n + 1 <= Len(b)
  BY <1>1 DEF HeadOf
<1>3. \A n \in Nat : 2 * n + 2 <= Len(a) => TailOf(a, n) = TailOf(b, n) /\ 2 * n + 2 <= Len(b)
  BY <1>1 DEF TailOf
<1>4. \A n \in Nat : 2 * n + 1 <= Len(a) => HeadOf(a, n).half = 1
  BY <1>2 DEF Whole
<1>5. \A n \in Nat : 2 * n + 2 <= Len(a) =>
         TailOf(a, n).half = 2 /\ TailOf(a, n).date = HeadOf(a, n).date
  <2> TAKE n \in Nat
  <2> HAVE 2 * n + 2 <= Len(a)
  <2>1. 2 * n + 1 <= Len(a)
    BY <1>1
  <2>2. HeadOf(a, n) = HeadOf(b, n)
    BY <1>2, <2>1
  <2>3. TailOf(a, n) = TailOf(b, n) /\ 2 * n + 2 <= Len(b)
    BY <1>3
  <2>4. TailOf(b, n).half = 2 /\ TailOf(b, n).date = HeadOf(b, n).date
    BY <2>3 DEF Whole
  <2> QED
    BY <2>2, <2>3, <2>4
<1>6. \A n \in Nat : \A m \in Nat : m < n /\ 2 * n + 1 <= Len(a)
         => HeadOf(a, m).date < HeadOf(a, n).date
  <2> TAKE n \in Nat
  <2> TAKE m \in Nat
  <2> HAVE m < n /\ 2 * n + 1 <= Len(a)
  <2>1. 2 * m + 1 <= Len(a)
    BY <1>1
  <2>2. HeadOf(a, m) = HeadOf(b, m) /\ HeadOf(a, n) = HeadOf(b, n) /\ 2 * n + 1 <= Len(b)
    BY <1>2, <2>1
  <2> QED
    BY <2>2 DEF Whole
<1> QED
  BY <1>4, <1>5, <1>6 DEF Whole

LEMMA EncodedRecords ==
  ASSUME NEW bars \in Seq(1 .. Dates), Dates \in Nat
  PROVE  /\ Encoded(bars) \in Seq(Cells)
         /\ Len(Encoded(bars)) = 2 * Len(bars)
         /\ \A n \in Nat : n < Len(bars) =>
               /\ HeadOf(Encoded(bars), n) = [date |-> bars[n + 1], half |-> 1]
               /\ TailOf(Encoded(bars), n) = [date |-> bars[n + 1], half |-> 2]
<1>1. PICK L : L = Len(bars) /\ L \in Nat
  OBVIOUS
<1>2. PICK E : E = Encoded(bars)
  OBVIOUS
<1>3. E = [i \in 1 .. 2 * L |-> Record(bars[(i + 1) \div 2])[IF i % 2 = 1 THEN 1 ELSE 2]]
  BY <1>1, <1>2 DEF Encoded, RecordSize
<1>4. \A n \in Nat : n < L => E[2 * n + 1] = [date |-> bars[n + 1], half |-> 1]
  <2> TAKE n \in Nat
  <2> HAVE n < L
  <2>1. (2 * n + 1) \in 1 .. 2 * L /\ (2 * n + 1 + 1) \div 2 = n + 1 /\ (2 * n + 1) % 2 = 1
    BY <1>1
  <2>2. E[2 * n + 1] = Record(bars[n + 1])[1]
    BY <1>3, <2>1
  <2> QED
    BY <2>2 DEF Record
<1>5. \A n \in Nat : n < L => E[2 * n + 2] = [date |-> bars[n + 1], half |-> 2]
  <2> TAKE n \in Nat
  <2> HAVE n < L
  <2>1. (2 * n + 2) \in 1 .. 2 * L /\ (2 * n + 2 + 1) \div 2 = n + 1 /\ (2 * n + 2) % 2 = 0
    BY <1>1
  <2>2. E[2 * n + 2] = Record(bars[n + 1])[2]
    BY <1>3, <2>1
  <2> QED
    BY <2>2 DEF Record
<1>6. \A i \in 1 .. 2 * L : E[i] \in Cells
  <2> TAKE i \in 1 .. 2 * L
  <2>1. \E n \in Nat : n < L /\ (i = 2 * n + 1 \/ i = 2 * n + 2)
    <3>1. (i - 1) \div 2 \in Nat /\ (i - 1) \div 2 < L
      BY <1>1
    <3>2. i = 2 * ((i - 1) \div 2) + 1 \/ i = 2 * ((i - 1) \div 2) + 2
      BY <1>1
    <3> QED
      BY <3>1, <3>2
  <2>2. PICK n \in Nat : n < L /\ (i = 2 * n + 1 \/ i = 2 * n + 2)
    BY <2>1
  <2>3. bars[n + 1] \in 1 .. Dates
    BY <1>1, <2>2
  <2>4. E[i] = [date |-> bars[n + 1], half |-> 1] \/ E[i] = [date |-> bars[n + 1], half |-> 2]
    BY <1>4, <1>5, <2>2
  <2> QED
    BY <2>3, <2>4 DEF Cells
<1>7. E \in Seq(Cells) /\ Len(E) = 2 * L
  <2>1. DOMAIN E = 1 .. 2 * L /\ E \in [1 .. 2 * L -> Cells] /\ 2 * L \in Nat
    BY <1>1, <1>3, <1>6
  <2> QED
    BY <2>1
<1> QED
  BY <1>1, <1>2, <1>4, <1>5, <1>7 DEF HeadOf, TailOf

Ascending(bars) == \A i, j \in 1 .. Len(bars) : i < j => bars[i] < bars[j]

\* The bars after a date are the last few of an ascending list.
LEMMA FewAreOld ==
  ASSUME NEW bars \in Seq(1 .. Dates), Dates \in Nat, Ascending(bars), NEW last \in Nat
  PROVE  \E n \in 0 .. Len(bars) : \A i \in DOMAIN bars : bars[i] > last <=> i > n
<1> DEFINE T == { n \in Nat : \A i \in 1 .. Len(bars) : i > n => bars[i] > last }
<1>1. Len(bars) \in Nat /\ DOMAIN bars = 1 .. Len(bars) /\ \A i \in 1 .. Len(bars) : bars[i] \in Nat
  OBVIOUS
<1>2. Len(bars) \in T
  BY <1>1
<1>3. PICK R : R = OpToRel(<, Nat)
  OBVIOUS
<1>4. IsWellFoundedOn(R, Nat)
  BY <1>3, NatLessThanWellFounded, Zenon
<1>5. \A i, j \in Nat : i < j => <<i, j>> \in R
  BY <1>3 DEF OpToRel
<1>6. T \in SUBSET Nat /\ T # {}
  BY <1>2
<1>7. PICK n \in T : \A m \in T : ~(<<m, n>> \in R)
  <2> HIDE DEF T
  <2> QED
    BY <1>4, <1>6, WFMin
<1>8. n \in Nat /\ \A m \in T : ~(m < n)
  BY <1>5, <1>7
<1>9. n <= Len(bars)
  BY <1>1, <1>2, <1>8
<1>10. ASSUME NEW i \in 1 .. Len(bars), bars[i] > last PROVE i > n
  <2> SUFFICES ASSUME ~(i > n) PROVE FALSE
    OBVIOUS
  <2>1. n >= 1 /\ n \in 1 .. Len(bars) /\ i \in Nat /\ n - 1 \in Nat /\ i <= n
    BY <1>1, <1>8, <1>9
  <2>2. bars[n] > last
    <3>1. CASE i = n
      BY <3>1, <1>10
    <3>2. CASE i < n
      BY <3>2, <2>1, <1>1, <1>10 DEF Ascending
    <3> QED
      BY <3>1, <3>2, <2>1
  <2>3. \A j \in 1 .. Len(bars) : j > n - 1 => bars[j] > last
    <3> TAKE j \in 1 .. Len(bars)
    <3> HAVE j > n - 1
    <3>1. CASE j = n
      BY <3>1, <2>2
    <3>2. CASE j > n
      BY <3>2, <1>7
    <3> QED
      BY <3>1, <3>2, <1>8
  <2>4. n - 1 \in T
    BY <2>1, <2>3
  <2> QED
    BY <2>1, <2>4, <1>8
<1>11. \A i \in 1 .. Len(bars) : i > n => bars[i] > last
  BY <1>7
<1>12. n \in 0 .. Len(bars)
  BY <1>1, <1>8, <1>9
<1>13. \A i \in DOMAIN bars : bars[i] > last <=> i > n
  BY <1>1, <1>10, <1>11
<1> HIDE DEF T
<1> QED
  BY <1>12, <1>13

LEMMA NewBarsAre ==
  ASSUME NEW bars \in Seq(1 .. Dates), Dates \in Nat, Ascending(bars), NEW last \in Nat
  PROVE  \E n \in 0 .. Len(bars) :
            /\ \A i \in 1 .. Len(bars) : bars[i] > last <=> i > n
            /\ NewBars(bars, last) \in Seq(1 .. Dates)
            /\ Len(NewBars(bars, last)) = Len(bars) - n
            /\ \A i \in 1 .. Len(bars) - n : NewBars(bars, last)[i] = bars[n + i]
<1>1. PICK n : n = CHOOSE m \in 0 .. Len(bars) : \A i \in DOMAIN bars : bars[i] > last <=> i > m
  OBVIOUS
<1>2. n \in 0 .. Len(bars) /\ \A i \in DOMAIN bars : bars[i] > last <=> i > n
  BY <1>1, FewAreOld, Zenon
<1>3. NewBars(bars, last) = SubSeq(bars, n + 1, Len(bars))
  BY <1>1 DEF NewBars
<1>4. DOMAIN bars = 1 .. Len(bars) /\ Len(bars) \in Nat
  OBVIOUS
<1>5. PICK a, b : a = n + 1 /\ b = Len(bars)
  OBVIOUS
<1>6. a \in Int /\ b \in Int /\ \A i \in a .. b : bars[i] \in 1 .. Dates
  BY <1>2, <1>4, <1>5
<1>7. /\ SubSeq(bars, a, b) \in Seq(1 .. Dates)
      /\ Len(SubSeq(bars, a, b)) = IF a <= b THEN b - a + 1 ELSE 0
      /\ \A i \in 1 .. b - a + 1 : SubSeq(bars, a, b)[i] = bars[a + i - 1]
  <2>1. SubSeq(bars, a, b) \in Seq(1 .. Dates)
    BY <1>6, SubSeqProperties
  <2>2. Len(SubSeq(bars, a, b)) = IF a <= b THEN b - a + 1 ELSE 0
    BY <1>6, SubSeqProperties
  <2>3. \A i \in 1 .. b - a + 1 : SubSeq(bars, a, b)[i] = bars[a + i - 1]
    BY <1>6, SubSeqProperties
  <2> QED
    BY <2>1, <2>2, <2>3
<1>8. PICK new : /\ new = SubSeq(bars, a, b)
                 /\ new \in Seq(1 .. Dates)
                 /\ Len(new) = IF a <= b THEN b - a + 1 ELSE 0
                 /\ \A i \in 1 .. b - a + 1 : new[i] = bars[a + i - 1]
  BY <1>7, Zenon
<1>9. Len(new) = Len(bars) - n
  <2>1. n \in Nat /\ n <= Len(bars)
    BY <1>2, <1>4
  <2>2. a = n + 1 /\ b = Len(bars) /\ Len(bars) \in Nat
    BY <1>4, <1>5
  <2>3. Len(new) = IF a <= b THEN b - a + 1 ELSE 0
    BY <1>8
  <2> QED
    BY <2>1, <2>2, <2>3
<1>10. \A i \in 1 .. Len(bars) - n : new[i] = bars[n + i]
  <2> TAKE i \in 1 .. Len(bars) - n
  <2>1. i \in 1 .. b - a + 1 /\ a + i - 1 = n + i
    BY <1>2, <1>4, <1>5
  <2> QED
    BY <1>8, <2>1
<1>11. NewBars(bars, last) = new
  BY <1>3, <1>5, <1>8
<1> QED
  BY <1>2, <1>4, <1>8, <1>9, <1>10, <1>11

LEMMA LastDates ==
  ASSUME NEW file \in Seq(Cells)
  PROVE  /\ Len(file) < 2 => LastDate(file) = 0
         /\ \A n \in Nat : Len(file) \in {2 * n + 2, 2 * n + 3} => LastDate(file) = HeadOf(file, n).date
<1>1. Len(file) \in Nat
  OBVIOUS
<1>2. Len(file) < 2 => LastDate(file) = 0
  BY DEF LastDate, RecordSize
<1>3. ASSUME NEW n \in Nat, Len(file) \in {2 * n + 2, 2 * n + 3}
      PROVE  LastDate(file) = HeadOf(file, n).date
  <2>1. Len(file) \div 2 = n + 1 /\ ~(Len(file) < 2)
    BY <1>1, <1>3
  <2>2. PICK B : B = BarsRead(file)
    OBVIOUS
  <2>3. B = [i \in 1 .. n + 1 |-> << file[2 * i - 1], file[2 * i] >>]
    BY <2>1, <2>2 DEF BarsRead, RecordSize
  <2>4. Len(B) = n + 1 /\ B[n + 1] = << file[2 * (n + 1) - 1], file[2 * (n + 1)] >>
    BY <2>3
  <2>5. LastDate(file) = B[Len(B)][1].date
    BY <2>1, <2>2 DEF LastDate, RecordSize, Last
  <2>6. 2 * (n + 1) - 1 = 2 * n + 1
    OBVIOUS
  <2> QED
    BY <2>4, <2>5, <2>6 DEF HeadOf
<1> QED
  BY <1>2, <1>3

\* A file has a last whole record or is too short for one.
LEMMA HasALast ==
  ASSUME NEW file \in Seq(Cells)
  PROVE  Len(file) < 2 \/ \E n \in Nat : Len(file) \in {2 * n + 2, 2 * n + 3}
<1>1. Len(file) \in Nat
  OBVIOUS
<1>2. PICK n : n = (Len(file) \div 2) - 1
  OBVIOUS
<1>3. ~(Len(file) < 2) => n \in Nat /\ Len(file) \in {2 * n + 2, 2 * n + 3}
  BY <1>1, <1>2
<1> QED
  BY <1>3

LEMMA LastDateIsADate ==
  ASSUME NEW file \in Seq(Cells), Dates \in Nat
  PROVE  LastDate(file) \in 0 .. Dates
<1>1. Len(file) \in Nat
  OBVIOUS
<1>2. CASE Len(file) < 2
  BY <1>2, LastDates
<1>3. CASE \E n \in Nat : Len(file) \in {2 * n + 2, 2 * n + 3}
  <2>1. PICK n \in Nat : Len(file) \in {2 * n + 2, 2 * n + 3}
    BY <1>3
  <2>2. HeadOf(file, n).date \in 1 .. Dates
    BY <2>1, CellsOf
  <2>3. LastDate(file) = HeadOf(file, n).date
    BY <2>1, LastDates
  <2> QED
    BY <2>2, <2>3
<1> QED
  BY <1>2, <1>3, HasALast

\* Every record of a whole file is of its last date or before it.
LEMMA LastDateIsLast ==
  ASSUME NEW file \in Seq(Cells), Dates \in Nat, Whole(file), NEW n \in Nat, Len(file) = 2 * n,
         NEW m \in Nat, m < n
  PROVE  HeadOf(file, m).date <= LastDate(file)
<1>1. PICK k \in Nat : n = k + 1
  <2>1. n - 1 \in Nat /\ n = (n - 1) + 1
    OBVIOUS
  <2> QED
    BY <2>1
<1>2. LastDate(file) = HeadOf(file, k).date
  BY <1>1, LastDates
<1>3. m <= k /\ 2 * k + 1 <= Len(file) /\ 2 * m + 1 <= Len(file)
  BY <1>1
<1>4. HeadOf(file, k).date \in Nat /\ HeadOf(file, m).date \in Nat
  BY <1>3, CellsOf
<1>5. m < k => HeadOf(file, m).date < HeadOf(file, k).date
  BY <1>3 DEF Whole
<1> QED
  BY <1>2, <1>3, <1>4, <1>5

\* One sequence behind another, by its length and its elements.
LEMMA Joined ==
  ASSUME NEW S, NEW front \in Seq(S), NEW back \in Seq(S), NEW both, both = front \o back
  PROVE  /\ Len(both) = Len(front) + Len(back)
         /\ \A i \in 1 .. Len(front) + Len(back) :
               both[i] = IF i <= Len(front) THEN front[i] ELSE back[i - Len(front)]
<1>1. Len(front \o back) = Len(front) + Len(back)
  BY ONLY ConcatProperties, front \in Seq(S), back \in Seq(S), Zenon
<1>2. \A i \in 1 .. Len(front) + Len(back) :
         (front \o back)[i] = IF i <= Len(front) THEN front[i] ELSE back[i - Len(front)]
  BY ONLY ConcatProperties, front \in Seq(S), back \in Seq(S), Zenon
<1> QED
  BY ONLY <1>1, <1>2, both = front \o back, Zenon

\* New bars written behind whole records make whole records, of which the new
\* ones come last.
LEMMA WholeBefore ==
  ASSUME NEW file \in Seq(Cells), NEW bars \in Seq(1 .. Dates), Dates \in Nat,
         Whole(file), NEW n \in Nat, Len(file) = 2 * n, Ascending(bars),
         \A i \in 1 .. Len(bars) : bars[i] > LastDate(file),
         NEW all, all = file \o Encoded(bars)
  PROVE  /\ all \in Seq(Cells) /\ Len(all) = 2 * (n + Len(bars)) /\ Whole(all)
         /\ Len(bars) >= 1 => LastDate(all) = bars[Len(bars)]
<1>1. PICK L : L = Len(bars) /\ L \in Nat
  OBVIOUS
<1>2. PICK E : E = Encoded(bars)
  OBVIOUS
<1>3. /\ E \in Seq(Cells) /\ Len(E) = 2 * L
      /\ \A m \in Nat : m < L => /\ HeadOf(E, m) = [date |-> bars[m + 1], half |-> 1]
                                 /\ TailOf(E, m) = [date |-> bars[m + 1], half |-> 2]
  BY <1>1, <1>2, EncodedRecords, Zenon
<1>4. /\ all \in Seq(Cells) /\ Len(all) = 2 * n + 2 * L
      /\ \A i \in 1 .. Len(file) + Len(E) : all[i] = IF i <= Len(file) THEN file[i] ELSE E[i - Len(file)]
  <2>1. all = file \o E
    BY <1>2
  <2>2. all \in Seq(Cells) /\ Len(all) = Len(file) + Len(E)
    BY <1>3, <2>1
  <2>3. \A i \in 1 .. Len(file) + Len(E) : all[i] = IF i <= Len(file) THEN file[i] ELSE E[i - Len(file)]
    BY <1>3, <2>1, Joined, Zenon
  <2> QED
    BY <1>3, <2>2, <2>3
<1>5. \A m \in Nat : m < n => HeadOf(all, m) = HeadOf(file, m) /\ TailOf(all, m) = TailOf(file, m)
  BY <1>1, <1>3, <1>4 DEF HeadOf, TailOf
<1>6. \A k \in Nat, m \in Nat : m < L /\ k = n + m => HeadOf(all, k) = HeadOf(E, m) /\ TailOf(all, k) = TailOf(E, m)
  <2> TAKE k \in Nat, m \in Nat
  <2> HAVE m < L /\ k = n + m
  <2>1. /\ 2 * k + 1 \in 1 .. Len(file) + Len(E) /\ 2 * k + 2 \in 1 .. Len(file) + Len(E)
        /\ ~(2 * k + 1 <= Len(file)) /\ ~(2 * k + 2 <= Len(file))
        /\ (2 * k + 1) - Len(file) = 2 * m + 1 /\ (2 * k + 2) - Len(file) = 2 * m + 2
    BY <1>1, <1>3
  <2>2. all[2 * k + 1] = E[2 * m + 1] /\ all[2 * k + 2] = E[2 * m + 2]
    BY <1>4, <2>1
  <2> QED
    BY <2>2 DEF HeadOf, TailOf
<1>7. \A m \in Nat : m < L => bars[m + 1] \in 1 .. Dates /\ bars[m + 1] > LastDate(file)
  BY <1>1
<1>8. \A k \in Nat : k < n + L => k < n \/ \E m \in Nat : m < L /\ k = n + m
  <2> TAKE k \in Nat
  <2> HAVE k < n + L
  <2>1. ~(k < n) => k - n \in Nat /\ k - n < L /\ k = n + (k - n)
    BY <1>1
  <2> QED
    BY <2>1
<1>9. \A k \in Nat : k < n + L =>
         /\ HeadOf(all, k).half = 1
         /\ TailOf(all, k).half = 2 /\ TailOf(all, k).date = HeadOf(all, k).date
  <2> TAKE k \in Nat
  <2> HAVE k < n + L
  <2>1. CASE k < n
    <3>1. 2 * k + 1 <= Len(file) /\ 2 * k + 2 <= Len(file)
      BY <2>1
    <3> QED
      BY <1>5, <2>1, <3>1 DEF Whole
  <2>2. CASE \E m \in Nat : m < L /\ k = n + m
    <3>1. PICK m \in Nat : m < L /\ k = n + m
      BY <2>2
    <3>2. HeadOf(all, k) = [date |-> bars[m + 1], half |-> 1]
      BY <1>3, <1>6, <3>1
    <3>3. TailOf(all, k) = [date |-> bars[m + 1], half |-> 2]
      BY <1>3, <1>6, <3>1
    <3> QED
      BY <3>2, <3>3
  <2> QED
    BY <1>8, <2>1, <2>2
<1>10. \A k \in Nat : \A m \in Nat : m < k /\ k < n + L => HeadOf(all, m).date < HeadOf(all, k).date
  <2> TAKE k \in Nat
  <2> TAKE m \in Nat
  <2> HAVE m < k /\ k < n + L
  <2>0. m < n + L
    BY <1>1
  <2>1. CASE k < n
    <3>1. 2 * k + 1 <= Len(file) /\ m < n
      BY <2>1
    <3> QED
      BY <1>5, <2>1, <3>1 DEF Whole
  <2>2. CASE m < n /\ \E q \in Nat : q < L /\ k = n + q
    <3>1. PICK q \in Nat : q < L /\ k = n + q
      BY <2>2
    <3>2. HeadOf(all, k).date = bars[q + 1]
      BY <1>3, <1>6, <3>1
    <3>3. HeadOf(file, m).date <= LastDate(file)
      BY <2>2, LastDateIsLast
    <3>4. 2 * m + 1 <= Len(file)
      BY <2>2
    <3>5. HeadOf(file, m).date \in Int
      BY <3>4, CellsOf
    <3>6. LastDate(file) \in Int
      BY LastDateIsADate
    <3>7. bars[q + 1] > LastDate(file) /\ bars[q + 1] \in Int
      BY <1>7, <3>1
    <3>8. HeadOf(all, m) = HeadOf(file, m)
      BY <1>5, <2>2
    <3> QED
      BY <3>2, <3>3, <3>5, <3>6, <3>7, <3>8
  <2>3. CASE (\E q \in Nat : q < L /\ k = n + q) /\ \E p \in Nat : p < L /\ m = n + p
    <3>1. PICK q \in Nat : q < L /\ k = n + q
      BY <2>3
    <3>2. PICK p \in Nat : p < L /\ m = n + p
      BY <2>3
    <3>3. HeadOf(all, k).date = bars[q + 1]
      BY <1>3, <1>6, <3>1
    <3>4. HeadOf(all, m).date = bars[p + 1]
      BY <1>3, <1>6, <3>2
    <3>5. p + 1 \in 1 .. Len(bars) /\ q + 1 \in 1 .. Len(bars) /\ p + 1 < q + 1
      BY <1>1, <3>1, <3>2
    <3>6. bars[p + 1] < bars[q + 1]
      BY <3>5 DEF Ascending
    <3> QED
      BY <3>3, <3>4, <3>6
  <2>4. k < n => m < n
    OBVIOUS
  <2>5. ~(k < n) => \E q \in Nat : q < L /\ k = n + q
    BY <1>8
  <2>6. ~(m < n) => \E p \in Nat : p < L /\ m = n + p
    BY <1>8, <2>0
  <2> QED
    BY <2>1, <2>2, <2>3, <2>4, <2>5, <2>6
<1>11. \A k \in Nat : 2 * k + 1 <= Len(all) \/ 2 * k + 2 <= Len(all) => k < n + L
  BY <1>1, <1>4
<1>12. Whole(all)
  BY <1>9, <1>10, <1>11 DEF Whole
<1>13. Len(all) = 2 * (n + L)
  BY <1>1, <1>4
<1>14. ASSUME L >= 1 PROVE LastDate(all) = bars[L]
  <2>1. PICK m \in Nat : L = m + 1
    <3>1. L - 1 \in Nat /\ L = (L - 1) + 1
      BY <1>1, <1>14
    <3> QED
      BY <3>1
  <2>2. PICK k \in Nat : k = n + m
    OBVIOUS
  <2>3. Len(all) = 2 * k + 2 /\ m < L
    BY <1>13, <2>1, <2>2
  <2>4. LastDate(all) = HeadOf(all, k).date
    BY <1>4, <2>3, LastDates
  <2>5. HeadOf(all, k).date = bars[m + 1]
    BY <1>3, <1>6, <2>2, <2>3
  <2> QED
    BY <2>1, <2>4, <2>5
<1> QED
  BY <1>1, <1>4, <1>12, <1>13, <1>14

-----------------------------------------------------------------------------
(* The archives                                                            *)

\* What a reader of archives must know of one before it unpacks it.
Limits == {"zip_size", "entries", "declared", "total_declared"}

\* Whatever list of checks the zip readers use, its limits come before the
\* unpacking.
LEMMA LimitsComeFirst ==
  ASSUME NEW r \in DOMAIN ChecksOf
  PROVE  /\ DOMAIN ChecksOf[r] \subseteq Int
         /\ \A i, j \in DOMAIN ChecksOf[r] :
               ChecksOf[r][i] = "inflate" /\ ChecksOf[r][j] \in Limits => j < i
         /\ Skipped[r] \cap Limits = {}
<1>1. DOMAIN ChecksOf = {"history", "download", "stats", "block", "customer", "gbbq", "industry"}
  BY DEF ChecksOf
<1>2. Skipped[r] \cap Limits = {}
  BY <1>1 DEF Skipped, Limits
<1>3. DownloadChecks = HistoryChecks
  BY DEF HistoryChecks, DownloadChecks
<1>4. PICK A, B, D : /\ A = <<"zip_size", "bad_zip">>
                     /\ B = <<"entries", "no_dat", "duplicate", "encrypted", "declared", "inflate", "actual">>
                     /\ D = <<"report_size", "fields", "same_offset", "total">>
  OBVIOUS
<1>4a. PICK W : W = {"zip_size", "bad_zip", "entries", "no_dat", "duplicate", "encrypted", "declared",
                    "inflate", "actual", "report_size", "fields", "same_offset", "total"}
  OBVIOUS
<1>4b. A \in Seq(W) /\ Len(A) = 2
  BY <1>4, <1>4a
<1>4c. B \in Seq(W) /\ Len(B) = 7
  BY <1>4, <1>4a
<1>4d. D \in Seq(W) /\ Len(D) = 4
  BY <1>4, <1>4a
<1>5. CASE r = "history" \/ r = "download"
  <2>1. ChecksOf[r] = (A \o B) \o D
    BY <1>3, <1>4, <1>5 DEF ChecksOf, HistoryChecks, ZipChecks, DatChecks
  <2>2. PICK X : X = A \o B
    OBVIOUS
  <2>3. X \in Seq(W)
    BY <1>4b, <1>4c, <2>2
  <2>4. \A i \in 1 .. Len(A) + Len(B) : X[i] = IF i <= Len(A) THEN A[i] ELSE B[i - Len(A)]
    BY <1>4b, <1>4c, <2>2, Joined, Zenon
  <2>5. Len(X) = Len(A) + Len(B)
    BY <1>4b, <1>4c, <2>2, Joined, Zenon
  <2>6. PICK H : H = X \o D
    OBVIOUS
  <2>7. H \in Seq(W)
    BY <1>4d, <2>3, <2>6
  <2>7a. \A i \in 1 .. Len(X) + Len(D) : H[i] = IF i <= Len(X) THEN X[i] ELSE D[i - Len(X)]
    BY <1>4d, <2>3, <2>6, Joined, Zenon
  <2>7b. Len(H) = Len(X) + Len(D)
    BY <1>4d, <2>3, <2>6, Joined, Zenon
  <2>7c. Len(X) = 9 /\ Len(H) = 13
    BY <1>4b, <1>4c, <1>4d, <2>5, <2>7b
  <2>7d. DOMAIN H = 1 .. 13
    BY <2>7, <2>7c
  <2>8. \A i \in 1 .. 9 : X[i] = IF i <= 2 THEN A[i] ELSE B[i - 2]
    BY <1>4b, <1>4c, <2>4
  <2>9. \A i \in 1 .. 13 : H[i] = IF i <= 9 THEN X[i] ELSE D[i - 9]
    BY <1>4d, <2>7a, <2>7c
  <2>10. \A i \in 1 .. 13 : H[i] = "inflate" => i = 8
    BY <1>4, <2>8, <2>9
  <2>11. \A i \in 1 .. 13 : H[i] \in Limits => i < 8
    BY <1>4, <2>8, <2>9 DEF Limits
  <2>12. ChecksOf[r] = H
    BY <2>1, <2>2, <2>6
  <2> QED
    BY <1>2, <2>7d, <2>10, <2>11, <2>12
<1>6. CASE r = "stats"
  <2>1. ChecksOf[r] = StatsChecks
    BY <1>6 DEF ChecksOf
  <2> QED
    BY <1>2, <2>1 DEF Limits, StatsChecks
<1>7. CASE r = "block" \/ r = "customer" \/ r = "gbbq" \/ r = "industry"
  <2>1. \A i \in DOMAIN ChecksOf[r] : ChecksOf[r][i] # "inflate"
    BY <1>7 DEF ChecksOf, BlockChecks, CustomerChecks, GbbqChecks, IndustryChecks
  <2>2. DOMAIN ChecksOf[r] \subseteq Int
    BY <1>7 DEF ChecksOf, BlockChecks, CustomerChecks, GbbqChecks, IndustryChecks
  <2> QED
    BY <1>2, <2>1, <2>2
<1> QED
  BY <1>1, <1>5, <1>6, <1>7

LEMMA LoadsAreRefused ==
  ASSUME NEW r \in DOMAIN ChecksOf, NEW faults \in FaultsOf(r), LoadFile(r, faults)
  PROVE  ArchivesAreRefusedInTime'
<1>1. PICK C : C = ChecksOf[r]
  OBVIOUS
<1>2. PICK S : S = Stopped(r, faults)
  OBVIOUS
<1>3. S = { i \in DOMAIN C : C[i] \in faults }
  BY <1>1, <1>2 DEF Stopped
<1>4. faults \subseteq (ToSet(C) \ {"inflate"}) \cup Skipped[r]
  BY <1>1 DEF FaultsOf
<1>5. PICK U : U = { i \in DOMAIN C : C[i] = "inflate" }
  OBVIOUS
<1>6. loaded' = [reader |-> r, faults |-> faults,
                 inflated |-> \E i \in U : \A j \in S : i < j,
                 gave |-> IF S # {} THEN "error" ELSE IF faults = {} THEN "all" ELSE "rest"]
  BY <1>1, <1>2, <1>5, Zenon DEF LoadFile
<1>7. loaded'.faults = faults /\ loaded'.reader = r
  BY <1>6
<1>8. loaded'.inflated => \E i \in U : \A j \in S : i < j
  BY <1>6
<1>9. loaded'.gave \in {"all", "rest"} => S = {}
  BY <1>6
<1>10. ASSUME NEW i \in U, \A j \in S : i < j, NEW x \in faults, x \in Limits PROVE FALSE
  <2>1. x \in ToSet(C)
    BY <1>4, <1>10, LimitsComeFirst
  <2>2. PICK j \in DOMAIN C : x = C[j]
    BY <2>1 DEF ToSet
  <2>3. j \in S
    BY <1>3, <1>10, <2>2
  <2>4. i \in DOMAIN C /\ C[i] = "inflate"
    BY <1>5
  <2>5. j < i
    BY <1>1, <2>2, <2>4, <1>10, LimitsComeFirst, Zenon
  <2>6. i \in Int /\ j \in Int
    <3>1. DOMAIN C \subseteq Int
      BY <1>1, LimitsComeFirst
    <3> QED
      BY <3>1, <2>2, <2>4
  <2> QED
    BY <1>10, <2>3, <2>5, <2>6
<1>11. S = {} => faults \subseteq Skipped[r]
  <2> SUFFICES ASSUME S = {}, NEW x \in faults PROVE x \in Skipped[r]
    OBVIOUS
  <2>1. x \notin ToSet(C)
    BY <1>3 DEF ToSet
  <2> QED
    BY <1>4, <2>1
<1> QED
  BY <1>7, <1>8, <1>9, <1>10, <1>11 DEF ArchivesAreRefusedInTime, Limits

-----------------------------------------------------------------------------
(* The writers: invariant and steps                                        *)

FilePlaces == {"idle", "check", "last", "write", "sync", "done", "refused"}

WriterRecords == [at : FilePlaces, op : {"write", "append"}, bars : Seq(1 .. Dates), left : Seq(Cells)]

\* What a list of bars asks for is in the file, or the file is past it.
Covers(file, bars) == \A i \in 1 .. Len(bars) : bars[i] <= LastDate(file)

\* Where a writer is tells what the file and what it still has to write make
\* together.
WriterSound(t, file, safe, fmt) ==
    /\ Ascending(t.bars)
    /\ t.at # "write" => t.left = << >>
    /\ Whole(file \o t.left)
    /\ t.at = "last" => Even(file)
    /\ t.at \in {"write", "sync", "done"} =>
         Even(file \o t.left) /\ Covers(file \o t.left, t.bars)
    /\ (fmt = "daily" /\ t.at \notin {"write", "sync"}) => safe = Len(file)

FileTyped ==
    /\ format \in Formats
    /\ cells \in Seq(Cells)
    /\ durable \in 0 .. Len(cells)
    /\ writer \in [Writers -> WriterRecords]

OfflineInv ==
    /\ FileTyped
    /\ Whole(cells)
    /\ \A w \in Writers : WriterSound(writer[w], cells, durable, format)
    /\ ArchivesAreRefusedInTime

\* Nobody but one thread of one process writes the file: the bytes of two
\* appends may come in turns, and no lock of the program keeps them apart.
OneWriter == \A v, w \in Writers : v = w

LEMMA NothingLeft ==
  ASSUME NEW file \in Seq(Cells)
  PROVE  file \o << >> = file
BY ConcatEmptySeq, Zenon

\* With one writer, a step is told by the writer's new record.
LEMMA WriterMoves ==
  ASSUME OneWriter, OfflineInv, NEW w \in Writers, NEW k \in WriterRecords,
         writer' = [writer EXCEPT ![w] = k],
         NEW f \in Seq(Cells), cells' = f, NEW d \in 0 .. Len(f), durable' = d,
         format' = format, loaded' = loaded, Whole(f), WriterSound(k, f, d, format)
  PROVE  OfflineInv'
<1>1. writer' \in [Writers -> WriterRecords]
  BY DEF OfflineInv, FileTyped
<1>2. FileTyped'
  BY <1>1 DEF OfflineInv, FileTyped
<1>3. Whole(cells)'
  <2>1. Whole(cells')
    OBVIOUS
  <2> QED
    BY <2>1 DEF Whole, HeadOf, TailOf
<1>4. ASSUME NEW v \in Writers PROVE WriterSound(writer[v], cells, durable, format)'
  <2>1. writer'[v] = k
    BY DEF OneWriter, OfflineInv, FileTyped
  <2>2. WriterSound(writer'[v], cells', durable', format')
    BY <2>1
  <2> QED
    BY <2>2 DEF WriterSound, Ascending, Whole, HeadOf, TailOf, Even, Covers, LastDate, BarsRead
<1>5. ArchivesAreRefusedInTime'
  BY DEF OfflineInv, ArchivesAreRefusedInTime
<1> QED
  BY <1>2, <1>3, <1>4, <1>5 DEF OfflineInv

LEMMA WriterFacts ==
  ASSUME OfflineInv, NEW w \in Writers
  PROVE  /\ writer[w] \in WriterRecords
         /\ writer[w].at \in FilePlaces /\ writer[w].op \in {"write", "append"}
         /\ writer[w].bars \in Seq(1 .. Dates) /\ writer[w].left \in Seq(Cells)
         /\ WriterSound(writer[w], cells, durable, format)
<1>1. writer[w] \in WriterRecords
  BY DEF OfflineInv, FileTyped
<1> QED
  BY <1>1 DEF OfflineInv, WriterRecords

LEMMA InitOffline ==
  ASSUME OfflineAssumption, OfflineInit
  PROVE  OfflineInv
<1>1. Whole(<< >>)
  BY DEF Whole
<1>2. << >> \in Seq(Cells) /\ << >> \in Seq(1 .. Dates) /\ Len(<< >>) = 0
  OBVIOUS
<1>3. Idle \in WriterRecords
  BY <1>2 DEF Idle, WriterRecords, FilePlaces
<1>4. FileTyped
  BY <1>2, <1>3 DEF OfflineInit, FileTyped
<1>5. << >> \o << >> = << >>
  BY <1>2, NothingLeft
<1>6. \A w \in Writers : WriterSound(writer[w], cells, durable, format)
  <2> TAKE w \in Writers
  <2>1. writer[w] = Idle /\ cells = << >> /\ durable = 0
    BY DEF OfflineInit
  <2>2. Idle.at = "idle" /\ Idle.bars = << >> /\ Idle.left = << >>
    BY DEF Idle
  <2> QED
    BY <1>1, <1>2, <1>5, <2>1, <2>2 DEF WriterSound, Ascending
<1>7. ArchivesAreRefusedInTime
  BY DEF OfflineInit, ArchivesAreRefusedInTime
<1> QED
  BY <1>1, <1>4, <1>6, <1>7 DEF OfflineInv, OfflineInit

LEMMA StartWriteStep ==
  ASSUME OneWriter, OfflineAssumption, OfflineInv, NEW w \in Writers, NEW op \in {"write", "append"},
         NEW bars \in BarLists, StartWrite(w, op, bars)
  PROVE  OfflineInv'
<1>1. bars \in Seq(1 .. Dates) /\ Ascending(bars)
  BY DEF BarLists, Ascending, OfflineAssumption
<1>2. PICK k : k = [at |-> "check", op |-> op, bars |-> bars, left |-> << >>]
  OBVIOUS
<1>3. k \in WriterRecords
  BY <1>1, <1>2 DEF WriterRecords, FilePlaces
<1>4. k.at = "check" /\ k.bars = bars /\ k.left = << >>
  BY <1>2
<1>5. writer' = [writer EXCEPT ![w] = k] /\ UNCHANGED <<format, cells, durable, loaded>>
  BY <1>2, Zenon DEF StartWrite
<1>6. cells \in Seq(Cells) /\ durable \in 0 .. Len(cells) /\ Whole(cells)
  BY DEF OfflineInv, FileTyped
<1>7. cells \o << >> = cells
  BY <1>6, NothingLeft
<1>8. WriterSound(writer[w], cells, durable, format) /\ writer[w].at \in {"idle", "done", "refused"}
  BY WriterFacts DEF StartWrite
<1>9. WriterSound(k, cells, durable, format)
  BY <1>1, <1>4, <1>6, <1>7, <1>8 DEF WriterSound
<1> QED
  BY <1>3, <1>5, <1>6, <1>9, WriterMoves

LEMMA EnsureAlignedStep ==
  ASSUME OneWriter, OfflineAssumption, OfflineInv, NEW w \in Writers, EnsureAligned(w)
  PROVE  OfflineInv'
<1>1. PICK p : p = IF Len(cells) % RecordSize = 0 THEN "last" ELSE "refused"
  OBVIOUS
<1>2. PICK k : k = [writer[w] EXCEPT !.at = p]
  OBVIOUS
<1>3. writer' = [writer EXCEPT ![w] = k] /\ UNCHANGED <<format, cells, durable, loaded>>
  BY <1>1, <1>2, Zenon DEF EnsureAligned
<1>4. k \in WriterRecords /\ k.at = p /\ k.bars = writer[w].bars /\ k.left = writer[w].left
  BY <1>1, <1>2, WriterFacts DEF WriterRecords, FilePlaces
<1>5. cells \in Seq(Cells) /\ durable \in 0 .. Len(cells) /\ Whole(cells)
  BY DEF OfflineInv, FileTyped
<1>6. WriterSound(writer[w], cells, durable, format) /\ writer[w].at = "check"
  BY WriterFacts DEF EnsureAligned
<1>7. p \in {"last", "refused"} /\ (p = "last" => Len(cells) % 2 = 0)
  BY <1>1 DEF RecordSize
<1>8. p = "last" => Even(cells)
  <2> SUFFICES ASSUME p = "last" PROVE Even(cells)
    OBVIOUS
  <2>1. Len(cells) \in Nat /\ Len(cells) % 2 = 0
    BY <1>5, <1>7
  <2>2. Len(cells) \div 2 \in Nat /\ Len(cells) = 2 * (Len(cells) \div 2)
    BY <2>1
  <2> QED
    BY <2>2 DEF Even
<1>9. WriterSound(k, cells, durable, format)
  BY <1>4, <1>6, <1>7, <1>8 DEF WriterSound
<1> QED
  BY <1>3, <1>4, <1>5, <1>9, WriterMoves

LEMMA ReadLastDateStep ==
  ASSUME OneWriter, OfflineAssumption, OfflineInv, NEW w \in Writers, ReadLastDate(w)
  PROVE  OfflineInv'
<1>1. /\ cells \in Seq(Cells) /\ durable \in 0 .. Len(cells) /\ Whole(cells) /\ Dates \in Nat
      /\ WriterSound(writer[w], cells, durable, format) /\ writer[w].at = "last"
  BY WriterFacts DEF OfflineInv, FileTyped, OfflineAssumption, ReadLastDate
<1>2. PICK bars : bars = writer[w].bars /\ bars \in Seq(1 .. Dates) /\ Ascending(bars)
  BY <1>1, WriterFacts DEF WriterSound
<1>3. PICK last : last = LastDate(cells) /\ last \in 0 .. Dates
  BY <1>1, LastDateIsADate
<1>4. PICK new : new = NewBars(bars, last)
  OBVIOUS
<1>5. PICK n \in 0 .. Len(bars) :
         /\ \A i \in 1 .. Len(bars) : bars[i] > last <=> i > n
         /\ new \in Seq(1 .. Dates)
         /\ Len(new) = Len(bars) - n
         /\ \A i \in 1 .. Len(bars) - n : new[i] = bars[n + i]
  <2>1. last \in Nat
    BY <1>1, <1>3
  <2> QED
    BY <1>1, <1>2, <1>4, <2>1, NewBarsAre, Zenon
<1>6. Len(bars) \in Nat /\ n \in Nat /\ n <= Len(bars) /\ \A i \in 1 .. Len(bars) : bars[i] \in 1 .. Dates
  <2>1. Len(bars) \in Nat /\ \A i \in 1 .. Len(bars) : bars[i] \in 1 .. Dates
    <3>1. Dates \in Nat /\ bars \in Seq(1 .. Dates)
      BY <1>1, <1>2
    <3> QED
      BY <3>1
  <2>2. n \in Nat /\ n <= Len(bars)
    <3>1. n \in 0 .. Len(bars)
      OBVIOUS
    <3> QED
      BY <2>1, <3>1
  <2> QED
    BY <2>1, <2>2
<1>7. Ascending(new)
  <2>1. ASSUME NEW i \in 1 .. Len(new), NEW j \in 1 .. Len(new), i < j PROVE new[i] < new[j]
    <3>1. n + i \in 1 .. Len(bars) /\ n + j \in 1 .. Len(bars) /\ n + i < n + j
      BY <1>5, <1>6, <2>1
    <3>2. bars[n + i] < bars[n + j]
      BY <1>2, <3>1 DEF Ascending
    <3> QED
      BY <1>5, <3>2
  <2> QED
    BY <2>1 DEF Ascending
<1>8. \A i \in 1 .. Len(new) : new[i] > LastDate(cells)
  <2> TAKE i \in 1 .. Len(new)
  <2>1. n + i \in 1 .. Len(bars) /\ n + i > n
    BY <1>5, <1>6
  <2>2. bars[n + i] > last
    BY <1>5, <2>1
  <2> QED
    BY <1>3, <1>5, <2>2
<1>9. PICK m \in Nat : Len(cells) = 2 * m
  BY <1>1 DEF WriterSound, Even
<1>10. PICK E, all : E = Encoded(new) /\ all = cells \o E
  OBVIOUS
<1>11. /\ all \in Seq(Cells) /\ Len(all) = 2 * (m + Len(new)) /\ Whole(all)
       /\ Len(new) >= 1 => LastDate(all) = new[Len(new)]
  BY <1>1, <1>5, <1>7, <1>8, <1>9, <1>10, WholeBefore, ZenonT(40)
<1>12. E \in Seq(Cells) /\ Len(E) = 2 * Len(new)
  BY <1>1, <1>5, <1>10, EncodedRecords, Zenon
<1>13. Even(all)
  <2>1. Len(new) \in Nat
    BY <1>5
  <2>2. m + Len(new) \in Nat
    BY <2>1
  <2> QED
    BY <1>11, <2>2 DEF Even
<1>14. new = << >> => Len(new) = 0 /\ E = << >> /\ all = cells
  <2> HAVE new = << >>
  <2>1. Len(new) = 0
    OBVIOUS
  <2>2. Len(E) = 0
    BY <1>12, <2>1
  <2>3. E = << >>
    BY <1>12, <2>2
  <2> QED
    BY <1>1, <1>10, <2>1, <2>3, NothingLeft
<1>15. new # << >> => Len(new) >= 1
  BY <1>5
<1>16. Covers(all, bars)
  <2>1. CASE new = << >>
    <3>1. n = Len(bars)
      BY <1>5, <1>6, <1>14, <2>1
    <3>2. \A i \in 1 .. Len(bars) : bars[i] <= last
      BY <1>3, <1>5, <1>6, <3>1
    <3> QED
      BY <1>3, <1>14, <2>1, <3>2 DEF Covers
  <2>2. CASE new # << >>
    <3>1. Len(bars) - n \in 1 .. Len(bars) - n /\ n + (Len(bars) - n) = Len(bars) /\ Len(bars) \in 1 .. Len(bars)
      BY <1>5, <1>6, <1>15, <2>2
    <3>2. new[Len(bars) - n] = bars[Len(bars)]
      BY <1>5, <3>1
    <3>3. LastDate(all) = bars[Len(bars)]
      BY <1>5, <1>11, <1>15, <2>2, <3>2
    <3>4. \A i \in 1 .. Len(bars) : bars[i] <= bars[Len(bars)]
      <4> TAKE i \in 1 .. Len(bars)
      <4>1. i < Len(bars) => bars[i] < bars[Len(bars)]
        BY <1>2, <3>1 DEF Ascending
      <4> QED
        BY <1>6, <3>1, <4>1
    <3> QED
      BY <3>3, <3>4 DEF Covers
  <2> QED
    BY <2>1, <2>2
<1>17. PICK k : k = [writer[w] EXCEPT !.left = E, !.at = IF new = << >> THEN "done" ELSE "write"]
  OBVIOUS
<1>18. writer' = [writer EXCEPT ![w] = k] /\ UNCHANGED <<format, cells, durable, loaded>>
  BY <1>2, <1>3, <1>4, <1>10, <1>17, Zenon DEF ReadLastDate
<1>19. k.left = E /\ k.bars = bars /\ k.at = (IF new = << >> THEN "done" ELSE "write") /\ k \in WriterRecords
  BY <1>2, <1>12, <1>17, WriterFacts DEF WriterRecords, FilePlaces
<1>20. WriterSound(k, cells, durable, format)
  BY <1>1, <1>2, <1>10, <1>11, <1>13, <1>14, <1>16, <1>19 DEF WriterSound
<1> QED
  BY <1>1, <1>18, <1>19, <1>20, WriterMoves

LEMMA WriteSomeStep ==
  ASSUME OneWriter, OfflineAssumption, OfflineInv, NEW w \in Writers, WriteSome(w)
  PROVE  OfflineInv'
<1>1. /\ cells \in Seq(Cells) /\ durable \in 0 .. Len(cells) /\ Whole(cells) /\ format \in Formats
      /\ WriterSound(writer[w], cells, durable, format) /\ writer[w].at = "write"
  BY WriterFacts DEF OfflineInv, FileTyped, WriteSome
<1>2. PICK left : left = writer[w].left /\ left \in Seq(Cells)
  BY WriterFacts
<1>3. PICK n \in 1 .. Len(left) :
         /\ cells' = cells \o SubSeq(left, 1, n)
         /\ writer' = [writer EXCEPT ![w] =
                         [@ EXCEPT !.left = SubSeq(left, n + 1, Len(left)),
                                   !.at = IF n < Len(left) THEN "write"
                                          ELSE IF format = "daily" THEN "sync" ELSE "done"]]
  BY <1>2, Zenon DEF WriteSome
<1>4. UNCHANGED <<format, durable, loaded>>
  BY DEF WriteSome
<1>5. PICK a, b : a = SubSeq(left, 1, n) /\ b = SubSeq(left, n + 1, Len(left))
  OBVIOUS
<1>6. /\ a \in Seq(Cells) /\ b \in Seq(Cells) /\ Len(a) = n
      /\ (n = Len(left) => b = << >>) /\ a \o b = left
  <2>1. Len(left) \in Nat /\ n \in Nat /\ n >= 1 /\ n <= Len(left) /\ \A i \in 1 .. Len(left) : left[i] \in Cells
    BY <1>2
  <2>2. \A i \in 1 .. n : left[i] \in Cells
    BY <2>1
  <2>3. a \in Seq(Cells)
    BY <1>5, <2>1, <2>2, SubSeqProperties
  <2>4. Len(a) = n
    <3>1. Len(a) = IF 1 <= n THEN n - 1 + 1 ELSE 0
      BY <1>5, <2>1, <2>2, SubSeqProperties
    <3> QED
      BY <2>1, <3>1
  <2>5. \A i \in n + 1 .. Len(left) : left[i] \in Cells
    BY <2>1
  <2>6. n + 1 \in Int /\ Len(left) \in Int
    BY <2>1
  <2>7. b \in Seq(Cells)
    BY <1>5, <2>5, <2>6, SubSeqProperties
  <2>8. n = Len(left) => b = << >>
    <3> HAVE n = Len(left)
    <3>1. Len(b) = IF n + 1 <= Len(left) THEN Len(left) - (n + 1) + 1 ELSE 0
      BY <1>5, <2>5, <2>6, SubSeqProperties
    <3>2. Len(b) = 0
      BY <2>1, <3>1
    <3> QED
      BY <2>7, <3>2
  <2>9. a \o b = SubSeq(left, 1, Len(left))
    BY <1>2, <1>5, <2>1, ConcatAdjacentSubSeq
  <2>10. SubSeq(left, 1, Len(left)) = left
    BY <1>2, SubSeqFull
  <2> QED
    BY <2>3, <2>4, <2>7, <2>8, <2>9, <2>10
<1>7. PICK f, all : f = cells \o a /\ all = cells \o left
  OBVIOUS
<1>8. f \in Seq(Cells) /\ all \in Seq(Cells) /\ Len(f) = Len(cells) + n
  <2>1. cells \in Seq(Cells) /\ left \in Seq(Cells) /\ a \in Seq(Cells) /\ Len(a) = n
    BY <1>1, <1>2, <1>6
  <2>2. f \in Seq(Cells) /\ all \in Seq(Cells)
    BY <1>7, <2>1
  <2>3. Len(f) = Len(cells) + Len(a)
    BY <1>7, <2>1, Joined, Zenon
  <2> QED
    BY <2>1, <2>2, <2>3
<1>9. f \o b = all
  <2>1. (cells \o a) \o b = cells \o (a \o b)
    <3>1. cells \in Seq(Cells) /\ a \in Seq(Cells) /\ b \in Seq(Cells)
      BY <1>1, <1>6
    <3> QED
      BY <3>1, ConcatAssociative, SMTT(30)
  <2> QED
    BY <1>6, <1>7, <2>1
<1>10. Whole(all) /\ Even(all) /\ Covers(all, writer[w].bars)
  BY <1>1, <1>2, <1>7 DEF WriterSound
<1>11. Whole(f)
  <2>1. Len(f) <= Len(all) /\ \A i \in 1 .. Len(f) : f[i] = all[i]
    <3>0. all = f \o b /\ f \in Seq(Cells) /\ b \in Seq(Cells)
      BY <1>6, <1>8, <1>9
    <3>1. \A i \in 1 .. Len(f) + Len(b) : all[i] = IF i <= Len(f) THEN f[i] ELSE b[i - Len(f)]
      BY <3>0, Joined, Zenon
    <3>2. Len(all) = Len(f) + Len(b)
      BY <3>0, Joined, Zenon
    <3>3. Len(f) \in Nat /\ Len(b) \in Nat
      BY <1>6, <1>8
    <3> QED
      BY <3>1, <3>2, <3>3
  <2> QED
    BY <1>8, <1>10, <2>1, WholePrefix
<1>12. PICK p : p = IF n < Len(left) THEN "write" ELSE IF format = "daily" THEN "sync" ELSE "done"
  OBVIOUS
<1>13. PICK k : k = [writer[w] EXCEPT !.left = b, !.at = p]
  OBVIOUS
<1>14. writer' = [writer EXCEPT ![w] = k]
  BY <1>3, <1>5, <1>12, <1>13, Zenon
<1>15. k \in WriterRecords /\ k.at = p /\ k.left = b /\ k.bars = writer[w].bars
  BY <1>6, <1>12, <1>13, WriterFacts DEF WriterRecords, FilePlaces
<1>16. p \in {"write", "sync", "done"} /\ (p # "write" => n = Len(left)) /\ (p = "done" => format # "daily")
  <2>1. n <= Len(left) /\ n \in Nat /\ Len(left) \in Nat
    BY <1>2
  <2> QED
    BY <1>12, <2>1
<1>17. durable \in 0 .. Len(f)
  BY <1>1, <1>8
<1>18. WriterSound(k, f, durable, format)
  BY <1>1, <1>6, <1>9, <1>10, <1>15, <1>16 DEF WriterSound
<1>19. cells' = f
  BY <1>3, <1>5, <1>7
<1> QED
  BY <1>4, <1>8, <1>11, <1>14, <1>15, <1>17, <1>18, <1>19, WriterMoves

LEMMA SyncStep ==
  ASSUME OneWriter, OfflineAssumption, OfflineInv, NEW w \in Writers, Sync(w)
  PROVE  OfflineInv'
<1>1. /\ cells \in Seq(Cells) /\ Whole(cells) /\ WriterSound(writer[w], cells, durable, format)
      /\ writer[w].at = "sync"
  BY WriterFacts DEF OfflineInv, FileTyped, Sync
<1>2. PICK k : k = [writer[w] EXCEPT !.at = "done"]
  OBVIOUS
<1>3. writer' = [writer EXCEPT ![w] = k] /\ UNCHANGED <<format, cells, loaded>>
  BY <1>2, Zenon DEF Sync
<1>4. durable' = Len(cells) /\ Len(cells) \in 0 .. Len(cells)
  BY <1>1 DEF Sync
<1>5. k \in WriterRecords /\ k.at = "done" /\ k.left = writer[w].left /\ k.bars = writer[w].bars
  BY <1>2, WriterFacts DEF WriterRecords, FilePlaces
<1>6. WriterSound(k, cells, Len(cells), format)
  BY <1>1, <1>5 DEF WriterSound
<1> QED
  BY <1>1, <1>3, <1>4, <1>5, <1>6, WriterMoves

\* A file cut short is still one of whole records.
LEMMA CutShort ==
  ASSUME OfflineInv, NEW n \in 0 .. Len(cells), NEW f, f = SubSeq(cells, 1, n)
  PROVE  f \in Seq(Cells) /\ Len(f) = n /\ Whole(f)
<1>1. cells \in Seq(Cells) /\ Whole(cells)
  BY DEF OfflineInv, FileTyped
<1>2. Len(cells) \in Nat /\ \A i \in 1 .. Len(cells) : cells[i] \in Cells
  BY <1>1
<1>3. n \in Int /\ \A i \in 1 .. n : cells[i] \in Cells
  BY <1>2
<1>4. f \in Seq(Cells)
  BY <1>3, SubSeqProperties
<1>5. Len(f) = n
  <2>1. Len(f) = IF 1 <= n THEN n - 1 + 1 ELSE 0
    BY <1>3, SubSeqProperties
  <2> QED
    BY <1>2, <2>1
<1>6. \A i \in 1 .. n : f[i] = cells[i]
  <2>1. \A i \in 1 .. n - 1 + 1 : f[i] = cells[1 + i - 1]
    BY <1>3, SubSeqProperties
  <2> QED
    BY <1>3, <2>1
<1>7. Whole(f)
  <2>1. Len(f) <= Len(cells) /\ \A i \in 1 .. Len(f) : f[i] = cells[i]
    BY <1>2, <1>5, <1>6
  <2> QED
    BY <1>1, <1>4, <2>1, WholePrefix
<1> QED
  BY <1>4, <1>5, <1>7

LEMMA CrashStep ==
  ASSUME OfflineAssumption, OfflineInv, Crash
  PROVE  OfflineInv'
<1>1. PICK n \in durable .. Len(cells) : cells' = SubSeq(cells, 1, n) /\ durable' = n
  BY DEF Crash
<1>2. writer' = [w \in Writers |-> Idle] /\ UNCHANGED <<format, loaded>>
  BY DEF Crash
<1>3. n \in 0 .. Len(cells)
  BY DEF OfflineInv, FileTyped
<1>4. PICK f : f = SubSeq(cells, 1, n)
  OBVIOUS
<1>5. f \in Seq(Cells) /\ Len(f) = n /\ Whole(f)
  BY <1>3, <1>4, CutShort
<1>6. Idle \in WriterRecords
  BY DEF Idle, WriterRecords, FilePlaces
<1>7. FileTyped'
  BY <1>1, <1>2, <1>3, <1>4, <1>5, <1>6 DEF OfflineInv, FileTyped
<1>8. Whole(cells)'
  <2>1. Whole(cells')
    BY <1>1, <1>4, <1>5
  <2> QED
    BY <2>1 DEF Whole, HeadOf, TailOf
<1>9. WriterSound(Idle, f, n, format)
  <2>1. Idle.at = "idle" /\ Idle.bars = << >> /\ Idle.left = << >>
    BY DEF Idle
  <2>2. f \o << >> = f
    BY <1>5, NothingLeft
  <2> QED
    BY <1>5, <2>1, <2>2 DEF WriterSound, Ascending
<1>10. ASSUME NEW w \in Writers PROVE WriterSound(writer[w], cells, durable, format)'
  <2>1. WriterSound(writer'[w], cells', durable', format')
    BY <1>1, <1>2, <1>4, <1>9
  <2> QED
    BY <2>1 DEF WriterSound, Ascending, Whole, HeadOf, TailOf, Even, Covers, LastDate, BarsRead
<1>11. ArchivesAreRefusedInTime'
  BY <1>2 DEF OfflineInv, ArchivesAreRefusedInTime
<1> QED
  BY <1>7, <1>8, <1>10, <1>11 DEF OfflineInv

LEMMA TruncateTailStep ==
  ASSUME OfflineAssumption, OfflineInv, TruncateTail
  PROVE  OfflineInv'
<1>1. cells \in Seq(Cells) /\ durable \in 0 .. Len(cells) /\ Len(cells) % 2 # 0
  BY DEF OfflineInv, FileTyped, TruncateTail, RecordSize
<1>2. PICK n : n = Len(cells) - 1
  OBVIOUS
<1>3. n \in 0 .. Len(cells) /\ Len(cells) \in Nat
  BY <1>1, <1>2
<1>4. PICK f, d : f = SubSeq(cells, 1, n) /\ d = IF durable > n THEN n ELSE durable
  OBVIOUS
<1>5. f \in Seq(Cells) /\ Len(f) = n /\ Whole(f)
  BY <1>3, <1>4, CutShort
<1>6. cells' = f /\ durable' = d /\ UNCHANGED <<format, writer, loaded>>
  BY <1>2, <1>4 DEF TruncateTail
<1>7. d \in 0 .. Len(f)
  BY <1>1, <1>3, <1>4, <1>5
<1>8. FileTyped'
  BY <1>5, <1>6, <1>7 DEF OfflineInv, FileTyped
<1>9. Whole(cells)'
  <2>1. Whole(cells')
    BY <1>5, <1>6
  <2> QED
    BY <2>1 DEF Whole, HeadOf, TailOf
<1>10. ASSUME NEW w \in Writers PROVE WriterSound(writer[w], cells, durable, format)'
  <2>1. WriterSound(writer[w], cells, durable, format) /\ writer[w].at \in {"idle", "done", "refused"}
    BY WriterFacts, <1>10 DEF TruncateTail
  <2>2. writer[w].at # "done"
    <3> SUFFICES ASSUME writer[w].at = "done" PROVE FALSE
      OBVIOUS
    <3>1. writer[w].left = << >> /\ Even(cells \o writer[w].left)
      BY <2>1 DEF WriterSound
    <3>2. Even(cells)
      BY <1>1, <3>1, NothingLeft
    <3>3. PICK m \in Nat : Len(cells) = 2 * m
      BY <3>2 DEF Even
    <3>4. (2 * m) % 2 = 0
      OBVIOUS
    <3> QED
      BY <1>1, <3>3, <3>4
  <2>3. f \o << >> = f
    BY <1>5, NothingLeft
  <2>4. format = "daily" => d = Len(f)
    BY <1>1, <1>3, <1>4, <1>5, <2>1 DEF WriterSound
  <2>5. WriterSound(writer[w], f, d, format)
    BY <1>5, <2>1, <2>2, <2>3, <2>4 DEF WriterSound
  <2>6. WriterSound(writer'[w], cells', durable', format')
    BY <1>6, <2>5
  <2> QED
    BY <2>6 DEF WriterSound, Ascending, Whole, HeadOf, TailOf, Even, Covers, LastDate, BarsRead
<1>11. ArchivesAreRefusedInTime'
  BY <1>6 DEF OfflineInv, ArchivesAreRefusedInTime
<1> QED
  BY <1>8, <1>9, <1>10, <1>11 DEF OfflineInv

\* What the bar file is does not depend on the rest.
LEMMA FileStays ==
  ASSUME OfflineInv, UNCHANGED <<format, cells, durable, writer>>
  PROVE  FileTyped' /\ Whole(cells)' /\ \A w \in Writers : WriterSound(writer[w], cells, durable, format)'
BY ZenonT(40) DEF OfflineInv, FileTyped, WriterSound, Ascending, Whole, HeadOf, TailOf, Even, Covers, LastDate, BarsRead

LEMMA OfflineStep ==
  ASSUME OneWriter, OfflineAssumption, OfflineInv, [OfflineNext]_offlineVars
  PROVE  OfflineInv'
<1>1. CASE \E w \in Writers, op \in {"write", "append"}, bars \in BarLists : StartWrite(w, op, bars)
  BY <1>1, StartWriteStep
<1>2. CASE \E w \in Writers : EnsureAligned(w) \/ ReadLastDate(w) \/ WriteSome(w) \/ Sync(w)
  BY <1>2, EnsureAlignedStep, ReadLastDateStep, WriteSomeStep, SyncStep
<1>3. CASE Crash
  BY <1>3, CrashStep
<1>4. CASE TruncateTail
  BY <1>4, TruncateTailStep
<1>5. CASE \E r \in DOMAIN ChecksOf : \E faults \in FaultsOf(r) : LoadFile(r, faults)
  <2>1. PICK r \in DOMAIN ChecksOf : \E faults \in FaultsOf(r) : LoadFile(r, faults)
    BY <1>5
  <2>2. PICK faults \in FaultsOf(r) : LoadFile(r, faults)
    BY <2>1
  <2>3. UNCHANGED <<format, cells, durable, writer>>
    BY <2>2 DEF LoadFile
  <2>4. ArchivesAreRefusedInTime'
    BY <2>2, LoadsAreRefused
  <2> QED
    BY <2>3, <2>4, FileStays DEF OfflineInv
<1>6. CASE UNCHANGED offlineVars
  <2>1. UNCHANGED <<format, cells, durable, writer>> /\ loaded' = loaded
    BY <1>6 DEF offlineVars
  <2>2. ArchivesAreRefusedInTime'
    BY <2>1 DEF OfflineInv, ArchivesAreRefusedInTime
  <2> QED
    BY <2>1, <2>2, FileStays DEF OfflineInv
<1> QED
  BY <1>1, <1>2, <1>3, <1>4, <1>5, <1>6 DEF OfflineNext

\* A file of whole records shows a reader whole records.
LEMMA WholeIsRead ==
  ASSUME OfflineInv
  PROVE  ReadersSeeWholeRecords
<1>1. cells \in Seq(Cells) /\ Whole(cells) /\ Len(cells) \in Nat
  BY DEF OfflineInv, FileTyped
<1>2. PICK N : N = Len(cells) \div 2
  OBVIOUS
<1>3. N \in Nat /\ 2 * N <= Len(cells)
  BY <1>1, <1>2
<1>4. PICK B : B = BarsRead(cells)
  OBVIOUS
<1>5. B = [i \in 1 .. N |-> << cells[2 * i - 1], cells[2 * i] >>]
  BY <1>2, <1>4 DEF BarsRead, RecordSize
<1>6. ASSUME NEW i \in 1 .. N PROVE B[i] = << HeadOf(cells, i - 1), TailOf(cells, i - 1) >>
  <2>1. 2 * (i - 1) + 1 = 2 * i - 1 /\ 2 * (i - 1) + 2 = 2 * i
    BY <1>3
  <2> QED
    BY <1>5, <2>1 DEF HeadOf, TailOf
<1>7. ASSUME NEW i \in 1 .. N PROVE B[i] = Record(B[i][1].date)
  <2>1. PICK n \in Nat : n = i - 1 /\ 2 * n + 1 <= Len(cells) /\ 2 * n + 2 <= Len(cells)
    BY <1>3
  <2>2. PICK h, t : h = HeadOf(cells, n) /\ t = TailOf(cells, n)
    OBVIOUS
  <2>3. h.half = 1 /\ t.half = 2 /\ t.date = h.date
    BY <1>1, <2>1, <2>2 DEF Whole
  <2>4. h \in Cells /\ t \in Cells
    BY <1>1, <2>1, <2>2 DEF HeadOf, TailOf
  <2>5. h = [date |-> h.date, half |-> 1] /\ t = [date |-> h.date, half |-> 2]
    BY <2>3, <2>4 DEF Cells
  <2>6. B[i] = << h, t >>
    BY <1>6, <2>1, <2>2
  <2> QED
    BY <2>5, <2>6 DEF Record
<1>8. ASSUME NEW i \in 1 .. N, NEW j \in 1 .. N, i < j PROVE B[i][1].date < B[j][1].date
  <2>1. PICK n, m \in Nat : n = j - 1 /\ m = i - 1 /\ m < n /\ 2 * n + 1 <= Len(cells)
    BY <1>3, <1>8
  <2>2. HeadOf(cells, m).date < HeadOf(cells, n).date
    BY <1>1, <2>1 DEF Whole
  <2> QED
    BY <1>6, <2>1, <2>2
<1>9. DOMAIN B = 1 .. N
  BY <1>5
<1>10. /\ \A i \in DOMAIN B : B[i] = Record(B[i][1].date)
       /\ \A i, j \in DOMAIN B : i < j => B[i][1].date < B[j][1].date
  BY <1>7, <1>8, <1>9
<1> QED
  BY <1>4, <1>10 DEF ReadersSeeWholeRecords

LEMMA WrittenStays ==
  ASSUME OfflineInv
  PROVE  WrittenDailyBarsSurvive
<1> SUFFICES ASSUME NEW w \in Writers, format = "daily", writer[w].at = "done"
             PROVE  /\ durable = Len(cells)
                    /\ \A i \in DOMAIN writer[w].bars : writer[w].bars[i] <= LastDate(cells)
  BY DEF WrittenDailyBarsSurvive
<1>1. WriterSound(writer[w], cells, durable, format) /\ cells \in Seq(Cells) /\ writer[w].bars \in Seq(1 .. Dates)
  BY WriterFacts DEF OfflineInv, FileTyped
<1>2. cells \o writer[w].left = cells
  BY <1>1, NothingLeft DEF WriterSound
<1>3. Covers(cells, writer[w].bars)
  BY <1>1, <1>2 DEF WriterSound
<1>4. DOMAIN writer[w].bars = 1 .. Len(writer[w].bars)
  BY <1>1
<1> QED
  BY <1>1, <1>3, <1>4 DEF WriterSound, Covers

\* With one writer at a time, however writes are cut short and whatever a crash
\* leaves of them, readers of a bar file see records that were written, each
\* date once and in order, and a daily bar that was reported is there
\* (offline/vipdoc.py); and no archive is unpacked before its limits are checked
\* (stats.py, financial.py).
THEOREM FilesStayWhole ==
    OneWriter /\ OfflineAssumption /\ OfflineSpec =>
      [](ReadersSeeWholeRecords /\ WrittenDailyBarsSurvive /\ ArchivesAreRefusedInTime)
<1>1. OfflineAssumption /\ OfflineInit => OfflineInv
  BY InitOffline
<1>2. OneWriter /\ OfflineAssumption /\ OfflineInv /\ [OfflineNext]_offlineVars => OfflineInv'
  BY OfflineStep
<1>3. OfflineInv => ReadersSeeWholeRecords /\ WrittenDailyBarsSurvive /\ ArchivesAreRefusedInTime
  BY WholeIsRead, WrittenStays DEF OfflineInv
<1>4. OfflineAssumption => []OfflineAssumption
  OBVIOUS
<1>5. OneWriter => []OneWriter
  OBVIOUS
<1> QED
  BY <1>1, <1>2, <1>3, <1>4, <1>5, PTL DEF OfflineSpec
===============================================================================
