------------------------------- MODULE Paging -------------------------------
(***************************************************************************)
(* Reading a whole listing page by page: the loops of the 7709 APIs (bars, *)
(* trades, delisted bars, codes, server files) and of MacClient.  What     *)
(* they read is alive: a feed of ticks or bars grows between two pages,    *)
(* and offsets count from its newest item.                                 *)
(*                                                                         *)
(* Items are numbered from 1, oldest or first, to size.  A loop is the     *)
(* record of what sets it apart from the others.                           *)
(***************************************************************************)
EXTENDS Integers, Sequences, FiniteSets, SequencesExt

CONSTANTS
    PageSize,     \* items asked for in one request
    MaxSize,      \* bound: items of a listing
    MaxPages      \* max_pages

PagingAssumption ==
    PageSize \in Nat \ {0} /\ MaxSize \in Nat /\ MaxPages \in Nat \ {0}

VARIABLES
    loop,         \* which loop runs
    wanted,       \* the items asked for by count, or the size of the file
    size,         \* items of the listing now
    atStart,      \* ... and when the loop began
    host,         \* the server that answers
    read          \* progress: offset, pages, items read, first host, result

pagingVars == <<loop, wanted, size, atStart, host, read>>

\* name; from: which end offset 0 is; until: what ends the loop - an empty
\* page, a short one, or both ("later": a short page, but not the first);
\* join: where a page goes; bound: what else ends it.
Loop(name, from, until, join, bound) ==
    [name |-> name, from |-> from, until |-> until, join |-> join, bound |-> bound]

\* BarApi.get with all_pages, TradeApi._all, the bulk readers over pages of
\* columns, and _find_opening_match, which only looks for the first item.
BarsLoop        == Loop("bars", "newest", "empty", "front", "pages")
TicksLoop       == Loop("ticks", "newest", "empty", "front", "pages")
TodayBulkLoop   == Loop("today bulk", "newest", "empty", "front", "pages")
HistoryBulkLoop == Loop("history bulk", "newest", "empty", "front", "pages")
OpeningLoop     == Loop("opening", "newest", "empty", "look", "pages")
\* DelistedBarApi.get appends and sorts by time at the end.
DelistedLoop    == Loop("delisted", "newest", "empty", "sort", "pages")
\* CodeApi.all has no limit of its own.
CodesLoop       == Loop("codes", "first", "empty", "back", "none")
\* MacClient: bars, ticks, boards, members and quotes of a category.
MacBarsLoop     == Loop("mac bars", "newest", "short", "front", "count")
MacTicksLoop    == Loop("mac ticks", "newest", "later", "back", "count")
BoardListLoop   == Loop("board list", "first", "later", "back", "count")
MembersLoop     == Loop("members", "first", "short", "back", "count")
QuotesListLoop  == Loop("quotes list", "first", "short", "back", "count")
\* ResourceApi.download_file on a pinned connection, MacClient.download_file.
FileLoop        == Loop("file", "first", "short", "back", "host")
MacFileLoop     == Loop("mac file", "first", "short", "back", "count")

AllLoops == {BarsLoop, TicksLoop, TodayBulkLoop, HistoryBulkLoop, OpeningLoop, DelistedLoop,
             CodesLoop, MacBarsLoop, MacTicksLoop, BoardListLoop, MembersLoop, QuotesListLoop,
             FileLoop, MacFileLoop}

\* A feed that goes on while it is read.
Live == {BarsLoop, TicksLoop, OpeningLoop, MacBarsLoop, MacTicksLoop, HistoryBulkLoop}

Untouched == [offset |-> 0, pages |-> 0, host |-> 0, items |-> <<>>, done |-> "no"]

PagingTypeOK ==
    /\ loop \in AllLoops
    /\ {wanted, size, atStart} \subseteq 0 .. MaxSize
    /\ host \in {1, 2}
    /\ read.offset \in 0 .. 2 * MaxSize
    /\ read.pages \in 0 .. MaxPages + MaxSize
    /\ ToSet(read.items) \subseteq 1 .. MaxSize
    /\ read.done \in {"no", "yes", "error"}

PagingInit ==
    /\ loop \in AllLoops
    /\ size \in 0 .. MaxSize
    /\ atStart = size
    /\ wanted \in (IF loop = MacFileLoop THEN {size}
                   ELSE IF loop.bound = "count" THEN 0 .. MaxSize ELSE {0})
    /\ host = 1
    /\ read = Untouched

-----------------------------------------------------------------------------

Asked == IF loop.bound = "count" /\ loop # MacFileLoop
         THEN (IF wanted - Len(read.items) < PageSize THEN wanted - Len(read.items) ELSE PageSize)
         ELSE PageSize

Left == IF size > read.offset THEN size - read.offset ELSE 0

\* What the server sends: a full page while there is one.  A loop that waits
\* for an empty page does not care when it sends less.
PageSizes ==
    LET most == IF Asked < Left THEN Asked ELSE Left
    IN  IF loop.until = "empty" /\ most > 0 THEN 1 .. most ELSE {most}

\* A page is in the order of the listing, at either end.
Page(n) ==
    LET before == IF loop.from = "newest" THEN size - read.offset - n ELSE read.offset
    IN  [i \in 1 .. n |-> before + i]

Join(items, page) ==
    CASE loop.join = "front" -> page \o items
      [] loop.join = "look"  -> SelectSeq(page, LAMBDA item : item = 1)
      [] OTHER               -> items \o page

\* Mutant of EndsWith: every loop takes a short page for the last one.
EndsWithAnyShort(n) == n < Asked \/ (loop.join = "look" /\ 1 \in ToSet(Page(n)))

\* The page that ends the loop.
EndsWith(n) ==
    \/ n = 0
    \/ loop.join = "look" /\ 1 \in ToSet(Page(n))
    \/ loop.until = "short" /\ n < Asked
    \/ loop.until = "later" /\ n < Asked /\ read.pages > 0

\* The condition of the while, before a page is asked for; the first page of
\* BoardListLoop and MacTicksLoop is asked for in any case.
Satisfied ==
    /\ loop.bound = "count"
    /\ loop.until = "later" => read.pages > 0
    /\ IF loop = MacFileLoop THEN read.offset >= wanted ELSE Len(read.items) >= wanted

\* The end: the delisted bars are sorted, by time.
Finished(items) == IF loop.join = "sort" THEN SetToSortSeq(ToSet(items), <) ELSE items

Enough ==
    /\ read.done = "no"
    /\ Satisfied
    /\ read' = [read EXCEPT !.done = "yes"]
    /\ UNCHANGED <<loop, wanted, size, atStart, host>>

\* execute_trade_batch of the native transports takes 0x0FC6 only; today's
\* ticks are 0x0FC5.
Supported == loop # TodayBulkLoop

TakePage ==
    /\ read.done = "no"
    /\ ~Satisfied
    /\ Supported
    /\ \E n \in PageSizes :
          read' = [offset |-> read.offset + n,
                   pages |-> read.pages + 1,
                   host |-> IF read.host = 0 THEN host ELSE read.host,
                   items |-> IF EndsWith(n) THEN Finished(Join(read.items, Page(n)))
                             ELSE Join(read.items, Page(n)),
                   done |-> IF loop.bound = "host" /\ read.host \notin {0, host} THEN "error"
                            ELSE IF EndsWith(n) THEN "yes"
                            ELSE IF loop.bound = "pages" /\ read.pages + 1 >= MaxPages THEN "error"
                            ELSE "no"]
    /\ UNCHANGED <<loop, wanted, size, atStart, host>>

Refused ==
    /\ read.done = "no"
    /\ ~Supported
    /\ read' = [read EXCEPT !.done = "error"]
    /\ UNCHANGED <<loop, wanted, size, atStart, host>>

\* A trade happens; a bar begins.
Grow ==
    /\ loop \in Live
    /\ read.done = "no"
    /\ size < MaxSize
    /\ size' = size + 1
    /\ UNCHANGED <<loop, wanted, atStart, host, read>>

\* The connection is lost between two pages and goes on with another server.
\* MacClient does not notice, download_file of ResourceApi does.
OtherHost ==
    /\ loop.bound = "host"
    /\ read.done = "no"
    /\ host = 1
    /\ host' = 2
    /\ UNCHANGED <<loop, wanted, size, atStart, read>>

PagingNext == Enough \/ TakePage \/ Refused \/ Grow \/ OtherHost

PagingSpec == PagingInit /\ [][PagingNext]_pagingVars

-----------------------------------------------------------------------------

\* What a loop promises of the listing as it was at the start.
Promised ==
    CASE loop.join = "look" -> {1} \cap 1 .. atStart
      [] loop.bound = "count" /\ loop.from = "newest" ->
            (IF wanted > atStart THEN 1 ELSE atStart - wanted + 1) .. atStart
      [] loop.bound = "count" -> 1 .. (IF wanted < atStart THEN wanted ELSE atStart)
      [] OTHER -> 1 .. atStart

\* A listing that is read to its end lacks nothing it had when the reading
\* began, however it grew meanwhile and however small the pages were.  Bars
\* and ticks counted from the newest may push the oldest ones out.
NothingIsSkipped ==
    read.done = "yes" =>
        IF loop.bound = "count" /\ loop \in Live
        THEN Cardinality(Promised) <= Len(read.items)
        ELSE Promised \subseteq ToSet(read.items)

\* Pages are joined in the order of the listing: where an item is followed by
\* an earlier one, the feed has grown and the later one is there twice.
JoinedInOrder ==
    read.done = "yes" /\ loop # MacTicksLoop =>
        \A i \in 1 .. Len(read.items) - 1 :
            read.items[i + 1] = read.items[i] + 1 \/ size > atStart

\* "today_batch() returns the current page": on the transports of the package.
TodayBatchAnswers == loop = TodayBulkLoop => read.done # "error" \/ read.pages >= MaxPages

=============================================================================
