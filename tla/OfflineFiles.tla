--------------------------- MODULE OfflineFiles ---------------------------
(***************************************************************************)
(* The files the program keeps of a TDX installation (eltdx/offline, and   *)
(* the archives of stats.py and financial.py).                             *)
(*                                                                         *)
(* A bar file is a plain sequence of records of one fixed length: nothing  *)
(* marks where one starts.  Here a record is two cells, its head with the  *)
(* date and its tail, so that a write cut short by a crash leaves an odd   *)
(* number of cells.  Readers walk the whole records and ignore the rest;   *)
(* writers must not append behind it, for every later record would then be *)
(* read out of step with no error.                                         *)
(*                                                                         *)
(* The archives are read through a list of checks.  What matters is their  *)
(* order: all that is declared is checked before anything is inflated.     *)
(***************************************************************************)
EXTENDS Integers, Sequences, FiniteSets, SequencesExt

CONSTANTS
    Writers,       \* the threads or processes that write the one bar file
    Dates,         \* the last date a bar may have
    MaxFileOps,    \* bound: writes, truncations and loads
    MaxCrashes     \* bound: crashes of the machine

OfflineAssumption ==
    /\ IsFiniteSet(Writers)
    /\ Dates \in Nat /\ MaxFileOps \in Nat /\ MaxCrashes \in Nat

VARIABLES
    format,     \* the kind of bar file
    cells,      \* what the file holds
    durable,    \* how many of these cells a crash leaves alone
    writer,     \* each writer: where it is, what it still has to write
    loaded,     \* the last structured file read, and what came of it
    fileOps,    \* calls made so far
    crashes     \* crashes so far

offlineVars == <<format, cells, durable, writer, loaded, fileOps, crashes>>

Formats == {"daily", "ex_daily", "min", "min5"}
RecordSize == 2

Record(date) == << [date |-> date, half |-> 1], [date |-> date, half |-> 2] >>

\* One record after the other.
Encoded(bars) == [i \in 1 .. RecordSize * Len(bars) |->
                    Record(bars[(i + 1) \div RecordSize])[IF i % RecordSize = 1 THEN 1 ELSE 2]]

BarsRead(file) == [i \in 1 .. Len(file) \div RecordSize |->
                     << file[RecordSize * i - 1], file[RecordSize * i] >>]

\* The date of the last whole record, 0 when there is none.
LastDate(file) == IF Len(file) < RecordSize THEN 0 ELSE Last(BarsRead(file))[1].date

\* The bars a caller hands over, in ascending order as the docstrings ask.
BarLists == { bars \in UNION { [1 .. n -> 1 .. Dates] : n \in 1 .. Dates } :
                 \A i, j \in DOMAIN bars : i < j => bars[i] < bars[j] }

Idle == [at |-> "idle", op |-> "append", bars |-> << >>, left |-> << >>]

OfflineInit ==
    /\ format \in Formats
    /\ cells = << >> /\ durable = 0
    /\ writer = [w \in Writers |-> Idle]
    /\ loaded = [reader |-> "none", faults |-> {}, inflated |-> FALSE, gave |-> "nothing"]
    /\ fileOps = 0 /\ crashes = 0

---------------------------------------------------------------------------
(* Writing bars. *)

\* The public write is the append under another name.
StartWrite(w, op, bars) ==
    /\ writer[w].at \in {"idle", "done", "refused"} /\ fileOps < MaxFileOps
    /\ writer' = [writer EXCEPT ![w] = [at |-> "check", op |-> op, bars |-> bars,
                                        left |-> << >>]]
    /\ fileOps' = fileOps + 1
    /\ UNCHANGED <<format, cells, durable, loaded, crashes>>

\* Mutant of EnsureAligned: a torn tail is appended to.
EnsureNothing(w) ==
    /\ writer[w].at = "check"
    /\ writer' = [writer EXCEPT ![w].at = "last"]
    /\ UNCHANGED <<format, cells, durable, loaded, fileOps, crashes>>

EnsureAligned(w) ==
    /\ writer[w].at = "check"
    /\ writer' = [writer EXCEPT ![w].at =
                    IF Len(cells) % RecordSize = 0 THEN "last" ELSE "refused"]
    /\ UNCHANGED <<format, cells, durable, loaded, fileOps, crashes>>

\* Those after the last date: as the bars ascend, all but the first few.
NewBars(bars, last) ==
    LET old == CHOOSE n \in 0 .. Len(bars) : \A i \in DOMAIN bars : bars[i] > last <=> i > n
    IN SubSeq(bars, old + 1, Len(bars))

ReadLastDate(w) ==
    /\ writer[w].at = "last"
    /\ LET new == NewBars(writer[w].bars, LastDate(cells))
       IN writer' = [writer EXCEPT ![w] =
                       [@ EXCEPT !.left = Encoded(new),
                                 !.at = IF new = << >> THEN "done" ELSE "write"]]
    /\ UNCHANGED <<format, cells, durable, loaded, fileOps, crashes>>

\* The system call may take the bytes in several parts; each lands at the end
\* of the file, wherever that is by now.
WriteSome(w) ==
    LET left == writer[w].left
    IN /\ writer[w].at = "write"
       /\ \E k \in 1 .. Len(left) :
            /\ cells' = cells \o SubSeq(left, 1, k)
            /\ writer' = [writer EXCEPT ![w] =
                            [@ EXCEPT !.left = SubSeq(left, k + 1, Len(left)),
                                      !.at = IF k < Len(left) THEN "write"
                                             ELSE IF format = "daily" THEN "sync" ELSE "done"]]
       /\ UNCHANGED <<format, durable, loaded, fileOps, crashes>>

\* Only the daily writer calls fsync before it returns.
Sync(w) ==
    /\ writer[w].at = "sync"
    /\ durable' = Len(cells)
    /\ writer' = [writer EXCEPT ![w].at = "done"]
    /\ UNCHANGED <<format, cells, loaded, fileOps, crashes>>

\* The machine stops: the file keeps what was synced and any part of the rest.
Crash ==
    /\ crashes < MaxCrashes /\ crashes' = crashes + 1
    /\ \E n \in durable .. Len(cells) :
         /\ cells' = SubSeq(cells, 1, n) /\ durable' = n
    /\ writer' = [w \in Writers |-> Idle]
    /\ UNCHANGED <<format, loaded, fileOps>>

\* The user follows the advice of the error message.
TruncateTail ==
    /\ Len(cells) % RecordSize # 0 /\ fileOps < MaxFileOps
    /\ \A w \in Writers : writer[w].at \in {"idle", "done", "refused"}
    /\ cells' = SubSeq(cells, 1, Len(cells) - 1)
    /\ durable' = IF durable > Len(cells) - 1 THEN Len(cells) - 1 ELSE durable
    /\ fileOps' = fileOps + 1
    /\ UNCHANGED <<format, writer, loaded, crashes>>

---------------------------------------------------------------------------
(* Reading the structured files.  Each reader is the list of faults it     *)
(* looks for, in its order, with "inflate" where the bytes are unpacked.   *)

ZipChecks == <<"entries", "no_dat", "duplicate", "encrypted", "declared", "inflate",
               "actual">>

\* A report record of no length is an empty answer, not an error.
DatChecks == <<"report_size", "fields", "same_offset", "total">>

HistoryChecks == <<"zip_size", "bad_zip">> \o ZipChecks \o DatChecks

DownloadChecks == <<"zip_size", "bad_zip">> \o ZipChecks \o DatChecks

StatsChecks == <<"empty", "zip_size", "bad_zip", "entries", "missing", "duplicate",
                 "encrypted", "declared", "total_declared", "inflate", "no_rows",
                 "same_key">>

BlockChecks == <<"header", "truncated">>

CustomerChecks == <<"no_cfg", "bad_name", "outside">>

GbbqChecks == <<"truncated">>

IndustryChecks == << >>

ChecksOf == [history |-> HistoryChecks, download |-> DownloadChecks,
             stats |-> StatsChecks, block |-> BlockChecks,
             customer |-> CustomerChecks, gbbq |-> GbbqChecks,
             industry |-> IndustryChecks]

\* The lines and entries a reader leaves out without a word: short or odd
\* lines of the lists, index entries past the end of a report file.
Skipped == [history |-> {"past_end", "no_code"}, download |-> {"past_end", "no_code"},
            stats |-> {"odd_line"}, block |-> {"no_code"}, customer |-> {"no_file"},
            gbbq |-> {}, industry |-> {"odd_line"}]

\* Two faults at a time tell the order of the checks apart.
FaultsOf(r) == { F \in SUBSET ((ToSet(ChecksOf[r]) \ {"inflate"}) \cup Skipped[r]) :
                   Cardinality(F) <= 2 }

Stopped(r, faults) == { i \in DOMAIN ChecksOf[r] : ChecksOf[r][i] \in faults }

\* A load shares nothing with the bar file; one is taken from the start.
LoadFile(r, faults) ==
    /\ fileOps = 0 /\ fileOps' = MaxFileOps
    /\ LET unpack == { i \in DOMAIN ChecksOf[r] : ChecksOf[r][i] = "inflate" }
       IN loaded' = [reader |-> r, faults |-> faults,
                     inflated |-> \E i \in unpack : \A j \in Stopped(r, faults) : i < j,
                     gave |-> IF Stopped(r, faults) # {} THEN "error"
                              ELSE IF faults = {} THEN "all" ELSE "rest"]
    /\ UNCHANGED <<format, cells, durable, writer, crashes>>

OfflineNext ==
    \/ /\ fileOps < MaxFileOps
       /\ \E w \in Writers, op \in {"write", "append"}, bars \in BarLists :
            StartWrite(w, op, bars)
    \/ \E w \in Writers : EnsureAligned(w) \/ ReadLastDate(w) \/ WriteSome(w) \/ Sync(w)
    \/ Crash \/ TruncateTail
    \/ /\ fileOps = 0
       /\ \E r \in DOMAIN ChecksOf : \E faults \in FaultsOf(r) : LoadFile(r, faults)

OfflineSpec == OfflineInit /\ [][OfflineNext]_offlineVars

---------------------------------------------------------------------------

OfflineTypeOK ==
    /\ format \in Formats
    /\ \A i \in DOMAIN cells : cells[i] \in [date : 1 .. Dates, half : 1 .. 2]
    /\ durable \in 0 .. Len(cells)
    /\ \A w \in Writers :
         writer[w].at \in {"idle", "check", "last", "write", "sync", "done", "refused"}
    /\ loaded.gave \in {"nothing", "all", "rest", "error"}
    /\ fileOps \in 0 .. MaxFileOps /\ crashes \in 0 .. MaxCrashes

\* However writes are cut short, a reader only ever sees records that were
\* written as such, each date once and in order: a torn tail is never buried
\* under new records (one writer at a time).
ReadersSeeWholeRecords ==
    LET seen == BarsRead(cells)
    IN /\ \A i \in DOMAIN seen : seen[i] = Record(seen[i][1].date)
       /\ \A i, j \in DOMAIN seen : i < j => seen[i][1].date < seen[j][1].date

\* A daily bar the writer has reported as written is there after any crash.
WrittenDailyBarsSurvive ==
    \A w \in Writers : (format = "daily" /\ writer[w].at = "done") =>
        /\ durable = Len(cells)
        /\ \A i \in DOMAIN writer[w].bars : writer[w].bars[i] <= LastDate(cells)

\* Nothing is unpacked from an archive that declares more than the limits, and
\* an archive with a fault the reader looks for gives an error, not rows.
ArchivesAreRefusedInTime ==
    /\ loaded.inflated =>
         loaded.faults \cap {"zip_size", "entries", "declared", "total_declared"} = {}
    /\ (loaded.gave \in {"all", "rest"}) => loaded.faults \subseteq Skipped[loaded.reader]

\* What docs/OFFLINE.md says of the two entry points, that one overwrites and
\* the other appends: after a write the file holds the bars it was given.
WriteReplaces ==
    \A w \in Writers : (writer[w].at = "done" /\ writer[w].op = "write") =>
        [i \in DOMAIN BarsRead(cells) |-> BarsRead(cells)[i][1].date] = writer[w].bars
===========================================================================
