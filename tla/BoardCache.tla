------------------------------ MODULE BoardCache ------------------------------
(***************************************************************************)
(* BoardService (helpers/boards.py): board files and the table of          *)
(* securities, prepared once a day, kept in memory and in a directory that *)
(* outlives the process.                                                   *)
(*                                                                         *)
(* What the servers publish is told apart by the day it was published:     *)
(* version d is the file, or the table, of day d.  Every file is written   *)
(* in place, which empties it first.  A board file that was cut short is   *)
(* read like any other; JSON that was cut short is read as if there were   *)
(* none, so a table or a date on disk is there or it is not.               *)
(***************************************************************************)
EXTENDS Integers

CONSTANTS
    BoardCallers,     \* threads that call the service
    Days,             \* bound: days that go by
    MaxBoardCalls,    \* bound: calls
    MaxRestarts       \* bound: times the process ends and starts again

BoardAssumption == {Days, MaxBoardCalls, MaxRestarts} \subseteq Nat

VARIABLES
    marketDate,   \* the date the servers name in the handshake
    disk,         \* BOARD_FILES, security_list.json, last_success_date, and
                  \* whether tdxzs.cfg and tdxzs3.cfg were put there
    memory,       \* _prepared_date, _security, _members
    tried,        \* ghost: the last day each source was asked
    board,        \* per caller: where it stands
    boardOps      \* calls and restarts

boardVars == <<marketDate, disk, memory, tried, board, boardOps>>

NoDate == 0
Nothing == 0         \* no file, or no table
Partial == -1        \* a file cut short, or a table without some market

BoardFiles == {"infoharbor", "tdxhy"}
Sources == BoardFiles \cup {"list"}
NotMatched == <<>>

Empty == [date |-> NoDate, security |-> Nothing, members |-> NotMatched]
IdleCaller == [at |-> "idle", refresh |-> FALSE, stale |-> FALSE, date |-> NoDate,
               file |-> "infoharbor", got |-> Nothing]

Contents == {Partial} \cup (0 .. Days)

BoardTypeOK ==
    /\ marketDate \in 1 .. Days
    /\ disk \in [files : [BoardFiles -> Contents], list : Contents, success : 0 .. Days,
                 definitions : BOOLEAN]
    /\ memory.date \in 0 .. Days /\ memory.security \in Contents
    /\ memory.members \in {NotMatched} \cup (Contents \X Contents)
    /\ tried \in [Sources -> 0 .. Days]
    /\ \A c \in BoardCallers : board[c].date \in 0 .. Days /\ board[c].got \in Contents

BoardInit ==
    /\ marketDate = 1
    /\ \E definitions \in BOOLEAN :
          disk = [files |-> [f \in BoardFiles |-> Nothing], list |-> Nothing, success |-> NoDate,
                  definitions |-> definitions]
    /\ memory = Empty
    /\ tried = [s \in Sources |-> NoDate]
    /\ board = [c \in BoardCallers |-> IdleCaller]
    /\ boardOps = [calls |-> 0, restarts |-> 0]

-----------------------------------------------------------------------------

Leaves(c, at) == board' = [board EXCEPT ![c].at = at]

\* board_quotes, board_member_quotes: _market_date asks for the handshake.
AskBoards(c) ==
    /\ board[c].at = "idle"
    /\ boardOps.calls < MaxBoardCalls
    /\ boardOps' = [boardOps EXCEPT !.calls = @ + 1]
    /\ \E refresh \in BOOLEAN :
          board' = [board EXCEPT ![c] = [IdleCaller EXCEPT !.at = "memory", !.refresh = refresh,
                                                           !.date = marketDate]]
    /\ UNCHANGED <<marketDate, disk, memory, tried>>

\* What is in memory is of today; the three attributes are set together.
Prepared(c) == ~board[c].refresh /\ memory.date = board[c].date

LookInMemory(c) ==
    /\ board[c].at = "memory"
    /\ Leaves(c, IF Prepared(c) THEN "members" ELSE "disk")
    /\ UNCHANGED <<marketDate, disk, memory, tried, boardOps>>

\* self._boards, self._security and self._prepared_date; _members stays.
Publish(c, security) ==
    memory' = [date |-> board[c].date, security |-> security, members |-> memory.members]

\* _cache_files_ready: one of the files exists, and the definitions do; and a
\* table can be read.  No digest is compared.
OnDisk(c) ==
    /\ ~board[c].refresh /\ disk.success = board[c].date
    /\ disk.definitions /\ \E f \in BoardFiles : disk.files[f] # Nothing
    /\ disk.list # Nothing

\* Mutant of MustAsk: an existing file is never asked for again.
MustAskForMissing(c) == FALSE

\* Is the directory to be fetched anew?
MustAsk(c) == board[c].refresh \/ disk.success # board[c].date

LookOnDisk(c) ==
    /\ board[c].at = "disk"
    /\ IF OnDisk(c)
       THEN Publish(c, disk.list) /\ Leaves(c, "members")
       ELSE /\ UNCHANGED memory
            /\ board' = [board EXCEPT ![c] = [@ EXCEPT !.at = "fetch", !.stale = MustAsk(c)]]
    /\ UNCHANGED <<marketDate, disk, tried, boardOps>>

\* One file after the other.
NextFile(c) ==
    board' = [board EXCEPT ![c] =
                 IF board[c].file = "infoharbor"
                 THEN [@ EXCEPT !.at = "fetch", !.file = "tdxhy", !.got = Nothing]
                 ELSE [@ EXCEPT !.at = "parse", !.file = "infoharbor", !.got = Nothing,
                                !.stale = FALSE]]

\* _download_missing_or_refresh: a file that is there and not stale is not
\* asked for; what cannot be fetched stays as it is.
FetchFile(c) ==
    LET f == board[c].file IN
    /\ board[c].at = "fetch"
    /\ \/ /\ board[c].stale \/ disk.files[f] = Nothing
          /\ tried' = [tried EXCEPT ![f] = marketDate]
          /\ \/ board' = [board EXCEPT ![c] = [@ EXCEPT !.at = "write", !.got = marketDate]]
             \/ NextFile(c)
       \/ /\ ~board[c].stale /\ disk.files[f] # Nothing
          /\ NextFile(c)
          /\ UNCHANGED tried
    /\ UNCHANGED <<marketDate, disk, memory, boardOps>>

\* write_bytes opens the file, which empties it, ...
OpenFile(c) ==
    /\ board[c].at = "write"
    /\ disk' = [disk EXCEPT !.files[board[c].file] = Partial]
    /\ Leaves(c, "fill")
    /\ UNCHANGED <<marketDate, memory, tried, boardOps>>

\* ... and writes what was fetched.
FillFile(c) ==
    /\ board[c].at = "fill"
    /\ disk' = [disk EXCEPT !.files[board[c].file] = board[c].got]
    /\ NextFile(c)
    /\ UNCHANGED <<marketDate, memory, tried, boardOps>>

\* _parse_boards: from the definitions, and the headers of infoharbor, which a
\* file cut short may have lost; without a board the call raises.
ParseBoards(c) ==
    /\ board[c].at = "parse"
    /\ \/ /\ disk.definitions \/ disk.files["infoharbor"] # Nothing
          /\ Leaves(c, "list")
       \/ /\ ~disk.definitions /\ disk.files["infoharbor"] \in {Nothing, Partial}
          /\ board' = [board EXCEPT ![c] = IdleCaller]
    /\ UNCHANGED <<marketDate, disk, memory, tried, boardOps>>

\* _load_security_from_044d swallows the fault of a market: what comes may lack
\* it, and when all fail nothing comes, and the file, if there is one, stands in.
FetchList(c) ==
    /\ board[c].at = "list"
    /\ tried' = [tried EXCEPT !["list"] = marketDate]
    /\ \/ \E got \in {marketDate, Partial} :
             board' = [board EXCEPT ![c] = [@ EXCEPT !.at = "save", !.got = got]]
       \/ board' = [board EXCEPT ![c] = [@ EXCEPT !.at = "publish", !.got = disk.list]]
    /\ UNCHANGED <<marketDate, disk, memory, boardOps>>

\* _write_security_file: in place, too.
OpenList(c) ==
    /\ board[c].at = "save"
    /\ disk' = [disk EXCEPT !.list = Nothing]
    /\ Leaves(c, "fillList")
    /\ UNCHANGED <<marketDate, memory, tried, boardOps>>

FillList(c) ==
    /\ board[c].at = "fillList"
    /\ disk' = [disk EXCEPT !.list = board[c].got]
    /\ Leaves(c, "publish")
    /\ UNCHANGED <<marketDate, memory, tried, boardOps>>

PublishPrepared(c) ==
    /\ board[c].at = "publish"
    /\ Publish(c, board[c].got)
    /\ board' = [board EXCEPT ![c] = [@ EXCEPT !.at = "date", !.got = Nothing]]
    /\ UNCHANGED <<marketDate, disk, tried, boardOps>>

\* The metadata comes last: a process that ends before it, or while it is
\* written, prepares again.
OpenDate(c) ==
    /\ board[c].at = "date"
    /\ disk' = [disk EXCEPT !.success = NoDate]
    /\ Leaves(c, "fillDate")
    /\ UNCHANGED <<marketDate, memory, tried, boardOps>>

FillDate(c) ==
    /\ board[c].at = "fillDate"
    /\ disk' = [disk EXCEPT !.success = board[c].date]
    /\ Leaves(c, "members")
    /\ UNCHANGED <<marketDate, memory, tried, boardOps>>

\* _members_for: from one file - infoharbor.dat, or tdxhy.cfg for an industry -
\* and the table, once.  board_quotes wants no members, board_member_quotes
\* those of one board.
MembersOf(f) ==
    IF memory.members = NotMatched THEN <<disk.files[f], memory.security>> ELSE memory.members

Answer(c) ==
    /\ board[c].at = "members"
    /\ \E members \in {memory.members} \cup {MembersOf(f) : f \in BoardFiles} :
          memory' = [memory EXCEPT !.members = members]
    /\ board' = [board EXCEPT ![c] = IdleCaller]
    /\ UNCHANGED <<marketDate, disk, tried, boardOps>>

\* "incomplete board membership", or a board that is not known: infoharbor.dat
\* gives the number of a board's members, which tdxhy.cfg does not.
Refuse(c) ==
    /\ board[c].at = "members"
    /\ disk.files["infoharbor"] = Partial
    /\ board' = [board EXCEPT ![c] = IdleCaller]
    /\ UNCHANGED <<marketDate, disk, memory, tried, boardOps>>

\* HelperApi.clear_cache -> BoardService.clear_cache, between two calls.
ClearBoards ==
    /\ \A c \in BoardCallers : board[c].at = "idle"
    /\ memory # Empty
    /\ memory' = Empty
    /\ UNCHANGED <<marketDate, disk, tried, board, boardOps>>

DayPasses ==
    /\ marketDate < Days
    /\ marketDate' = marketDate + 1
    /\ UNCHANGED <<disk, memory, tried, board, boardOps>>

\* The process ends anywhere; the directory stays.
Restart ==
    /\ boardOps.restarts < MaxRestarts
    /\ boardOps' = [boardOps EXCEPT !.restarts = @ + 1]
    /\ memory' = Empty
    /\ board' = [c \in BoardCallers |-> IdleCaller]
    /\ UNCHANGED <<marketDate, disk, tried>>

BoardStep(c) ==
    \/ AskBoards(c) \/ LookInMemory(c) \/ LookOnDisk(c) \/ FetchFile(c) \/ OpenFile(c)
    \/ FillFile(c) \/ ParseBoards(c) \/ FetchList(c) \/ OpenList(c) \/ FillList(c)
    \/ PublishPrepared(c) \/ OpenDate(c) \/ FillDate(c) \/ Answer(c) \/ Refuse(c)

BoardNext ==
    \/ \E c \in BoardCallers : BoardStep(c)
    \/ ClearBoards
    \/ DayPasses
    \/ Restart

BoardSpec == BoardInit /\ [][BoardNext]_boardVars

-----------------------------------------------------------------------------

\* A date, on disk or in memory, says that each file and the table were asked
\* for on that day or later, wherever the process ended, in whatever write, and
\* whoever else prepared meanwhile (boards.py 152-199).  It does not say that
\* they came, or that they are whole.
DateSaysWhatWasAsked ==
    \A s \in Sources : tried[s] >= disk.success /\ tried[s] >= memory.date

\* "A successful preparation is recorded on disk by date, so later calls on the
\* same day reuse both files" (boards.py 83-85): the files that a call takes
\* over without asking are whole.  The code does not keep this (159, 194-199).
ReusedFilesAreWhole ==
    \A c \in BoardCallers : board[c].at = "disk" /\ OnDisk(c) =>
        \A f \in BoardFiles : disk.files[f] # Partial

\* "display_members: members that match the cached table of securities",
\* and refresh=True prepares everything anew
\* (boards.py 237-279, docs/helpers/板块成分股行情.md:48, 102): what a refreshed
\* call is about to answer.
MembersMatchTheTable ==
    \A c \in BoardCallers :
        board[c].at = "members" /\ board[c].refresh /\ memory.members # NotMatched
            => memory.members[2] = memory.security

=============================================================================
