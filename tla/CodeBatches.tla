------------------------------ MODULE CodeBatches ------------------------------
(***************************************************************************)
(* Asking for many codes in one call.  Two ways:                           *)
(*   - "recover": snapshots and finance records come in one answer.  An    *)
(*     answer that cannot be taken apart is halved until each code without *)
(*     data is known, within a budget of requests (api/_batch.py);         *)
(*   - "fan out": one request per code, or per chunk of codes, on a pool   *)
(*     of threads (bars, delisted bars, trades, minutes, money flow,       *)
(*     capital changes, previous closes).                                  *)
(***************************************************************************)
EXTENDS Integers, Sequences, FiniteSets, SequencesExt

CONSTANTS
    Codes,            \* codes a caller may ask for
    MaxAsked,         \* bound: codes of one call, repetitions included
    RecoveryRequests, \* _RECOVERY_REQUESTS
    Capacity,         \* pool_size of the transport
    BatchSizes        \* batch_size, where the caller gives one

BatchAssumption ==
    /\ {MaxAsked, RecoveryRequests} \subseteq Nat
    /\ Capacity \in Nat \ {0}
    /\ BatchSizes \subseteq Nat \ {0}

VARIABLES
    batch,        \* the call: way, what it asks for, its policy or job
    server,       \* what the server has for each code
    recovery,     \* recover_batch: parts to fetch, requests left, findings
    fan,          \* the pool: what runs, what is done, what map waits for
    answer        \* what the caller got

batchVars == <<batch, server, recovery, fan, answer>>

\* windowed: the next codes are handed over when the last ones are answered;
\* capped: no more threads than the transport has connections; unique: a code
\* asked for twice is asked once; faults: does a fault end the call?
Job(name, windowed, capped, unique, faults) ==
    [name |-> name, windowed |-> windowed, capped |-> capped, unique |-> unique,
     faults |-> faults]

BarsJob      == Job("bars.get", TRUE, TRUE, TRUE, "raise")
DelistedJob  == Job("delisted_bars.get", TRUE, TRUE, TRUE, "raise")
TradesJob    == Job("trades._run_many", TRUE, TRUE, TRUE, "raise")
MoneyJob     == Job("money_flow.history", TRUE, TRUE, FALSE, "raise")
MinutesJob   == Job("minutes._run_many", FALSE, FALSE, TRUE, "raise")
\* A task of this job is a chunk of the codes.
CapitalJob   == Job("capital_changes", FALSE, TRUE, FALSE, "raise")
\* HelperApi._kline_previous_close_map: the code is left out.
PreviousJob  == Job("previous closes", FALSE, TRUE, FALSE, "miss")

Jobs == {BarsJob, DelistedJob, TradesJob, MoneyJob, MinutesJob, CapitalJob, PreviousJob}

NoJob == [job |-> Job("none", FALSE, FALSE, FALSE, "raise"), size |-> Capacity]
NoRecovery == [todo |-> <<>>, left |-> RecoveryRequests, missing |-> <<>>, rows |-> <<>>,
               recovered |-> FALSE, queries |-> 0]
NoFan == [tasks |-> <<>>, handed |-> 0, running |-> {}, done |-> <<>>, next |-> 1,
          ending |-> FALSE]
NoAnswer == [kind |-> "none", rows |-> <<>>]

BatchTypeOK ==
    /\ batch.way \in {"recover", "fan out"}
    /\ Len(batch.asked) \in 0 .. MaxAsked
    /\ DOMAIN server = Codes
    /\ recovery.left \in 0 .. RecoveryRequests
    /\ fan.running \subseteq 1 .. MaxAsked
    /\ answer.kind \in {"none", "rows", "missing", "error", "exhausted"}

Asking == UNION {[1 .. n -> Codes] : n \in 1 .. MaxAsked}

\* List(...): a code is asked for once, at its first place.
Once(codes) == SelectSeq([i \in 1 .. Len(codes) |-> i],
                         LAMBDA i : \A j \in 1 .. i - 1 : codes[j] # codes[i])

TasksOf(job, asked) ==
    IF job.unique THEN [i \in 1 .. Len(Once(asked)) |-> asked[Once(asked)[i]]] ELSE asked

BatchInit ==
    /\ answer = NoAnswer
    /\ \/ /\ \E asked \in Asking, skip \in BOOLEAN :
                /\ batch = [way |-> "recover", asked |-> asked, skip |-> skip] @@ NoJob
                /\ recovery = [NoRecovery EXCEPT !.todo = <<asked>>]
          /\ server \in [Codes -> {"data", "nothing", "garbled"}]
          /\ fan = NoFan
       \/ /\ \E asked \in Asking, job \in Jobs, size \in BatchSizes \cup {Capacity} :
                /\ batch = [way |-> "fan out", asked |-> asked, skip |-> FALSE,
                            job |-> job, size |-> size]
                /\ fan = [NoFan EXCEPT !.tasks = TasksOf(job, asked),
                                       !.done = [i \in 1 .. Len(TasksOf(job, asked)) |-> "no"]]
          /\ server \in [Codes -> {"data", "nothing"}]
          /\ recovery = NoRecovery

-----------------------------------------------------------------------------
(* recover_batch                                                           *)

Part == Head(recovery.todo)
Half == Len(Part) \div 2

Recovering == batch.way = "recover" /\ answer.kind = "none" /\ recovery.todo # <<>>

\* Every request but the first counts.
Budgeted == IF recovery.queries = 0 THEN recovery.left ELSE recovery.left - 1

OutOfBudget ==
    /\ Recovering
    /\ recovery.queries > 0 /\ recovery.left = 0
    /\ answer' = [kind |-> "exhausted", rows |-> <<>>]
    /\ UNCHANGED <<batch, server, recovery, fan>>

MayFetch == Recovering /\ (recovery.queries = 0 \/ recovery.left > 0)
Fetched == [recovery EXCEPT !.queries = @ + 1, !.left = Budgeted]

\* As many rows as codes.
Whole ==
    /\ MayFetch
    /\ \A i \in 1 .. Len(Part) : server[Part[i]] = "data"
    /\ recovery' = [Fetched EXCEPT !.todo = Tail(@), !.rows = @ \o Part]
    /\ UNCHANGED <<batch, server, fan, answer>>

\* A record that is not there, a count that is off, a marker that is not
\* found: the part is halved, the left half first.  An answer to several
\* codes may be garbled where each alone is not.
Split ==
    /\ MayFetch /\ Len(Part) > 1
    /\ recovery' = [Fetched EXCEPT !.recovered = TRUE,
          !.todo = <<SubSeq(Part, 1, Half), SubSeq(Part, Half + 1, Len(Part))>> \o Tail(@)]
    /\ UNCHANGED <<batch, server, fan, answer>>

\* One code, and the server says it has nothing.
Absent ==
    /\ MayFetch /\ Len(Part) = 1 /\ server[Part[1]] = "nothing"
    /\ recovery' = [Fetched EXCEPT !.recovered = TRUE, !.todo = Tail(@),
                                   !.missing = Append(@, Part[1])]
    /\ UNCHANGED <<batch, server, fan, answer>>

\* One code, and what comes is no record of it; or, at any size, a fault of
\* another kind, of the connection say.
Corrupt ==
    /\ MayFetch /\ recovery' = Fetched
    /\ answer' = [kind |-> "error", rows |-> <<>>]
    /\ UNCHANGED <<batch, server, fan>>

\* Rows go back in the order of the request: per code a queue of the rows
\* that came, first come first served.
Reassembled ==
    LET came(code, upto) == Cardinality({i \in 1 .. upto : batch.asked[i] = code})
        has(code) == Cardinality({i \in 1 .. Len(recovery.rows) : recovery.rows[i] = code})
        kept == SelectSeq([i \in 1 .. Len(batch.asked) |-> i],
                          LAMBDA i : came(batch.asked[i], i) <= has(batch.asked[i]))
    IN  [i \in 1 .. Len(kept) |-> batch.asked[kept[i]]]

AnswerRecovered ==
    /\ batch.way = "recover" /\ answer.kind = "none" /\ recovery.todo = <<>>
    /\ answer' = IF recovery.missing # <<>> /\ ~batch.skip
                 THEN [kind |-> "missing", rows |-> recovery.missing]
                 ELSE [kind |-> "rows", rows |-> IF recovery.recovered THEN Reassembled
                                                 ELSE recovery.rows]
    /\ UNCHANGED <<batch, server, recovery, fan>>

-----------------------------------------------------------------------------
(* The pools of threads                                                    *)

Smaller(a, b) == IF a < b THEN a ELSE b

\* _batch_workers; MinuteApi takes batch_size as it is.
FanWorkers ==
    Smaller(Len(fan.tasks),
            IF batch.job.capped THEN Smaller(batch.size, Capacity) ELSE batch.size)

Fanning == batch.way = "fan out" /\ answer.kind = "none"
AllAnswered == \A i \in 1 .. fan.handed : fan.done[i] # "no"

\* executor.map: a window of tasks, or all of them.
HandOver ==
    /\ Fanning /\ ~fan.ending
    /\ fan.handed < Len(fan.tasks)
    /\ AllAnswered /\ fan.next = fan.handed + 1
    /\ fan' = [fan EXCEPT !.handed =
                 IF batch.job.windowed THEN Smaller(@ + FanWorkers, Len(fan.tasks))
                 ELSE Len(fan.tasks)]
    /\ UNCHANGED <<batch, server, recovery, answer>>

\* A thread takes the next task; what has not begun is cancelled by a fault.
BeginTask ==
    /\ Fanning /\ ~fan.ending
    /\ Cardinality(fan.running) < FanWorkers
    /\ LET waiting == {i \in 1 .. fan.handed : fan.done[i] = "no" /\ i \notin fan.running}
       IN  /\ waiting # {}
           /\ fan' = [fan EXCEPT !.running = @ \cup
                        {CHOOSE i \in waiting : \A j \in waiting : i <= j}]
    /\ UNCHANGED <<batch, server, recovery, answer>>

EndTask ==
    /\ Fanning
    /\ \E i \in fan.running :
          fan' = [fan EXCEPT !.running = @ \ {i},
                             !.done[i] = IF server[fan.tasks[i]] = "data" THEN "row" ELSE "fault"]
    /\ UNCHANGED <<batch, server, recovery, answer>>

\* The caller reads the answers in the order of the tasks.
ReadAnswer ==
    /\ Fanning /\ ~fan.ending
    /\ fan.next <= fan.handed /\ fan.done[fan.next] # "no"
    /\ IF fan.done[fan.next] = "fault" /\ batch.job.faults = "raise"
       THEN fan' = [fan EXCEPT !.ending = TRUE]
       ELSE fan' = [fan EXCEPT !.next = @ + 1]
    /\ UNCHANGED <<batch, server, recovery, answer>>

\* The end of the with waits for what still runs.
ReturnFan ==
    /\ Fanning /\ fan.running = {}
    /\ \/ fan.ending /\ answer' = [kind |-> "error", rows |-> <<>>]
       \/ /\ ~fan.ending /\ fan.next > Len(fan.tasks)
          /\ answer' = [kind |-> "rows", rows |-> SelectSeq(fan.tasks, LAMBDA code :
                          \E i \in 1 .. Len(fan.tasks) : fan.tasks[i] = code /\ fan.done[i] = "row")]
    /\ UNCHANGED <<batch, server, recovery, fan>>

RecoveryStep == OutOfBudget \/ Whole \/ Split \/ Absent \/ Corrupt \/ AnswerRecovered
FanStep == HandOver \/ BeginTask \/ EndTask \/ ReadAnswer \/ ReturnFan

BatchNext == RecoveryStep \/ FanStep

BatchSpec == BatchInit /\ [][BatchNext]_batchVars

-----------------------------------------------------------------------------

\* What recover_batch gives is exactly what the server has: rows of the codes
\* with data, in the order of the request and as often as asked for, and
\* under "raise" only when nothing is missing; the missing ones in their
\* order; never a garbled code, and never a part of an answer when the budget
\* runs out (_batch.py 15-84, docs/BATCH_MISSING.md).
RecoveredExactly ==
    LET having(what) == SelectSeq(batch.asked, LAMBDA code : server[code] = what)
    IN  batch.way = "recover" =>
            /\ answer.kind \in {"rows", "missing"} => having("garbled") = <<>>
            /\ answer.kind = "rows" =>
                  answer.rows = having("data") /\ (having("nothing") = <<>> \/ batch.skip)
            /\ answer.kind = "missing" => answer.rows = having("nothing") /\ ~batch.skip
            /\ recovery.queries <= RecoveryRequests + 1
            /\ answer.kind = "exhausted" => recovery.queries = RecoveryRequests + 1

\* A call on a pool of threads answers for every code or not at all, leaves
\* no request behind it, and never has more of them under way than the
\* transport has connections (trades.py 321-336 and its kin).
FansAreWhole ==
    batch.way = "fan out" =>
        /\ answer.kind # "none" => fan.running = {}
        /\ answer.kind = "rows" /\ batch.job.faults = "raise" => answer.rows = fan.tasks
        /\ batch.job.capped => Cardinality(fan.running) <= Capacity
        /\ answer.kind = "error" => \E i \in 1 .. fan.handed : fan.done[i] = "fault"

=============================================================================
