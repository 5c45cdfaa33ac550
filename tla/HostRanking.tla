---------------------------- MODULE HostRanking ----------------------------
(***************************************************************************)
(* The per-user server ranking (hosts.py): a JSON file that every probe    *)
(* reads, merges its results into and replaces.  Within one process        *)
(* _RANKING_WRITE_LOCK makes that one step after another; two processes    *)
(* have nothing but the atomic replace.  A process may die at any moment.  *)
(*                                                                         *)
(* A probe's result is the sequence of the hosts that answered, fastest    *)
(* first.  A record keeps the host, whether it answered last time and its  *)
(* consecutive failures.                                                   *)
(***************************************************************************)
EXTENDS Integers, Sequences, FiniteSets, SequencesExt

CONSTANTS
    NRanked,      \* hosts are 1 .. NRanked
    Probers,      \* callers of sort_hosts_by_latency or refresh_server_ranking
    MaxProbes     \* bound: probes begun in all

RankingAssumption == NRanked \in Nat \ {0} /\ MaxProbes \in Nat

VARIABLES
    oneProcess,   \* whether the probers are threads of one process
    ranking,      \* the file: a sequence of records, <<>> when there is none
    writer,       \* who holds _RANKING_WRITE_LOCK, when the probers share it
    prober,       \* what each prober is doing and knows
    begun,        \* probes begun
    failedInARow  \* ghost: failed probes since the last success, over every probe written

rankingVars == <<oneProcess, ranking, writer, prober, begun, failedInARow>>

Ranked == 1 .. NRanked
Nobody == "nobody"
Records == [host : Ranked, ok : BOOLEAN, failures : 0 .. MaxProbes]
HostsOf(records) == [i \in DOMAIN records |-> records[i].host]
Resting == [at |-> "rest", asked |-> <<>>, answered |-> <<>>, read |-> <<>>, before |-> <<>>,
            returned |-> <<>>]

RankingTypeOK ==
    /\ oneProcess \in BOOLEAN
    /\ ranking \in SeqOf(Records, NRanked)
    /\ writer \in Probers \cup {Nobody}
    /\ DOMAIN prober = Probers
    /\ \A p \in Probers :
          /\ prober[p].at \in {"rest", "probed", "read", "written", "persisted", "done", "dead"}
          /\ prober[p].read \in SeqOf(Records, NRanked)
          /\ ToSet(prober[p].answered) \subseteq ToSet(prober[p].asked)
    /\ begun \in 0 .. MaxProbes
    /\ failedInARow \in [Ranked -> 0 .. MaxProbes]

RankingInit ==
    /\ oneProcess \in BOOLEAN
    /\ ranking = <<>>
    /\ writer = Nobody
    /\ prober = [p \in Probers |-> Resting]
    /\ begun = 0
    /\ failedInARow = [h \in Ranked |-> 0]

\* rank_hosts_from_cache: the candidates in the file's order, then the others.
RankFromCache(records, candidates) ==
    LET cached == SelectSeq(HostsOf(records), LAMBDA h : h \in ToSet(candidates))
    IN  cached \o SelectSeq(candidates, LAMBDA h : h \notin ToSet(cached))

\* _persist_probe_results: those who answered by latency, then every host known
\* before or asked now, in the old order.  Hosts that were not asked keep their
\* record.
PriorOf(records, h) ==
    IF \E i \in DOMAIN records : records[i].host = h
    THEN records[CHOOSE i \in DOMAIN records : records[i].host = h]
    ELSE [host |-> h, ok |-> FALSE, failures |-> 0]

Outcome(records, asked, answered, h) ==
    CASE h \in ToSet(answered) -> [host |-> h, ok |-> TRUE, failures |-> 0]
      [] h \in ToSet(asked) \ ToSet(answered) ->
            [host |-> h, ok |-> FALSE, failures |-> PriorOf(records, h).failures + 1]
      [] OTHER -> PriorOf(records, h)

Merge(records, asked, answered) ==
    LET old == HostsOf(records)
        known == old \o SelectSeq(asked, LAMBDA h : h \notin ToSet(old))
        ranked == answered \o SelectSeq(known, LAMBDA h : h \notin ToSet(answered))
    IN  [i \in DOMAIN ranked |-> Outcome(records, asked, answered, ranked[i])]

-----------------------------------------------------------------------------

\* probe_hosts asks every candidate and waits for all of them;
\* sort_hosts_by_latency has read the old order before that.
Probe(p) ==
    /\ prober[p].at \in {"rest", "done"}
    /\ begun < MaxProbes
    /\ begun' = begun + 1
    /\ \E some \in SUBSET Ranked \ {{}} : \E asked \in {SetToSortSeq(some, <)} :
       \E ok \in SUBSET some : \E answered \in SetToSeqs(ok) :
          prober' = [prober EXCEPT ![p] =
                       [Resting EXCEPT !.at = "probed", !.asked = asked, !.answered = answered,
                                       !.before = RankFromCache(ranking, asked)]]
    /\ UNCHANGED <<oneProcess, ranking, writer, failedInARow>>

\* Under the lock: load_server_ranking ...
ReadRanking(p) ==
    /\ prober[p].at = "probed"
    /\ IF oneProcess
       THEN /\ writer = Nobody
            /\ writer' = p
       ELSE UNCHANGED writer
    /\ prober' = [prober EXCEPT ![p].at = "read", ![p].read = ranking]
    /\ UNCHANGED <<oneProcess, ranking, begun, failedInARow>>

\* ... merge, write the temporary file (named after process and thread) ...
WriteTemporary(p) ==
    /\ prober[p].at = "read"
    /\ prober' = [prober EXCEPT ![p].at = "written",
                     ![p].read = Merge(@, prober[p].asked, prober[p].answered)]
    /\ UNCHANGED <<oneProcess, ranking, writer, begun, failedInARow>>

Unlock(p) == writer' = IF writer = p THEN Nobody ELSE writer

\* ... and put it in place of the file.
Replace(p) ==
    /\ prober[p].at = "written"
    /\ ranking' = prober[p].read
    /\ failedInARow' = [h \in Ranked |->
            CASE h \in ToSet(prober[p].answered) -> 0
              [] h \in ToSet(prober[p].asked) \ ToSet(prober[p].answered) -> failedInARow[h] + 1
              [] OTHER -> failedInARow[h]]
    /\ prober' = [prober EXCEPT ![p].at = "persisted", ![p].read = <<>>]
    /\ Unlock(p)
    /\ UNCHANGED <<oneProcess, begun>>

\* An OSError on the way is a warning: the temporary file is removed and the
\* ranking stays as it was.
CannotPersist(p) ==
    /\ prober[p].at \in {"read", "written"}
    /\ prober' = [prober EXCEPT ![p].at = "persisted", ![p].read = <<>>]
    /\ Unlock(p)
    /\ UNCHANGED <<oneProcess, ranking, begun, failedInARow>>

\* sort_hosts_by_latency gives back those who answered and then the old order.
SortedByLatency(p) ==
    prober[p].answered
        \o SelectSeq(prober[p].before, LAMBDA h : h \notin ToSet(prober[p].answered))

\* refresh_server_ranking reads the file again, which may be another's by then.
GiveBack(p) ==
    /\ prober[p].at = "persisted"
    /\ \E list \in {SortedByLatency(p), RankFromCache(ranking, prober[p].asked)} :
          prober' = [prober EXCEPT ![p] = [@ EXCEPT !.at = "done", !.returned = list]]
    /\ UNCHANGED <<oneProcess, ranking, writer, begun, failedInARow>>

\* The process dies; with it every thread it has.
ProcessDies(p) ==
    /\ prober[p].at # "dead"
    /\ prober' = [q \in Probers |->
                    IF q = p \/ oneProcess THEN [Resting EXCEPT !.at = "dead"] ELSE prober[q]]
    /\ writer' = Nobody
    /\ UNCHANGED <<oneProcess, ranking, begun, failedInARow>>

RankingNext ==
    \E p \in Probers :
        \/ Probe(p)
        \/ ReadRanking(p)
        \/ WriteTemporary(p)
        \/ Replace(p)
        \/ CannotPersist(p)
        \/ GiveBack(p)
        \/ ProcessDies(p)

RankingSpec == RankingInit /\ [][RankingNext]_rankingVars

-----------------------------------------------------------------------------

\* The file always is a whole ranking, whoever died or overwrote whom: no host
\* twice, and no failures beside an answer.
RankingIsWhole ==
    \A i, j \in DOMAIN ranking :
        /\ i # j => ranking[i].host # ranking[j].host
        /\ ranking[i].ok => ranking[i].failures = 0

\* Threads of one process lose nothing of each other: every probe that was
\* written counts in consecutive_failures, and no host drops out.
NoProbeIsLost ==
    oneProcess =>
        \A h \in Ranked : PriorOf(ranking, h).failures = failedInARow[h]

\* Every caller gets each of its candidates once, those that answered in order
\* of their latency; PooledSocketTransport._set_ranked_hosts relies on it.
CallersGetTheirHosts ==
    \A p \in Probers : prober[p].at = "done" =>
        /\ Len(prober[p].returned) = Len(prober[p].asked)
        /\ ToSet(prober[p].returned) = ToSet(prober[p].asked)

=============================================================================
