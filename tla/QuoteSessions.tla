--------------------------- MODULE QuoteSessions ---------------------------
(***************************************************************************)
(* The blocking quote clients: MacClient ("mac"), ExTdxClient with         *)
(* failover ("ex") and without ("explain"), and MacExClient ("macex").     *)
(* Each owns one blocking socket, answers carry no request number the      *)
(* clients look at, and each has its own rule for what follows a failure.  *)
(*                                                                         *)
(* A line is the client's connection object: the host it leads to, whether *)
(* it still carries bytes, and the answers that are still to be read from  *)
(* it, oldest first.  An answer is named by its command; 0 is the answer   *)
(* of a handshake or a login.  One step is one attempt to connect (with    *)
(* the handshake or login that belongs to it) or one exchange.             *)
(*                                                                         *)
(* Hosts behave as they like at every step, except the one that steady     *)
(* names: from the moment it is chosen it accepts and answers at once.     *)
(***************************************************************************)
EXTENDS Integers, Sequences, FiniteSets, SequencesExt

CONSTANTS
    NHosts,     \* the hosts a client is given are 1 .. NHosts, in that order
    Commands,   \* the business commands, positive numbers
    MaxLate,    \* bound: answers left unread on one line
    Kinds       \* the client classes of this instance

SessionAssumption ==
    /\ NHosts \in Nat \ {0}
    /\ MaxLate \in Nat \ {0}
    /\ Commands \subseteq Nat \ {0}
    /\ Kinds \subseteq {"mac", "ex", "explain", "macex"}

VARIABLES
    kind,       \* the client's class
    current,    \* _host_index, _host
    line,       \* _conn
    linked,     \* _connected
    marks,      \* _unhealthy
    order,      \* _ordered
    probed,     \* _probed
    preferred,  \* _preferred_host, or 0
    call,       \* the method in progress
    answer,     \* what the last call returned or raised
    steady,     \* the host that answers from now on, or 0
    streak      \* calls in a row that failed although steady answers, those a reset
                \* of the handshake ended aside

sessionVars == <<kind, current, line, linked, marks, order, probed, preferred,
                 call, answer, steady, streak>>

Hosts == 1 .. NHosts
HostList == [i \in Hosts |-> i]
NoLine == [host |-> 0, up |-> FALSE, pipe |-> <<>>, doubt |-> FALSE]
Fresh(h, late) == [host |-> h, up |-> TRUE, pipe |-> late, doubt |-> late # <<>>]
Idle == [phase |-> "idle", command |-> 0, todo |-> <<>>, sends |-> 0]
NoAnswer == [command |-> 0, of |-> 0, result |-> "none", doubt |-> FALSE]

SessionTypeOK ==
    /\ kind \in Kinds
    /\ current \in Hosts
    /\ line \in [host : 0 .. NHosts, up : BOOLEAN, doubt : BOOLEAN,
                 pipe : SeqOf(Commands \cup {0}, MaxLate)]
    /\ linked \in BOOLEAN
    /\ marks \subseteq Hosts
    /\ order \in SetToSeqs(Hosts)
    /\ probed \in BOOLEAN
    /\ preferred \in {0, 1}
    /\ call \in [phase : {"idle", "connect", "send"}, command : Commands \cup {0},
                 todo : SeqOf(Hosts, NHosts), sends : 0 .. NHosts]
    /\ answer \in [command : Commands \cup {0}, of : Commands \cup {0}, doubt : BOOLEAN,
                   result : {"none", "value", "malformed", "failed"}]
    /\ steady \in 0 .. NHosts
    /\ streak \in 0 .. NHosts + 1

\* rank_ex_hosts: the hosts that answered by latency, then the others in the
\* order they were given.  Every latency order is possible.
Rankings(answered) ==
    { fast \o SelectSeq(HostList, LAMBDA h : h \notin answered) : fast \in SetToSeqs(answered) }

\* What a probe that stops after the first answer may find: one host or none.
Answering(asked) ==
    { ok \in SUBSET asked : Cardinality(ok) <= 1 /\ (steady \in asked => ok # {}) }

\* MacClient.connect walks the hosts in a ring that starts at the current one.
Ring(h) == [i \in Hosts |-> ((h + i - 2) % NHosts) + 1]

\* MacExClient._ordered_hosts.
CurrentFirst(h) == <<h>> \o SelectSeq(HostList, LAMBDA g : g # h)

\* ExTdxClient._candidate_order: the ranking without the marked hosts; when
\* every host is marked the marks are dropped and everyone is a candidate again.
Unmarked(ranking, bad) ==
    LET left == SelectSeq(ranking, LAMBDA h : h \notin bad) IN
    IF left = <<>> THEN ranking ELSE left

CandidateOrder(ranking, bad) ==
    LET left == Unmarked(ranking, bad) IN
    IF preferred \in ToSet(left)
    THEN <<preferred>> \o SelectSeq(left, LAMBDA h : h # preferred)
    ELSE left

MarksAfterOrder(bad) == IF bad = Hosts THEN {} ELSE bad

SessionInit ==
    /\ kind \in Kinds
    /\ current = 1
    /\ line = NoLine
    /\ linked = FALSE
    /\ marks = {}
    /\ probed \in (IF kind = "ex" THEN BOOLEAN ELSE {FALSE})
    /\ preferred \in (IF kind = "ex" THEN {0, 1} ELSE {0})
    /\ order \in (IF probed THEN UNION {Rankings(ok) : ok \in SUBSET Hosts} ELSE {HostList})
    /\ probed => preferred = 1 /\ order[1] = 1      \* from_best_host
    /\ call = Idle
    /\ answer = NoAnswer
    /\ steady = 0
    /\ streak = 0

-----------------------------------------------------------------------------
(* The end of a method.                                                    *)

\* The exception that reaches the caller: a call raises it, or a connect() of
\* the caller's own (command 0) does.
Raise(result, doubtful) ==
    /\ call' = Idle
    /\ answer' = [command |-> call.command, of |-> 0, result |-> result, doubt |-> doubtful]
    /\ streak' = IF call.command = 0 \/ result # "failed" THEN streak
                 ELSE IF steady = 0 \/ streak > NHosts THEN streak
                 ELSE streak + 1

Return(of, doubtful) ==
    /\ call' = Idle
    /\ answer' = [command |-> call.command, of |-> of, result |-> "value", doubt |-> doubtful]
    /\ streak' = 0

-----------------------------------------------------------------------------
(* connect()                                                               *)

\* The hosts a connect() will try.  ExTdxClient probes all of them first when
\* it has never done so and has a choice; the probe drops every mark.
Connecting(c, hostNow, bad) ==
    CASE kind = "mac" ->
            /\ call' = [c EXCEPT !.phase = "connect", !.todo = Ring(hostNow)]
            /\ UNCHANGED <<marks, order, probed>>
      [] kind = "macex" ->
            /\ call' = [c EXCEPT !.phase = "connect", !.todo = CurrentFirst(hostNow)]
            /\ UNCHANGED <<marks, order, probed>>
      [] kind = "explain" ->
            /\ call' = [c EXCEPT !.phase = "connect", !.todo = CandidateOrder(order, bad)]
            /\ marks' = MarksAfterOrder(bad)
            /\ UNCHANGED <<order, probed>>
      [] OTHER ->
            IF probed \/ NHosts = 1
            THEN /\ call' = [c EXCEPT !.phase = "connect", !.todo = CandidateOrder(order, bad)]
                 /\ marks' = MarksAfterOrder(bad)
                 /\ UNCHANGED <<order, probed>>
            ELSE \E ok \in Answering(Hosts) : \E ranking \in Rankings(ok) :
                 /\ order' = ranking
                 /\ probed' = TRUE
                 /\ marks' = {}
                 /\ call' = [c EXCEPT !.phase = "connect", !.todo = CandidateOrder(ranking, {})]

\* The caller's own connect(), also on a client that is connected.
\* MacExClient.ensure_connected is this action, when _connected is FALSE.
Connect ==
    /\ call = Idle
    /\ Connecting(Idle, current, marks)
    /\ UNCHANGED <<kind, current, line, linked, preferred, answer, steady, streak>>

\* A host accepts.  MacConnection does not wait for a handshake answer that is
\* late: it stays on the line.  ExTdxConnection reads the whole answer.
Accepts ==
    /\ call.phase = "connect"
    /\ LET h == Head(call.todo) IN
       /\ \E late \in {<<>>, <<0>>} :
             /\ late # <<>> => kind = "mac" /\ h # steady
             /\ line' = Fresh(h, late)
       /\ current' = h
    /\ linked' = (kind # "mac")
    /\ IF call.command = 0
       THEN /\ call' = Idle
            /\ UNCHANGED <<answer, streak>>
       ELSE IF kind = "ex" /\ call.sends = NHosts
       THEN Raise("failed", FALSE)
       ELSE /\ call' = [call EXCEPT !.phase = "send", !.todo = <<>>]
            /\ UNCHANGED <<answer, streak>>
    /\ UNCHANGED <<kind, marks, order, probed, preferred, steady>>

\* A host refuses, or fails the handshake or the login: the next host is tried.
\* MacExClient has put the new connection in place of the old one by then; a
\* login without an answer leaves it open, the answer still to come.
Refuses ==
    /\ call.phase = "connect"
    /\ LET h == Head(call.todo) IN
       /\ h # steady
       /\ IF kind = "macex"
          THEN line' \in {NoLine, [Fresh(h, <<0>>) EXCEPT !.doubt = TRUE]}
          ELSE UNCHANGED line
       /\ marks' = IF kind \in {"ex", "explain"} THEN marks \cup {h} ELSE marks
    /\ IF Len(call.todo) = 1
       THEN Raise("failed", FALSE)
       ELSE /\ call' = [call EXCEPT !.todo = Tail(@)]
            /\ UNCHANGED <<answer, streak>>
    /\ UNCHANGED <<kind, current, linked, order, probed, preferred, steady>>

\* A host closes the connection after the first handshake packet.  The read is
\* forgiven, the next sendall raises OSError, which connect() does not catch:
\* the remaining hosts are not tried.
Resets ==
    /\ kind = "mac"
    /\ call.phase = "connect"
    /\ Head(call.todo) # steady
    /\ call' = Idle
    /\ answer' = [command |-> call.command, of |-> 0, result |-> "failed", doubt |-> FALSE]
    /\ UNCHANGED <<kind, current, line, linked, marks, order, probed, preferred, steady, streak>>

\* A login answer that does not parse raises ProtocolError out of connect().
LoginMalformed ==
    /\ kind = "macex"
    /\ call.phase = "connect"
    /\ Head(call.todo) # steady
    /\ line' = Fresh(Head(call.todo), <<>>)
    /\ Raise("malformed", FALSE)
    /\ UNCHANGED <<kind, current, linked, marks, order, probed, preferred, steady>>

\* close().
Close ==
    /\ call = Idle
    /\ line' = NoLine
    /\ linked' = FALSE
    /\ UNCHANGED <<kind, current, marks, order, probed, preferred, call, answer, steady, streak>>

\* ExTdxClient.refresh_hosts: a full probe, nobody is left out.
RefreshHosts ==
    /\ kind = "ex"
    /\ call = Idle
    /\ \E ok \in SUBSET Hosts :
          /\ steady # 0 => steady \in ok
          /\ order' \in Rankings(ok)
    /\ marks' = {}
    /\ probed' = TRUE
    /\ UNCHANGED <<kind, current, line, linked, preferred, call, answer, steady, streak>>

-----------------------------------------------------------------------------
(* _execute()                                                              *)

Connected == IF kind = "mac" THEN line # NoLine ELSE linked

Execute(c) ==
    /\ call = Idle
    /\ IF Connected
       THEN /\ call' = [Idle EXCEPT !.phase = "send", !.command = c]
            /\ UNCHANGED <<marks, order, probed>>
       ELSE Connecting([Idle EXCEPT !.command = c], current, marks)
    /\ UNCHANGED <<kind, current, line, linked, preferred, answer, steady, streak>>

\* The first whole answer on the line is read and taken for the command's.
Answers ==
    /\ call.phase = "send"
    /\ line.up
    /\ LET pipe == Append(line.pipe, call.command) IN
       /\ line' = [line EXCEPT !.pipe = Tail(pipe)]
       /\ Return(Head(pipe), line.doubt)
    /\ marks' = IF kind = "ex" THEN marks \ {current} ELSE marks
    /\ UNCHANGED <<kind, current, linked, order, probed, preferred, steady>>

\* The frame is read whole and does not decode: ProtocolError is nobody's
\* reason to retry.
Malformed ==
    /\ call.phase = "send"
    /\ line.up
    /\ line.host # steady
    /\ line' = [line EXCEPT !.pipe = Tail(Append(@, call.command))]
    /\ Raise("malformed", line.doubt)
    /\ UNCHANGED <<kind, current, linked, marks, order, probed, preferred, steady>>

\* The exchange fails: the host closed the line, or no answer came in time and
\* it is still to be read.
Broken ==
    { [line EXCEPT !.up = FALSE] }
        \cup (IF line.up /\ Len(line.pipe) < MaxLate
              THEN {[line EXCEPT !.pipe = Append(@, call.command)]}
              ELSE {})

\* Mutant of MacRetry: the command goes out again on the line that failed.
MacRetryOnTheLine ==
    /\ line' \in { broken \in Broken : broken.up }
    /\ call' = [call EXCEPT !.sends = 1]
    /\ UNCHANGED <<current, linked, marks, order, probed, answer, streak>>

\* MacClient gives up the line and its host, and tries the others once.
MacRetry ==
    /\ line' = NoLine
    /\ current' = (current % NHosts) + 1
    /\ Connecting([call EXCEPT !.sends = 1], (current % NHosts) + 1, marks)
    /\ UNCHANGED <<linked, answer, streak>>

\* MacExClient reconnects, to the same host first.
MacExRetry ==
    /\ line' = NoLine
    /\ linked' = FALSE
    /\ Connecting([call EXCEPT !.sends = 1], current, marks)
    /\ UNCHANGED <<current, answer, streak>>

\* _reprobe_remaining, when it leaves the ranking as it is.
NothingToProbe(bad) == Cardinality(Hosts \ bad) <= 1

\* Mutant of ExRetry: the host that failed is not marked.
ExRetryUnmarked ==
    \E ranking \in (IF NothingToProbe(marks) THEN {order}
                    ELSE UNION {Rankings(ok) : ok \in Answering(Hosts \ marks)}) :
        /\ line' = NoLine
        /\ linked' = FALSE
        /\ order' = ranking
        /\ marks' = MarksAfterOrder(marks)
        /\ call' = [call EXCEPT !.phase = "connect", !.sends = @ + 1,
                                !.todo = CandidateOrder(ranking, marks)]
        /\ UNCHANGED <<current, probed, answer, streak>>

\* ExTdxClient marks the host, asks the unmarked ones again and connects.
ExRetry ==
    LET bad == marks \cup {current} IN
    \E ranking \in (IF NothingToProbe(bad) THEN {order}
                    ELSE UNION {Rankings(ok) : ok \in Answering(Hosts \ bad)}) :
        /\ line' = NoLine
        /\ linked' = FALSE
        /\ order' = ranking
        /\ marks' = MarksAfterOrder(bad)
        /\ call' = [call EXCEPT !.phase = "connect", !.sends = @ + 1,
                                !.todo = CandidateOrder(ranking, bad)]
        /\ UNCHANGED <<current, probed, answer, streak>>

\* The second failure of a call, and the first one of a client without
\* failover, goes to the caller and leaves the line as it is.
GiveUp ==
    /\ \E broken \in Broken : line' = [broken EXCEPT !.doubt = TRUE]
    /\ Raise("failed", line.doubt)
    /\ UNCHANGED <<current, linked, marks, order, probed>>

Fails ==
    /\ call.phase = "send"
    /\ line.up => line.host # steady
    /\ CASE kind = "mac" /\ call.sends = 0 -> MacRetry
         [] kind = "macex" /\ call.sends = 0 -> MacExRetry
         [] kind = "ex" -> ExRetry
         [] OTHER -> GiveUp
    /\ UNCHANGED <<kind, preferred, steady>>

-----------------------------------------------------------------------------

\* From now on one host accepts and answers at once.
BecomesSteady(h) ==
    /\ call = Idle
    /\ steady = 0
    /\ steady' = h
    /\ UNCHANGED <<kind, current, line, linked, marks, order, probed, preferred,
                   call, answer, streak>>

SessionNext ==
    \/ Connect
    \/ Close
    \/ RefreshHosts
    \/ \E c \in Commands : Execute(c)
    \/ Accepts
    \/ Refuses
    \/ Resets
    \/ LoginMalformed
    \/ Answers
    \/ Malformed
    \/ Fails
    \/ \E h \in Hosts : BecomesSteady(h)

SessionSpec == SessionInit /\ [][SessionNext]_sessionVars

-----------------------------------------------------------------------------

\* A client that was told of no failure gets its own answers: what a call
\* returns belongs to its command unless the line it was read from kept a late
\* handshake answer or outlived an exchange whose failure the caller saw.  The
\* retries inside _execute never read behind an answer that is still to come.
OwnAnswers ==
    answer.result = "value" /\ ~answer.doubt => answer.of = answer.command

\* The failover reaches a host that answers: with ExTdxClient two calls in a
\* row cannot fail, whatever marks the hosts carry ("the session is not locked
\* out"), and MacClient's ring reaches the host before it has gone round.
\* A reset in the middle of MacClient's handshake is no part of this: it ends
\* the call at once (Resets).  MacExClient is left out: it returns to its
\* current host first.
FailoverReachesALivingHost ==
    /\ kind = "ex" => streak <= 1
    /\ kind = "mac" => streak < NHosts

=============================================================================
