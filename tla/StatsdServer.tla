----------------------------- MODULE StatsdServer -----------------------------
(***************************************************************************)
(* The listeners of package listener running together and feeding the     *)
(* event queue (src/pkg/listener/listener.go lines 17-138): datagram      *)
(* listeners (UDP and Unixgram Listen with HandlePacket), the TCP accept  *)
(* loop (StatsDTCPListener.Listen) and one HandleConn task per accepted   *)
(* connection, with the queue's ticker and the exporter beside them.      *)
(*                                                                         *)
(* What peers send is fixed in the initial state: each datagram socket    *)
(* holds a sequence of datagrams (a number of lines) and read errors, and *)
(* each TCP connection a sequence of lines, over-long lines and read      *)
(* errors, ended by EOF.  Every line yields one event, <<task, n>> for    *)
(* the task's n-th line; what a line parses to is MCStatsdParser's part.  *)
(***************************************************************************)
EXTENDS Naturals, Sequences, SequencesExt, EventQueue

CONSTANTS
    DgramTasks,      \* the datagram listeners' Listen tasks
    UnixgramTasks,   \* those of them that read a Unixgram socket
    Conns,           \* the TCP connections peers open
    DgramStreams,    \* what a UDP socket can deliver
    UnixgramStreams, \* what a Unixgram socket can deliver
    ConnStreams      \* what a TCP peer can send before closing

ASSUME UnixgramTasks \subseteq DgramTasks /\ Callers = DgramTasks \cup Conns

VARIABLES
    dgState,     \* "read", "lines" (in HandlePacket's loop) or "done"
    dgStream,    \* the datagrams and read errors the socket delivers
    dgPos,       \* items of dgStream read so far
    dgPending,   \* lines of the current datagram not yet queued
    dgLines,     \* lines the task has read
    acceptState, \* the accept loop: "accept"
    connState,   \* "connecting", "read" (in HandleConn's loop) or "closed"
    connStream,  \* what each peer sends
    connPos,     \* items of connStream read so far
    counters,    \* the listeners' Prometheus counters
    exitCause    \* "none", or why os.Exit ended the process

serverVars == <<dgState, dgStream, dgPos, dgPending, dgLines, acceptState, connState,
                connStream, connPos, counters, exitCause>>
vars == <<queueVars, serverVars>>

\* The lines a task reads before its socket fails or the connection ends.
\* A datagram is a record [lines |-> n]; a read error is ReadError.
ReadError == [err |-> TRUE]

GoodItems(s, bad) ==
    LET i == SelectInSeq(s, LAMBDA it : it \in bad)
    IN  IF i = 0 THEN s ELSE SubSeq(s, 1, i - 1)

ExpectedLines(t) ==
    IF t \in Conns THEN Len(GoodItems(connStream[t], {"err", "long"}))
    ELSE FoldLeft(LAMBDA n, d : n + d.lines, 0, GoodItems(dgStream[t], {ReadError}))

Expected(t)  == [i \in 1 .. ExpectedLines(t) |-> <<t, i>>]
Delivered(t) == SelectSeq(FlattenSeq(received), LAMBDA e : e[1] = t)

Counters == [udpPackets |-> 0, unixgramPackets |-> 0, linesReceived |-> 0, tcpConnections |-> 0,
             tcpErrors |-> 0, tcpLineTooLong |-> 0]

\* A Unixgram task's socket delivers from UnixgramStreams, a UDP task's
\* from DgramStreams.
SocketStreams(t) == IF t \in UnixgramTasks THEN UnixgramStreams ELSE DgramStreams

TypeOK ==
    /\ q \in Seq(Callers \X Nat)
    /\ holder \in Tasks \cup {NoHolder}
    /\ qstate \in [Tasks -> QStates]
    /\ dgState \in [DgramTasks -> {"read", "lines", "done"}]
    /\ dgPending \in [DgramTasks -> Nat]
    /\ connState \in [Conns -> {"connecting", "read", "closed"}]
    /\ \A t \in Conns : connPos[t] \in 0 .. Len(connStream[t])
    /\ counters \in [DOMAIN Counters -> Nat]
    /\ exitCause \in {"none", "accept", "unixgram"}

Init ==
    /\ QueueInit
    /\ dgState = [t \in DgramTasks |-> "read"]
    /\ dgStream \in [DgramTasks -> DgramStreams \cup UnixgramStreams]
    /\ \A t \in DgramTasks : dgStream[t] \in SocketStreams(t)
    /\ dgPos = [t \in DgramTasks |-> 0]
    /\ dgPending = [t \in DgramTasks |-> 0]
    /\ dgLines = [t \in DgramTasks |-> 0]
    /\ acceptState = "accept"
    /\ connState = [c \in Conns |-> "connecting"]
    /\ connStream \in [Conns -> ConnStreams]
    /\ connPos = [c \in Conns |-> 0]
    /\ counters = Counters
    /\ exitCause = "none"

Count(f) == counters' = [counters EXCEPT ![f] = @ + 1]

-----------------------------------------------------------------------------
(* Datagram listeners: Listen's read loop and HandlePacket.               *)

\* The item the task's next read returns, once its last Queue call has
\* returned; reads block when the socket holds nothing more.
DgramItem(t) ==
    IF dgState[t] = "read" /\ qstate[t] = "idle" /\ dgPos[t] < Len(dgStream[t])
    THEN dgStream[t][dgPos[t] + 1] ELSE [none |-> TRUE]

\* A variant with a plausible fault, for mutation analysis: the datagram's
\* last line is dropped, as a split that trims one element too many would.
DgramReadDropLast(t, packets) ==
    /\ "lines" \in DOMAIN DgramItem(t)
    /\ dgPending' = [dgPending EXCEPT ![t] = DgramItem(t).lines - 1]
    /\ dgPos' = [dgPos EXCEPT ![t] = @ + 1]
    /\ dgState' = [dgState EXCEPT ![t] = IF DgramItem(t).lines = 1 THEN "read" ELSE "lines"]
    /\ Count(packets)
    /\ UNCHANGED <<queueVars, dgStream, dgLines, acceptState, connState, connStream,
                   connPos, exitCause>>

\* A read returns a datagram; HandlePacket counts it on its listener's
\* packets counter and starts on its lines.  The task's last Queue call
\* has returned.
DgramRead(t, packets) ==
    /\ "lines" \in DOMAIN DgramItem(t)
    /\ dgPending' = [dgPending EXCEPT ![t] = DgramItem(t).lines]
    /\ dgPos' = [dgPos EXCEPT ![t] = @ + 1]
    /\ dgState' = [dgState EXCEPT ![t] = "lines"]
    /\ Count(packets)
    /\ UNCHANGED <<queueVars, dgStream, dgLines, acceptState, connState, connStream,
                   connPos, exitCause>>

\* StatsDUDPListener.Listen: ReadFromUDP returns and HandlePacket counts
\* udp_packets.
UDPRead(t) == t \notin UnixgramTasks /\ DgramRead(t, "udpPackets")

\* StatsDUnixgramListener.Listen: ReadFromUnix returns and its own
\* HandlePacket counts unixgram_packets.
UnixgramRead(t) == t \in UnixgramTasks /\ DgramRead(t, "unixgramPackets")

\* A variant with a plausible fault, for mutation analysis: the loop over
\* lines runs once more than there are lines.
DgramLineNoGuard(t) ==
    /\ dgState[t] = "lines" /\ qstate[t] = "idle"
    /\ QueueCall(t, <<<<t, dgLines[t] + 1>>>>)
    /\ dgLines' = [dgLines EXCEPT ![t] = @ + 1]
    /\ dgPending' = [dgPending EXCEPT ![t] = @ - 1]
    /\ dgState' = [dgState EXCEPT ![t] = IF dgPending[t] = 0 THEN "read" ELSE "lines"]
    /\ Count("linesReceived")
    /\ UNCHANGED <<dgStream, dgPos, acceptState, connState, connStream, connPos, exitCause>>

\* One iteration of HandlePacket's loop: count the line and Queue its
\* events; after the last line the task reads again.
DgramLine(t) ==
    /\ dgState[t] = "lines" /\ qstate[t] = "idle"
    /\ dgPending[t] > 0
    /\ QueueCall(t, <<<<t, dgLines[t] + 1>>>>)
    /\ dgLines' = [dgLines EXCEPT ![t] = @ + 1]
    /\ dgPending' = [dgPending EXCEPT ![t] = @ - 1]
    /\ dgState' = [dgState EXCEPT ![t] = IF dgPending[t] = 1 THEN "read" ELSE "lines"]
    /\ Count("linesReceived")
    /\ UNCHANGED <<dgStream, dgPos, acceptState, connState, connStream, connPos, exitCause>>

\* A read error: the UDP loop logs it and returns, the Unixgram loop
\* calls os.Exit(1).
UDPReadError(t) ==
    /\ t \notin UnixgramTasks
    /\ DgramItem(t) = ReadError
    /\ dgPos' = [dgPos EXCEPT ![t] = @ + 1]
    /\ dgState' = [dgState EXCEPT ![t] = "done"]
    /\ UNCHANGED <<queueVars, dgStream, dgPending, dgLines, acceptState, connState, connStream,
                   connPos, counters, exitCause>>

UnixgramReadError(t) ==
    /\ t \in UnixgramTasks
    /\ DgramItem(t) = ReadError
    /\ exitCause' = "unixgram"
    /\ UNCHANGED <<queueVars, dgState, dgStream, dgPos, dgPending, dgLines, acceptState,
                   connState, connStream, connPos, counters>>

-----------------------------------------------------------------------------
(* TCP: the accept loop and HandleConn.                                   *)

\* AcceptTCP returns a connection; a HandleConn task starts for it and
\* counts it.
AcceptConn(c) ==
    /\ acceptState = "accept"
    /\ connState[c] = "connecting"
    /\ connState' = [connState EXCEPT ![c] = "read"]
    /\ Count("tcpConnections")
    /\ UNCHANGED <<queueVars, dgState, dgStream, dgPos, dgPending, dgLines, acceptState,
                   connStream, connPos, exitCause>>

\* AcceptTCP fails for a reason other than the closed socket (too many
\* open files, a connection reset before accept): os.Exit(1).
AcceptFails ==
    /\ acceptState = "accept"
    /\ exitCause' = "accept"
    /\ UNCHANGED <<queueVars, dgState, dgStream, dgPos, dgPending, dgLines, acceptState,
                   connState, connStream, connPos, counters>>

\* The item ReadLine returns next.
NextItem(c) == connStream[c][connPos[c] + 1]

HasItem(c) ==
    /\ connState[c] = "read" /\ qstate[c] = "idle"
    /\ connPos[c] < Len(connStream[c])

\* ReadLine returns a complete line: count it and Queue its events.
ConnLine(c) ==
    /\ HasItem(c) /\ NextItem(c) = "line"
    /\ QueueCall(c, <<<<c, connPos[c] + 1>>>>)
    /\ connPos' = [connPos EXCEPT ![c] = @ + 1]
    /\ Count("linesReceived")
    /\ UNCHANGED <<dgState, dgStream, dgPos, dgPending, dgLines, acceptState, connState,
                   connStream, exitCause>>

\* A variant with a plausible fault, for mutation analysis: an over-long
\* line is skipped and the loop goes on.
ConnTooLongContinue(c) ==
    /\ HasItem(c) /\ NextItem(c) = "long"
    /\ connPos' = [connPos EXCEPT ![c] = @ + 1]
    /\ Count("tcpLineTooLong")
    /\ UNCHANGED <<queueVars, dgState, dgStream, dgPos, dgPending, dgLines, acceptState,
                   connState, connStream, exitCause>>

\* isPrefix: the line does not fit bufio's buffer; count it and end the
\* connection.
ConnTooLong(c) ==
    /\ HasItem(c) /\ NextItem(c) = "long"
    /\ connPos' = [connPos EXCEPT ![c] = @ + 1]
    /\ connState' = [connState EXCEPT ![c] = "closed"]
    /\ Count("tcpLineTooLong")
    /\ UNCHANGED <<queueVars, dgState, dgStream, dgPos, dgPending, dgLines, acceptState,
                   connStream, exitCause>>

\* A read error other than EOF: count it and end the connection.
ConnError(c) ==
    /\ HasItem(c) /\ NextItem(c) = "err"
    /\ connPos' = [connPos EXCEPT ![c] = @ + 1]
    /\ connState' = [connState EXCEPT ![c] = "closed"]
    /\ Count("tcpErrors")
    /\ UNCHANGED <<queueVars, dgState, dgStream, dgPos, dgPending, dgLines, acceptState,
                   connStream, exitCause>>

\* EOF: the peer closed; the connection ends uncounted.
ConnEOF(c) ==
    /\ connState[c] = "read" /\ qstate[c] = "idle"
    /\ connPos[c] = Len(connStream[c])
    /\ connState' = [connState EXCEPT ![c] = "closed"]
    /\ UNCHANGED <<queueVars, dgState, dgStream, dgPos, dgPending, dgLines, acceptState,
                   connStream, connPos, counters, exitCause>>

ConnStep(c) == ConnLine(c) \/ ConnTooLong(c) \/ ConnError(c) \/ ConnEOF(c)

DgramStep(t) == UDPRead(t) \/ UnixgramRead(t) \/ DgramLine(t) \/ UDPReadError(t) \/ UnixgramReadError(t)

-----------------------------------------------------------------------------
\* Nothing runs once os.Exit was called.
Alive == exitCause = "none"

Next ==
    /\ Alive
    /\ \/ \E t \in DgramTasks : DgramStep(t)
       \/ \E c \in Conns : AcceptConn(c) \/ ConnStep(c)
       \/ AcceptFails
       \/ QueueStep /\ UNCHANGED serverVars

\* Peers' data is in the sockets, so a listener task that can read does;
\* the queue's tasks are fair as in EventQueue (QueueFairness), while the
\* process runs.  No fairness on AcceptFails: the error may never happen.
Fairness ==
    /\ WF_queueVars(Alive /\ Consume)
    /\ SF_queueVars(Alive /\ TickLock)
    /\ WF_queueVars(Alive /\ (TickSend \/ TickCut \/ TickSkip))
    /\ \A c \in Callers : SF_queueVars(Alive /\ QueueLock(c))
    /\ \A c \in Callers : WF_queueVars(Alive /\ (QueueSend(c) \/ QueueCut(c) \/ QueueUnlock(c)))
    /\ \A t \in DgramTasks : WF_vars(Alive /\ DgramStep(t))
    /\ \A c \in Conns : WF_vars(Alive /\ AcceptConn(c)) /\ WF_vars(Alive /\ ConnStep(c))

Spec == Init /\ [][Next]_vars /\ Fairness

-----------------------------------------------------------------------------
(* Properties.                                                            *)

\* What the exporter receives from each listener task is, in order, a
\* prefix of the lines the task read before its socket failed or its
\* connection ended: no line is lost in the middle, duplicated or
\* reordered across the Queue calls of concurrent tasks, and nothing read
\* past an over-long line or a read error is delivered (HandleConn breaks
\* out of its loop, lines 88-97).
StreamOrder ==
    \A t \in Callers : IsPrefix(Delivered(t), Expected(t))

\* Every line a listener task reads reaches the exporter, the remainder
\* smaller than a batch by the ticker's flush, unless the process exited
\* because AcceptTCP failed (line 73).
AllLinesDelivered ==
    \A t \in Callers : <>(exitCause = "accept" \/ Delivered(t) = Expected(t))

=============================================================================
