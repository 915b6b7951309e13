---------------------------- MODULE StatsdListener ----------------------------
(***************************************************************************)
(* The datagram listeners of package listener (StatsDUDPListener and      *)
(* StatsDUnixgramListener, src/pkg/listener/listener.go lines 17-51 and   *)
(* 104-138).  Listen reads one datagram at a time and HandlePacket splits *)
(* it into lines, parses each with LineToEvents and hands the events of   *)
(* each line to the event handler with one Queue call.                    *)
(*                                                                         *)
(* The event handler is represented by the sequence of the Events values  *)
(* it was given (queued); the EventQueue module models what it does with  *)
(* them.  The Prometheus counters are one record, metrics.                *)
(***************************************************************************)
EXTENDS Integers, Sequences, SequencesExt, StatsdLine

CONSTANTS
    Datagrams,    \* the sequences of datagrams a socket can deliver
    BufSize       \* the read buffer's size (65535 bytes), in symbols

ASSUME BufSize \in Nat \ {0}

VARIABLES
    socket,    \* datagrams not yet read
    queued,    \* the Events of each Queue call, in call order
    metrics    \* the counters the listener and the parser increment

vars == <<socket, queued, metrics>>

NoMetrics == [packets |-> 0, linesReceived |-> 0, samplesReceived |-> 0,
              tagErrors |-> 0, tagsReceived |-> 0,
              sampleErrors |-> [r \in Reasons |-> 0]]

\* The parser's counters of one line added to the listener's.
AddLineCounters(m, r) ==
    [m EXCEPT !.samplesReceived = @ + r.samplesReceived,
              !.tagErrors       = @ + r.tagErrors,
              !.tagsReceived    = @ + r.tagsReceived,
              !.sampleErrors    = [x \in Reasons |-> @[x] + r.sampleErrors[x]]]

IsEvent(e) ==
    /\ e.kind \in {"counter", "gauge", "timer"}
    /\ e.name \in STRING /\ e.relative \in BOOLEAN
    /\ e.value.num \in Int /\ e.value.den \in Nat
    /\ \A k \in DOMAIN e.labels : k \in STRING /\ e.labels[k] \in STRING

TypeOK ==
    /\ socket \in Seq(Seq(STRING))
    /\ \A i \in DOMAIN queued : \A j \in DOMAIN queued[i] : IsEvent(queued[i][j])
    /\ DOMAIN metrics = DOMAIN NoMetrics
    /\ \A f \in DOMAIN NoMetrics \ {"sampleErrors"} : metrics[f] \in Nat
    /\ metrics.sampleErrors \in [Reasons -> Nat]

Init ==
    /\ socket \in Datagrams
    /\ queued = <<>>
    /\ metrics = NoMetrics

\* What a read into the buffer returns of a datagram: a longer datagram
\* is cut at the buffer's size and the rest is discarded, without error.
Received(d) == SubSeq(d, 1, IF Len(d) > BufSize THEN BufSize ELSE Len(d))

\* A variant with a plausible fault, for mutation analysis: a trailing
\* newline is trimmed before the split, so it yields no empty line.
HandlePacketTrimTrailing ==
    /\ socket # <<>>
    /\ LET split   == SplitOn(Received(Head(socket)), "\n")
           lines   == IF Len(split) > 1 /\ Last(split) = <<>> THEN Front(split) ELSE split
           results == [i \in DOMAIN lines |-> LineToEvents(lines[i])]
       IN  /\ queued' = queued \o [i \in DOMAIN results |-> results[i].events]
           /\ metrics' = FoldLeft(AddLineCounters,
                                  [metrics EXCEPT !.packets = @ + 1,
                                                  !.linesReceived = @ + Len(lines)],
                                  results)
    /\ socket' = Tail(socket)

\* One iteration of Listen's loop: read a datagram into the buffer and
\* HandlePacket it:
\* count the packet, split it on newlines, and for every line count it,
\* parse it and Queue its events.
HandlePacket ==
    /\ socket # <<>>
    /\ LET lines   == SplitOn(Received(Head(socket)), "\n")
           results == [i \in DOMAIN lines |-> LineToEvents(lines[i])]
       IN  /\ queued' = queued \o [i \in DOMAIN results |-> results[i].events]
           /\ metrics' = FoldLeft(AddLineCounters,
                                  [metrics EXCEPT !.packets = @ + 1,
                                                  !.linesReceived = @ + Len(lines)],
                                  results)
    /\ socket' = Tail(socket)

\* Closing the socket makes the read fail with "use of closed network
\* connection" and Listen return: nothing more is read.
Next == HandlePacket

Spec == Init /\ [][Next]_vars

=============================================================================
