---------------------------- MODULE MCStatsdPackets ----------------------------
(***************************************************************************)
(* Multi-line datagrams (spec.md section 4.5): a datagram is split on     *)
(* newlines and every line is counted, parsed and queued on its own, so   *)
(* one malformed line does not affect the others (section 8, scenarios 7  *)
(* and 8).  The socket holds two datagrams, each of one or two lines      *)
(* drawn from a pool that has a good line, a sampled counter, a multi-   *)
(* sample line, a mixed-style line, a line with invalid UTF-8 and the     *)
(* empty line: an empty last line is a datagram ending in a newline.      *)
(* BufSize is the read buffer's size in symbols; a datagram longer than   *)
(* it is cut where the buffer ends.                                       *)
(***************************************************************************)
EXTENDS StatsdListener, StatsdProtocol

VARIABLE sources   \* the lines each datagram was written from

mcVars == <<vars, sources>>

EmptyLine == [empty |-> TRUE]

Tag(k, v) == [key |-> k, sep |-> TRUE, val |-> v, hash |-> FALSE]
Smp(v, t) == [value |-> v, type |-> t, mods |-> <<>>]

Good   == [name |-> <<"f">>, style |-> "none", ntags |-> <<>>, samples |-> <<Smp(<<"1">>, "c")>>]
Sampled == [Good EXCEPT !.samples = <<[Smp(<<"1">>, "c") EXCEPT !.mods = <<[kind |-> "rate", body |-> <<"0.5">>]>>]>>]
Multi  == [Good EXCEPT !.samples = <<Smp(<<"2">>, "ms"), Smp(<<"x">>, "c"), Smp(<<"3">>, "s")>>]
Mixed  == [name |-> <<"f">>, style |-> "librato", ntags |-> <<Tag(<<"a">>, <<"b">>)>>,
           samples |-> <<[Smp(<<"1">>, "c") EXCEPT !.mods = <<[kind |-> "tags", tags |-> <<Tag(<<"c">>, <<"d">>)>>]>>]>>]
BadUTF8 == [Good EXCEPT !.ntags = <<Tag(<<"a">>, <<BadByte>>)>>, !.style = "influx"]

Pool == {Good, Sampled, Multi, Mixed, BadUTF8, EmptyLine}

\* A sampled counter longer than the buffer, beside a line that fits it.
LongLinePool == {Good, Sampled}

Datagram == {<<l>> : l \in Pool} \cup {<<l, m>> : l, m \in Pool}

RenderItem(x) == IF x = EmptyLine THEN <<>> ELSE Render(x)
RenderDatagram(d) == JoinWith(d, RenderItem, "\n")

MCInit ==
    /\ sources \in Datagram \X Datagram
    /\ socket = [i \in 1 .. 2 |-> RenderDatagram(sources[i])]
    /\ queued = <<>>
    /\ metrics = NoMetrics

MCNext == HandlePacket /\ UNCHANGED sources

MCSpec == MCInit /\ [][MCNext]_mcVars

\* What spec.md gives every line of the handled datagrams, in order.
SpecLines == FlattenSeq([i \in 1 .. 2 - Len(socket) |-> sources[i]])
LineEvents(x) == IF x = EmptyLine THEN <<>> ELSE SpecEvents(x)
LineErrors(x) == IF x = EmptyLine THEN <<>> ELSE SpecLineErrors(x)

-----------------------------------------------------------------------------
\* After each datagram HandlePacket has handled, the packets and lines
\* counted, the events queued and the sample_errors counted are those the
\* spec gives the datagrams line by line: every line, the empty one a
\* trailing newline leaves included, is counted and parsed on its own,
\* and a rejected line takes nothing of its neighbours with it.
PacketsAsSpecified ==
    LET lines == SpecLines
    IN  /\ metrics.packets = 2 - Len(socket)
        /\ metrics.linesReceived = Len(lines)
        /\ FlattenSeq(queued) = FlattenSeq([i \in DOMAIN lines |-> LineEvents(lines[i])])
        /\ \A r \in Reasons :
              metrics.sampleErrors[r] =
                  Len(SelectSeq(FlattenSeq([i \in DOMAIN lines |-> LineErrors(lines[i])]),
                                LAMBDA e : e = r))

=============================================================================
