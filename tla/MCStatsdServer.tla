---------------------------- MODULE MCStatsdServer ----------------------------
(***************************************************************************)
(* Model values for StatsdServer: datagram listener tasks, connections,   *)
(* and what their peers send.                                             *)
(***************************************************************************)
EXTENDS StatsdServer, TLC

CONSTANTS u, x, c1, c2

\* One UDP listener and two TCP connections.
UdpTasks     == {u}
TwoConns     == {c1, c2}
UdpAndConns  == {u, c1, c2}

\* A UDP and a Unixgram listener and one TCP connection.
DgramPair    == {u, x}
AllCallers   == {u, x, c1}

\* One Unixgram listener and one TCP connection.
UnixTasks    == {x}
OneConn      == {c1}
UnixAndConn  == {x, c1}

\* Datagrams of two lines and of one; a read error between datagrams.
MCDgramStreams == {<<[lines |-> 2]>>, <<[lines |-> 1], ReadError, [lines |-> 1]>>}

\* Unixgram sockets whose reads do not fail (a failing one ends the
\* process: the run unixgram_read_error).
MCUnixgramStreams == {<<[lines |-> 2]>>, <<[lines |-> 1], [lines |-> 1]>>}

\* A line then EOF; a line after an over-long one; a line after a read
\* error.
MCConnStreams == {<<"line">>, <<"line", "long", "line">>, <<"err", "line">>}

=============================================================================
