--------------------------- MODULE MCStatsdShutdown ---------------------------
(***************************************************************************)
(* Model values for StatsdShutdown: one UDP listener and one TCP          *)
(* connection when the supervisor shuts the pipeline down.                *)
(***************************************************************************)
EXTENDS StatsdShutdown, TLC

CONSTANTS u, x, c1, c2

UdpTasks   == {u}
OneConn    == {c1}
UdpAndConn == {u, c1}

\* Datagrams of two lines and of one; a read error between datagrams.
MCDgramStreams == {<<[lines |-> 2]>>, <<[lines |-> 1], ReadError, [lines |-> 1]>>}

\* A line then EOF; a line after an over-long one; a line after a read
\* error.
MCConnStreams == {<<"line">>, <<"line", "long", "line">>, <<"err", "line">>}

=============================================================================
