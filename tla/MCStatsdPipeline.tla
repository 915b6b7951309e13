--------------------------- MODULE MCStatsdPipeline ---------------------------
(* Two listener tasks, batches of two, a channel that holds one batch.   *)
EXTENDS StatsdPipeline, TLC

CONSTANTS p1, p2

MCCallers == {p1, p2}

=============================================================================
