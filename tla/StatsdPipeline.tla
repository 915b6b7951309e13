---------------------------- MODULE StatsdPipeline ----------------------------
(***************************************************************************)
(* The ingestion pipeline: listener tasks (the UDP and Unixgram Listen    *)
(* loops and one task per TCP connection, src/pkg/listener/listener.go)   *)
(* parse lines and hand each line's events to the shared EventQueue with *)
(* one Queue call; the queue's ticker and the exporter run beside them.   *)
(*                                                                         *)
(* A line's events are abstracted to how many there are: LineToEvents     *)
(* yields zero (a malformed line), one, or several (multi-sample lines,   *)
(* sampled timers), as MCStatsdParser checks.  Each event is named by its *)
(* task and a per-task number, so order and loss can be observed.         *)
(***************************************************************************)
EXTENDS Naturals, Sequences, SequencesExt, EventQueue

CONSTANTS
    MaxLines,         \* lines each listener task reads
    MaxEventsPerLine  \* the most events one line yields

VARIABLES
    lines,            \* lines each task has read
    linesReceived     \* the lines_received counter

vars == <<queueVars, lines, linesReceived>>

\* The events of a task's next line: the next k numbers of that task.
LineEvents(p, k) ==
    LET base == Len(SelectSeq(accepted, LAMBDA e : e[1] = p))
    IN  [i \in 1 .. k |-> <<p, base + i>>]

Init ==
    /\ QueueInit
    /\ lines = [p \in Callers |-> 0]
    /\ linesReceived = 0

\* One iteration of a listener task's line loop (HandlePacket's loop over
\* the lines of a datagram, HandleConn's ReadLine loop): count the line,
\* parse it, and call Queue with its events.  A task's previous Queue call
\* has returned.
HandleLine(p) ==
    /\ lines[p] < MaxLines
    /\ \E k \in 0 .. MaxEventsPerLine :
          QueueCall(p, LineEvents(p, k) )
    /\ lines' = [lines EXCEPT ![p] = @ + 1]
    /\ linesReceived' = linesReceived + 1

Next ==
    \/ \E p \in Callers : HandleLine(p)
    \/ QueueStep /\ UNCHANGED <<lines, linesReceived>>

Spec == Init /\ [][Next]_vars /\ QueueFairness

-----------------------------------------------------------------------------
(* Properties.                                                            *)

\* The queue implements the pipe of EventPipe: what the exporter receives
\* is always a prefix of what Queue accepted, in acceptance order, in
\* batches of at most FlushThreshold, and every accepted event is
\* eventually received, the last partial batch by the ticker's flush.
Pipe == INSTANCE EventPipe WITH in <- accepted, out <- FlattenSeq(received),
                               MaxBatch <- FlushThreshold
QueueCallsReturn ==
    \A c \in Callers : qstate[c] # "idle" ~> qstate[c] = "idle"

=============================================================================
