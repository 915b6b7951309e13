---------------------------- MODULE StatsdShutdown ----------------------------
(***************************************************************************)
(* Shutdown of the ingestion pipeline as spec.md section 5 describes it:  *)
(* the supervisor closes the listening sockets, which makes the Listen    *)
(* tasks return; it then calls FlushUnsafe once and closes the channel C. *)
(* The supervisor (package main) is not in this repository; its steps     *)
(* are modelled from the spec.  The listener tasks are StatsdServer's:    *)
(* closing a socket ends the read loops of the datagram listeners and the *)
(* accept loop (the "use of closed network connection" returns), but not  *)
(* the HandleConn tasks of connections already accepted (line 75 starts   *)
(* them and keeps no handle on them).                                     *)
(***************************************************************************)
EXTENDS StatsdServer

VARIABLE supState   \* "running", "closed sockets", "flushing", "flushed", "closed C"

allVars == <<vars, supState>>

SInit == Init /\ supState = "running"

\* The supervisor closes the listening sockets; the accept loop returns.
CloseSockets ==
    /\ supState = "running"
    /\ supState' = "closed sockets"
    /\ acceptState' = "done"
    /\ UNCHANGED <<queueVars, dgState, dgStream, dgPos, dgPending, dgLines, connState,
                   connStream, connPos, counters, exitCause>>

\* A variant with a plausible fault, for mutation analysis: the read
\* fails only once the socket holds nothing more.
ListenReturnsWhenDrained(t) ==
    /\ supState # "running"
    /\ dgState[t] = "read" /\ qstate[t] = "idle"
    /\ dgPos[t] = Len(dgStream[t])
    /\ dgState' = [dgState EXCEPT ![t] = "done"]
    /\ UNCHANGED <<queueVars, dgStream, dgPos, dgPending, dgLines, acceptState,
                   connState, connStream, connPos, counters, exitCause, supState>>

\* A datagram listener's next read fails with the closed socket: Listen
\* returns.
ListenReturns(t) ==
    /\ supState # "running"
    /\ dgState[t] = "read" /\ qstate[t] = "idle"
    /\ dgState' = [dgState EXCEPT ![t] = "done"]
    /\ UNCHANGED <<queueVars, dgStream, dgPos, dgPending, dgLines, acceptState,
                   connState, connStream, connPos, counters, exitCause, supState>>

\* Once every Listen task has returned, FlushUnsafe: without the queue's
\* mutex, send what is buffered (blocking while C is full) ...
SupFlushSend ==
    /\ supState = "closed sockets"
    /\ \A t \in DgramTasks : dgState[t] = "done"
    /\ q # <<>> /\ Len(ch) < ChanCap
    /\ ch' = Append(ch, q)
    /\ supState' = "flushing"
    /\ UNCHANGED <<q, holder, qstate, incoming, eventsFlushed, accepted, received, serverVars>>

\* ... then empty the buffer and count the flush.
SupFlushCut ==
    /\ supState = "flushing"
    /\ q' = <<>>
    /\ eventsFlushed' = eventsFlushed + 1
    /\ supState' = "flushed"
    /\ UNCHANGED <<ch, holder, qstate, incoming, accepted, received, serverVars>>

\* An empty buffer is not sent.
SupFlushSkip ==
    /\ supState = "closed sockets"
    /\ \A t \in DgramTasks : dgState[t] = "done"
    /\ q = <<>>
    /\ supState' = "flushed"
    /\ UNCHANGED <<queueVars, serverVars>>

\* close(C); main returns and the process ends.
CloseChannel ==
    /\ supState = "flushed"
    /\ supState' = "closed C"
    /\ UNCHANGED <<queueVars, serverVars>>

\* Before shutdown everything of StatsdServer runs; after the sockets are
\* closed, datagram tasks finish their packet and return, connection tasks
\* go on, and the queue's tasks run until C is closed.
\* A step of the listener and queue tasks that keep running after the
\* sockets are closed.
Draining(A) ==
    /\ supState \in {"closed sockets", "flushing", "flushed"}
    /\ A
    /\ UNCHANGED supState

SNext ==
    /\ Alive
    /\ \/ supState = "running" /\ Next /\ UNCHANGED supState
       \/ CloseSockets
       \/ \E t \in DgramTasks : Draining(DgramLine(t) \/ ListenReturns(t))
       \/ \E c \in Conns : Draining(ConnStep(c))
       \/ Draining(QueueStep /\ UNCHANGED serverVars)
       \/ SupFlushSend \/ SupFlushCut \/ SupFlushSkip \/ CloseChannel

SSpec == SInit /\ [][SNext]_allVars

\* The supervisor (main) runs its shutdown to the end; the tasks that
\* keep running are fair as in StatsdServer.  No fairness on
\* CloseSockets: the signal that starts shutdown may never come.
SFairness ==
    /\ WF_allVars(Alive /\ (SupFlushSend \/ SupFlushCut \/ SupFlushSkip \/ CloseChannel))
    /\ \A t \in DgramTasks : WF_allVars(Alive /\ Draining(DgramLine(t) \/ ListenReturns(t)))
    /\ \A c \in Conns : WF_allVars(Alive /\ Draining(ConnStep(c)))
    /\ WF_allVars(Alive /\ Draining(Consume /\ UNCHANGED serverVars))
    /\ SF_allVars(Alive /\ Draining(TickLock /\ UNCHANGED serverVars))
    /\ WF_allVars(Alive /\ Draining((TickSend \/ TickCut \/ TickSkip) /\ UNCHANGED serverVars))
    /\ \A c \in Callers : SF_allVars(Alive /\ Draining(QueueLock(c) /\ UNCHANGED serverVars))
    /\ \A c \in Callers :
           WF_allVars(Alive /\ Draining((QueueSend(c) \/ QueueCut(c) \/ QueueUnlock(c))
                                       /\ UNCHANGED serverVars))

SFairSpec == SSpec /\ SFairness

-----------------------------------------------------------------------------
\* When the supervisor closes C, every event a listener handed to Queue has
\* been sent on C exactly once and in order: the final FlushUnsafe leaves
\* nothing behind.
NothingLostAtClose ==
    supState = "closed C" => FlattenSeq(received) \o FlattenSeq(ch) = accepted

\* Once the sockets are closed, main's shutdown completes: every datagram
\* listener returns (the closed socket fails its next read, lines 35-36
\* and 121-122), the final FlushUnsafe gets room in C, and C is closed,
\* whatever the TCP connections still open and the Queue calls holding
\* the mutex do.
ShutdownCompletes ==
    supState = "closed sockets" ~> supState = "closed C"

=============================================================================
