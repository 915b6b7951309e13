------------------------------ MODULE EventQueue ------------------------------
(***************************************************************************)
(* The event queue of package event (EventQueue: NewEventQueue, Queue,    *)
(* Flush, FlushUnsafe) with its periodic-flush ticker and the exporter    *)
(* that drains its channel.  The package's source is not in this          *)
(* repository's src/; the queue is modelled from spec.md sections 4.3     *)
(* and 5 and the repository's tests of it (event_test.go).                *)
(*                                                                         *)
(* One mutex guards the buffer q.  A caller of Queue appends its events,  *)
(* then, while the buffer holds FlushThreshold or more, sends the leading *)
(* FlushThreshold events as one batch on the channel C and cuts them off. *)
(* The ticker task flushes whatever is buffered, under the same mutex.    *)
(* Sending on C blocks while C holds ChanCap batches, and the mutex stays *)
(* held while it blocks.                                                  *)
(***************************************************************************)
EXTENDS Naturals, Sequences, SequencesExt

CONSTANTS
    Callers,         \* the tasks that call Queue (the listener tasks)
    Ticker,          \* the periodic-flush task
    NoHolder,        \* the mutex is free
    FlushThreshold,  \* flushThreshold, the batch size
    ChanCap          \* capacity of the channel C

ASSUME FlushThreshold \in Nat \ {0} /\ ChanCap \in Nat \ {0}

Tasks == Callers \cup {Ticker}

VARIABLES
    q,              \* the buffered events
    ch,             \* batches sent on C and not yet received
    holder,         \* the task holding the mutex, or NoHolder
    qstate,         \* where each task is in the queue's code
    incoming,       \* the events of each caller's pending Queue call
    eventsFlushed,  \* the events_flushed counter
    accepted,       \* history: every event appended to q, in order
    received        \* history: every batch the exporter received, in order

queueVars == <<q, ch, holder, qstate, incoming, eventsFlushed, accepted, received>>

\* qstate: "idle" outside the queue, "lock" waiting for the mutex, "loop"
\* in Queue's flush loop or Flush holding the mutex, "cut" after a batch
\* was sent and before it is cut from q.
QStates == {"idle", "lock", "loop", "cut"}

QueueInit ==
    /\ q = <<>>
    /\ ch = <<>>
    /\ holder = NoHolder
    /\ qstate = [t \in Tasks |-> "idle"]
    /\ incoming = [c \in Callers |-> <<>>]
    /\ eventsFlushed = 0
    /\ accepted = <<>>
    /\ received = <<>>

-----------------------------------------------------------------------------
(* Queue(events), called by caller c.                                     *)

\* The call starts and waits for the mutex.
QueueCall(c, events) ==
    /\ qstate[c] = "idle"
    /\ qstate' = [qstate EXCEPT ![c] = "lock"]
    /\ incoming' = [incoming EXCEPT ![c] = events]
    /\ UNCHANGED <<q, ch, holder, eventsFlushed, accepted, received>>

\* It takes the mutex and appends its events.
QueueLock(c) ==
    /\ qstate[c] = "lock"
    /\ holder = NoHolder
    /\ holder' = c
    /\ q' = q \o incoming[c]
    /\ accepted' = accepted \o incoming[c]
    /\ qstate' = [qstate EXCEPT ![c] = "loop"]
    /\ incoming' = [incoming EXCEPT ![c] = <<>>]
    /\ UNCHANGED <<ch, eventsFlushed, received>>

\* Variants with plausible faults, for mutation analysis: a flush loop
\* that only sends when exactly FlushThreshold are buffered, a cut that
\* keeps the batch's last event.
QueueSendExact(c) ==
    /\ qstate[c] = "loop"
    /\ Len(q) = FlushThreshold
    /\ Len(ch) < ChanCap
    /\ ch' = Append(ch, SubSeq(q, 1, FlushThreshold))
    /\ qstate' = [qstate EXCEPT ![c] = "cut"]
    /\ UNCHANGED <<q, holder, incoming, eventsFlushed, accepted, received>>

QueueSend(c) ==
    /\ qstate[c] = "loop"
    /\ Len(q) >= FlushThreshold
    /\ Len(ch) < ChanCap
    /\ ch' = Append(ch, SubSeq(q, 1, FlushThreshold))
    /\ qstate' = [qstate EXCEPT ![c] = "cut"]
    /\ UNCHANGED <<q, holder, incoming, eventsFlushed, accepted, received>>

\* ... then cuts them off and counts the flush.
QueueCut(c) ==
    /\ qstate[c] = "cut"
    /\ q' = SubSeq(q, FlushThreshold + 1, Len(q))
    /\ eventsFlushed' = eventsFlushed + 1
    /\ qstate' = [qstate EXCEPT ![c] = "loop"]
    /\ UNCHANGED <<ch, holder, incoming, accepted, received>>

\* With fewer than FlushThreshold left it releases the mutex and returns.
QueueUnlock(c) ==
    /\ qstate[c] = "loop"
    /\ Len(q) < FlushThreshold
    /\ holder' = NoHolder
    /\ qstate' = [qstate EXCEPT ![c] = "idle"]
    /\ UNCHANGED <<q, ch, incoming, eventsFlushed, accepted, received>>

-----------------------------------------------------------------------------
(* The ticker task: on every tick, Flush = FlushUnsafe under the mutex.   *)

TickLock ==
    /\ qstate[Ticker] = "idle"
    /\ holder = NoHolder
    /\ holder' = Ticker
    /\ qstate' = [qstate EXCEPT ![Ticker] = "loop"]
    /\ UNCHANGED <<q, ch, incoming, eventsFlushed, accepted, received>>

\* FlushUnsafe sends the whole buffer as one batch, blocking while C is
\* full ...
TickSend ==
    /\ qstate[Ticker] = "loop"
    /\ q # <<>>
    /\ Len(ch) < ChanCap
    /\ ch' = Append(ch, q)
    /\ qstate' = [qstate EXCEPT ![Ticker] = "cut"]
    /\ UNCHANGED <<q, holder, incoming, eventsFlushed, accepted, received>>

\* ... then empties the buffer, counts the flush and releases the mutex.
TickCut ==
    /\ qstate[Ticker] = "cut"
    /\ q' = <<>>
    /\ eventsFlushed' = eventsFlushed + 1
    /\ holder' = NoHolder
    /\ qstate' = [qstate EXCEPT ![Ticker] = "idle"]
    /\ UNCHANGED <<ch, incoming, accepted, received>>

\* An empty buffer is not sent.
TickSkip ==
    /\ qstate[Ticker] = "loop"
    /\ q = <<>>
    /\ holder' = NoHolder
    /\ qstate' = [qstate EXCEPT ![Ticker] = "idle"]
    /\ UNCHANGED <<q, ch, incoming, eventsFlushed, accepted, received>>

-----------------------------------------------------------------------------
(* The exporter receives the batches from C.                              *)

Consume ==
    /\ ch # <<>>
    /\ received' = Append(received, Head(ch))
    /\ ch' = Tail(ch)
    /\ UNCHANGED <<q, holder, qstate, incoming, eventsFlushed, accepted>>

QueueStep ==
    \/ \E c \in Callers : QueueLock(c) \/ QueueSend(c) \/ QueueCut(c) \/ QueueUnlock(c)
    \/ TickLock \/ TickSend \/ TickCut \/ TickSkip
    \/ Consume

\* The exporter loops on C, the ticker fires forever, and sync.Mutex
\* hands the mutex to a waiter that has waited over 1ms (starvation mode),
\* so a task that keeps finding the mutex free gets it.  A task holding
\* the mutex keeps running.
QueueFairness ==
    /\ WF_queueVars(Consume)
    /\ SF_queueVars(TickLock)
    /\ WF_queueVars(TickSend \/ TickCut \/ TickSkip)
    /\ \A c \in Callers : SF_queueVars(QueueLock(c))
    /\ \A c \in Callers : WF_queueVars(QueueSend(c) \/ QueueCut(c) \/ QueueUnlock(c))

=============================================================================
