------------------------------ MODULE EventPipe ------------------------------
(***************************************************************************)
(* What the event queue promises its callers and the exporter (spec.md    *)
(* sections 4.3 and 5): events handed to Queue come out on the channel    *)
(* in the order they were accepted, in batches of at most MaxBatch, none  *)
(* lost and none repeated, and every accepted event eventually comes out. *)
(***************************************************************************)
EXTENDS Naturals, Sequences, SequencesExt

CONSTANT MaxBatch

VARIABLES
    in,     \* every event accepted, in acceptance order
    out     \* every event delivered to the consumer, in delivery order

pipeVars == <<in, out>>

Init == in = <<>> /\ out = <<>>

\* Some events are accepted at the end.
Accept == IsStrictPrefix(in, in') /\ out' = out

\* The next one to MaxBatch accepted events are delivered as one batch.
Deliver ==
    /\ in' = in
    /\ \E k \in 1 .. MaxBatch :
          /\ Len(out) + k <= Len(in)
          /\ out' = SubSeq(in, 1, Len(out) + k)

Next == Accept \/ Deliver

Spec == Init /\ [][Next]_pipeVars /\ WF_pipeVars(Deliver)

=============================================================================
