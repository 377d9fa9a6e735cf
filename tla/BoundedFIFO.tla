---------------------------- MODULE BoundedFIFO ----------------------------
(***************************************************************************)
(* What a stream buffer promises its two neighbours: beats leave in the    *)
(* order they came, none is lost, none is invented, at most Depth are      *)
(* held.  One step is one clock cycle, in which the buffer may take a      *)
(* beat, give one, or do both.                                             *)
(***************************************************************************)
EXTENDS Naturals, Sequences

CONSTANTS Depth,  \* the number of beats the buffer holds at most
          Data    \* the beats

VARIABLE queue    \* the beats held, oldest first

Init == queue = <<>>

Put == /\ Len(queue) < Depth
       /\ \E d \in Data : queue' = Append(queue, d)

Get == /\ queue # <<>>
       /\ queue' = Tail(queue)

\* Both ports fire in one cycle.  A full buffer takes nothing, even in a
\* cycle in which it gives a beat.
Pass == /\ queue # <<>>
        /\ Len(queue) < Depth
        /\ \E d \in Data : queue' = Append(Tail(queue), d)

Next == Put \/ Get \/ Pass

Spec == Init /\ [][Next]_queue
=============================================================================
