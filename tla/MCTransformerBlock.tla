------------------------ MODULE MCTransformerBlock -------------------------
(***************************************************************************)
(* The block in its two good regimes: a sink that never stalls, as in      *)
(* every test of the block, and a sink that stalls as it likes while no    *)
(* more than four sequences arrive.                                        *)
(***************************************************************************)
EXTENDS TransformerBlock

VARIABLE streaming  \* the sink never stalls

\* Bounds: what the source offers in a behaviour.
StalledBeats == 4 * NumBeats
Offered == IF streaming THEN MaxBeats ELSE StalledBeats
Offering == {s \in Sources : taken[s] < Offered}

MCInit == Init /\ streaming \in BOOLEAN
Cycle(offering, accepting) == Clock(offering, accepting) /\ UNCHANGED streaming
Streaming == /\ streaming
             /\ \E offering \in SUBSET Offering : Cycle(offering, Sinks)
Stalling == /\ ~streaming
            /\ \E offering \in SUBSET Offering, accepting \in SUBSET Sinks :
                   Cycle(offering, accepting)
MCNext == Streaming \/ Stalling
mcvars == <<vars, streaming>>

\* A source that goes on offering, a sink that keeps returning.
MCSpec == MCInit /\ [][MCNext]_mcvars /\ WF_mcvars(Cycle(Offering, Sinks))

\* No beat is stuck: all that the source offers leaves the sink.
EverythingLeaves == \A s \in Sinks : <>(given[s] = Offered)
=============================================================================
