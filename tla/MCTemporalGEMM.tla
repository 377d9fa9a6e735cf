-------------------------- MODULE MCTemporalGEMM ---------------------------
(***************************************************************************)
(* Packets of three tiles and accumulators of three bits, small enough to  *)
(* overflow, with a record of which tiles the current packet has reached   *)
(* and of whether it was cut short by emit_in.                             *)
(***************************************************************************)
EXTENDS TemporalGEMM

MCMac == {-1, 2}

VARIABLES reached,  \* the tiles updated by the current packet
          cut       \* the packet being emitted was ended by emit_in

MCInit == Init /\ reached = {} /\ cut = FALSE

Cycle(ready_in) ==
    \E valid_in, weight_valid_in, accum_in, emit_in \in BOOLEAN, mac \in Mac :
        LET handshake == valid_in /\ weight_valid_in /\ ready_out
        IN /\ Clock(valid_in, weight_valid_in, mac, accum_in, emit_in, ready_in)
           /\ reached' = IF handshake THEN reached \cup {tile_counter}
                         ELSE IF valid_out /\ state' # state THEN {} ELSE reached
           /\ cut' = IF handshake THEN emit_in /\ tile_counter # Last ELSE cut

MCNext == Cycle(TRUE) \/ Cycle(FALSE)
mcvars == <<vars, reached, cut>>

\* A sink that does not leave a tile on offer for ever; the source may stop.
MCSpec == MCInit /\ [][MCNext]_mcvars /\ WF_mcvars(valid_out /\ Cycle(TRUE))

\* All tiles are emitted even when emit_in cut the packet short, so the rest of
\* its tiles are those of an older packet; a packet that ran to its end emits
\* only its own.
OnlyCutPacketsAreStale == valid_out /\ ~cut => reached = Tiles
=============================================================================
