--------------------------- MODULE TemporalGEMM ----------------------------
(***************************************************************************)
(* TemporalGEMMCore: a matrix product of NumTiles tiles, one beat and one  *)
(* weight beat each.  In ACCUMULATE every beat updates the accumulators of *)
(* its tile, in EMIT the tiles leave in order.  One action is one clock    *)
(* cycle.                                                                  *)
(*                                                                         *)
(* A tile has one accumulator (T_M = T_N = 1).  A beat and its weights are *)
(* given by the product they make, and data_out by the accumulator that is *)
(* requantized to make it.                                                 *)
(***************************************************************************)
EXTENDS Integers

CONSTANTS NumTiles,   \* M * N / (T_M * T_N)
          HalfRange,  \* 2^31: an accumulator is one signed word
          Mac         \* products of a beat and its weights

ASSUME GEMMAssumption == /\ NumTiles \in Nat \ {0}
                         /\ HalfRange \in Nat \ {0}
                         /\ Mac \subseteq Int

Tiles == 0 .. NumTiles - 1
Last == NumTiles - 1
Accs == -HalfRange .. HalfRange - 1

VARIABLES state,         \* "ACCUMULATE" or "EMIT"
          tile_counter,  \* the tile the next beat updates
          emit_counter,  \* the tile on offer
          accum          \* the accumulators
vars == <<state, tile_counter, emit_counter, accum>>

\* A slip: the last tile is not offered.
ValidBeforeLast == state = "EMIT" /\ emit_counter # Last
valid_out == state = "EMIT"

\* A slip: room promised as soon as the last tile is on offer.
ReadyOnLastTile == state = "ACCUMULATE" \/ emit_counter = Last
ready_out == state = "ACCUMULATE"

\* Weights are taken in the same state as beats.
weight_ready_out == ready_out
data_out == accum[emit_counter]

\* A register's bits, read as a signed number.
Wrap(x) == ((x + HalfRange) % (2 * HalfRange)) - HalfRange

Init == /\ state = "ACCUMULATE"
        /\ tile_counter = 0
        /\ emit_counter = 0
        /\ accum = [t \in Tiles |-> 0]

\* A slip: the end of a packet does not reset the counter.
NextTileCountsOn(handshake, ends) ==
    IF handshake THEN tile_counter + 1 ELSE tile_counter

NextTile(handshake, ends) ==
    IF ~handshake THEN tile_counter
    ELSE IF ends THEN 0 ELSE tile_counter + 1

Updated(mac, accum_in) ==
    [accum EXCEPT ![tile_counter] =
        IF accum_in THEN Wrap(accum[tile_counter] + mac) ELSE Wrap(mac)]

\* The core needs a beat and its weights to do anything; it answers ready_out
\* to each whether or not the other is there.
Clock(valid_in, weight_valid_in, mac, accum_in, emit_in, ready_in) ==
    LET handshake == valid_in /\ weight_valid_in /\ ready_out
        ends == emit_in \/ tile_counter = Last
        taken == valid_out /\ ready_in
    IN /\ accum' = IF handshake THEN Updated(mac, accum_in) ELSE accum
       /\ tile_counter' = NextTile(handshake, ends)
       /\ emit_counter' = IF ~taken THEN emit_counter
                          ELSE IF emit_counter = Last THEN 0
                          ELSE emit_counter + 1
       /\ state' = IF handshake /\ ends THEN "EMIT"
                   ELSE IF taken /\ emit_counter = Last THEN "ACCUMULATE"
                   ELSE state

Next == \E valid_in, weight_valid_in, accum_in, emit_in, ready_in \in BOOLEAN,
           mac \in Mac :
            Clock(valid_in, weight_valid_in, mac, accum_in, emit_in, ready_in)

Spec == Init /\ [][Next]_vars

-----------------------------------------------------------------------------
TypeOK == /\ state \in {"ACCUMULATE", "EMIT"}
          /\ tile_counter \in Tiles
          /\ emit_counter \in Tiles
          /\ accum \in [Tiles -> Accs]

\* Neither phase leaves anything behind in the other's counter, an early
\* emission included, so that every packet starts at its first tile.
CountersRest == IF state = "EMIT" THEN tile_counter = 0 ELSE emit_counter = 0

\* Backpressure protects the accumulators: a tile not yet taken is what it was
\* when the packet ended, however long the sink stalls.
DrainedBeforeOverwritten ==
    [][\A t \in Tiles : valid_out /\ t >= emit_counter => accum'[t] = accum[t]]_vars

\* Every tile of an ended packet leaves.
EveryTileLeaves ==
    \A t \in Tiles : (state = "EMIT" /\ emit_counter = t)
                         ~> ~(state = "EMIT" /\ emit_counter = t)
=============================================================================
