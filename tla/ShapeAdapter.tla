---------------------------- MODULE ShapeAdapter ---------------------------
(***************************************************************************)
(* StreamShapeAdapter: passes one tensor of N bytes from beats of T_in     *)
(* bytes to beats of T_out bytes.  Widening collects beats in slots,       *)
(* narrowing cuts one buffered beat into chunks, equal widths pass         *)
(* through.  One action is one clock cycle.                                *)
(*                                                                         *)
(* The bytes of a tensor are numbered by position, so that a beat is the   *)
(* sequence of the positions of its bytes.  A byte no input drives is      *)
(* Blank.                                                                  *)
(***************************************************************************)
EXTENDS Naturals

CONSTANTS Shapes,  \* <<N, T_in, T_out>> of the adapters looked at
          Blank    \* a byte of zeros from no position

\* What the constructor accepts.
ASSUME AdapterAssumption ==
    /\ Shapes \subseteq (Nat \ {0}) \X (Nat \ {0}) \X (Nat \ {0})
    /\ \A s \in Shapes : s[1] % s[2] = 0 /\ s[1] % s[3] = 0
    /\ Blank \notin Nat

VARIABLES shape,           \* the adapter's parameters, fixed when it is built
          in_beat_count,   \* input beats accepted
          out_beat_count,  \* output beats taken
          slots,           \* widening: the slots, narrowing: the buffer
          slot_idx,        \* widening: the slot the next beat fills
          chunks_rem,      \* narrowing: chunks left in the buffer
          out_sub_idx      \* narrowing: the chunk on offer
vars == <<shape, in_beat_count, out_beat_count, slots, slot_idx, chunks_rem,
          out_sub_idx>>

N == shape[1]
T_in == shape[2]
T_out == shape[3]
Widens == T_in < T_out
Narrows == T_in > T_out
num_in_beats == N \div T_in
num_out_beats == N \div T_out

\* Beats of the narrower side in one of the wider.
k == IF Widens THEN T_out \div T_in ELSE T_in \div T_out

\* The i-th beat of T bytes of the tensor.
Beat(i, T) == [j \in 0 .. T - 1 |-> i * T + j]

\* A slip: the last beat is not seen to be complete.
FullPastEnd == in_beat_count > (out_beat_count + 1) * k
buffer_full == in_beat_count >= (out_beat_count + 1) * k
has_buffered == chunks_rem > 0

valid_out(valid_in) ==
    /\ out_beat_count < num_out_beats
    /\ IF Widens THEN buffer_full ELSE IF Narrows THEN has_buffered ELSE valid_in

\* A slip: a chunk taken makes room for a beat, the last one or not.
RoomAfterChunk(ready_in) ==
    IF Widens THEN ~buffer_full \/ (valid_out(TRUE) /\ ready_in)
    ELSE IF Narrows THEN ~has_buffered \/ (valid_out(TRUE) /\ ready_in)
    ELSE ready_in

\* Room made in this cycle counts.
Room(ready_in) ==
    IF Widens THEN ~buffer_full \/ (valid_out(TRUE) /\ ready_in)
    ELSE IF Narrows
    THEN \/ ~has_buffered
         \/ valid_out(TRUE) /\ ready_in /\ out_sub_idx = k - 1
    ELSE ready_in

\* A slip: the end of the tensor is not looked at.
ReadyPastEnd(ready_in) == Room(ready_in)
ready_out(ready_in) == in_beat_count < num_in_beats /\ Room(ready_in)

\* Slots leave first received first, and bytes beyond them are zeros; a chunk
\* index beyond the last chunk offers zeros.
data_out(data_in) ==
    IF Widens
    THEN [j \in 0 .. T_out - 1 |->
             IF j < k * T_in THEN slots[j \div T_in][j % T_in] ELSE Blank]
    ELSE IF Narrows
    THEN [j \in 0 .. T_out - 1 |->
             IF out_sub_idx < k THEN slots[0][out_sub_idx * T_out + j] ELSE Blank]
    ELSE data_in

Init == /\ shape \in Shapes
        /\ in_beat_count = 0 /\ out_beat_count = 0
        /\ slots = [i \in 0 .. (IF Widens THEN k ELSE 1) - 1 |->
                       [j \in 0 .. T_in - 1 |-> Blank]]
        /\ slot_idx = 0 /\ chunks_rem = 0 /\ out_sub_idx = 0

NextSlot(input) ==
    IF ~input THEN slot_idx ELSE IF slot_idx = k - 1 THEN 0 ELSE slot_idx + 1

NextChunk(input, output) ==
    IF input THEN 0
    ELSE IF ~output THEN out_sub_idx
    ELSE IF out_sub_idx = k - 1 THEN 0 ELSE out_sub_idx + 1

Clock(valid_in, data_in, ready_in) ==
    LET input == valid_in /\ ready_out(ready_in)
        output == valid_out(valid_in) /\ ready_in
    IN /\ in_beat_count' = IF input THEN in_beat_count + 1 ELSE in_beat_count
       /\ out_beat_count' = IF output THEN out_beat_count + 1 ELSE out_beat_count
       /\ slots' = IF input /\ T_in # T_out
                   THEN [slots EXCEPT ![slot_idx] = data_in] ELSE slots
       /\ slot_idx' = IF Widens THEN NextSlot(input) ELSE slot_idx
       /\ chunks_rem' = IF ~Narrows THEN chunks_rem
                        ELSE IF input THEN k
                        ELSE IF output THEN chunks_rem - 1 ELSE chunks_rem
       /\ out_sub_idx' = IF Narrows THEN NextChunk(input, output) ELSE out_sub_idx
       /\ UNCHANGED shape

\* The source offers the tensor's beats in order, its next beat again until it
\* is accepted, and goes on after its end as sources of a stitched design do.
Next == \E valid_in, ready_in \in BOOLEAN :
            Clock(valid_in, Beat(in_beat_count, T_in), ready_in)

Spec == Init /\ [][Next]_vars

Flowing == Clock(TRUE, Beat(in_beat_count, T_in), TRUE)
FairSpec == Spec /\ WF_vars(Flowing)

-----------------------------------------------------------------------------
TypeOK == /\ shape \in Shapes
          /\ in_beat_count \in 0 .. num_in_beats
          /\ out_beat_count \in 0 .. num_out_beats
          /\ slot_idx \in 0 .. k - 1
          /\ chunks_rem \in 0 .. k
          /\ out_sub_idx \in 0 .. k - 1

\* Every beat on offer carries the bytes that are next in the tensor, although
\* slots and buffer are refilled in the cycle they are emptied in.
BytesInOrder == \A valid_in \in BOOLEAN :
    valid_out(valid_in) => data_out(Beat(in_beat_count, T_in))
                               = Beat(out_beat_count, T_out)

\* The whole tensor leaves.
TensorLeaves == <>(in_beat_count = num_in_beats /\ out_beat_count = num_out_beats)

\* A second tensor has to wait for a reset: nothing is accepted after the last
\* beat of the first.
OneTensor == [][out_beat_count = num_out_beats => UNCHANGED vars]_vars
=============================================================================
