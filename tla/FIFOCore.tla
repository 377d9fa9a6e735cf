----------------------------- MODULE FIFOCore ------------------------------
(***************************************************************************)
(* The synchronous FIFO between stitched cores: a circular memory written  *)
(* at head and read at tail, and a counter of the beats in it.  One action *)
(* is one clock cycle, with the values its neighbours drive in that cycle. *)
(***************************************************************************)
EXTENDS Naturals, Sequences

CONSTANTS Depth,     \* entries the producer may fill
          PtrWidth,  \* bits of head and tail
          Data,      \* beats
          Zero       \* the beat of all zero bits, driven while empty

\* PtrWidth is max(1, (depth - 1).bit_length()): the narrowest pointer, of at
\* least one bit, that addresses Depth entries.  The memory has 2^PtrWidth
\* words, more than Depth unless Depth is a power of two.
ASSUME FIFOAssumption ==
    /\ Depth \in Nat \ {0}
    /\ PtrWidth \in Nat \ {0}
    /\ 2^PtrWidth \in Nat \ {0, 1}
    /\ Depth <= 2^PtrWidth
    /\ PtrWidth > 1 => 2^(PtrWidth - 1) < Depth
    /\ Zero \in Data

Slots == 2^PtrWidth
Addresses == 0 .. Slots - 1

VARIABLES mem, head, tail, count
vars == <<mem, head, tail, count>>

\* A PtrWidth-bit register plus one.
Advance(ptr) == IF ptr = Slots - 1 THEN 0 ELSE ptr + 1

\* A slip: a consumer served only from a full memory.
ValidWhenFull == count = Depth

ready_out == count < Depth
valid_out == count > 0
data_out  == IF valid_out THEN mem[tail] ELSE Zero

\* A slip: a cycle that both writes and reads counts only the read.
CountReadFirst(write_en, read_en) ==
    IF read_en THEN count - 1 ELSE IF write_en THEN count + 1 ELSE count

NextCount(write_en, read_en) ==
    IF write_en /\ ~read_en THEN count + 1
    ELSE IF read_en /\ ~write_en THEN count - 1
    ELSE count

\* The registers reset to zero; nothing initialises the memory.
Init == /\ mem \in [Addresses -> Data]
        /\ head = 0
        /\ tail = 0
        /\ count = 0

Clock(valid_in, data_in, ready_in) ==
    LET write_en == valid_in /\ ready_out
        read_en  == valid_out /\ ready_in
    IN /\ head' = IF write_en THEN Advance(head) ELSE head
       /\ tail' = IF read_en THEN Advance(tail) ELSE tail
       /\ count' = NextCount(write_en, read_en)
       /\ mem' = IF write_en THEN [mem EXCEPT ![head] = data_in] ELSE mem

Next == \E valid_in, ready_in \in BOOLEAN, data_in \in Data :
            Clock(valid_in, data_in, ready_in)

Spec == Init /\ [][Next]_vars

\* A sink that does not leave a beat on offer for ever: every later core of a
\* stitched design drives ready_in high again.  The source may stop.
Taking == /\ valid_out
          /\ \E valid_in \in BOOLEAN, data_in \in Data :
                 Clock(valid_in, data_in, TRUE)
FairSpec == Spec /\ WF_vars(Taking)

-----------------------------------------------------------------------------
(* The address k places past ptr in the ring, and the queue held there.    *)

Slot(ptr, k) == IF ptr + k < Slots THEN ptr + k ELSE ptr + k - Slots

Ring(words, ptr, n) == [i \in 1 .. n |-> words[Slot(ptr, i - 1)]]

Contents == Ring(mem, tail, count)

TypeOK == /\ mem \in [Addresses -> Data]
          /\ head \in Addresses
          /\ tail \in Addresses
          /\ count \in 0 .. Depth

\* The three counters agree: head is count places past tail, whether or not
\* either pointer has wrapped and although the memory may be larger than
\* Depth.  The code keeps them in three registers updated independently.
PointersAgree == head = Slot(tail, count)

\* AXI-stream stability: a beat offered and not taken is offered unchanged in
\* the next cycle, whatever the producer writes meanwhile.
HeldUntilTaken == [][valid_out /\ tail' = tail
                        => valid_out' /\ data_out' = data_out]_vars

\* The core implements a bounded FIFO queue of Depth entries.
Queue == INSTANCE BoundedFIFO WITH queue <- Contents
ImplementsFIFO == Queue!Spec

\* Under a sink that keeps returning, the oldest beat always leaves: with the
\* order above, every beat accepted is passed on.
OldestLeaves == \A k \in Addresses : (count > 0 /\ tail = k) ~> (tail # k)
=============================================================================
