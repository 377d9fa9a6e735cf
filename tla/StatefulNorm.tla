--------------------------- MODULE StatefulNorm ----------------------------
(***************************************************************************)
(* StatefulNormCore: LayerNorm or RMSNorm of a channel that streams in     *)
(* over NumBeats beats.  The producer fills one of two banks and sums the  *)
(* packet while the consumer reads the other and normalises it by that     *)
(* packet's own sums.  One action is one clock cycle.                      *)
(*                                                                         *)
(* A beat is one signed byte (T_channel = 1): wider beats only put an      *)
(* adder tree in front of the two accumulators.  The normalise datapath is *)
(* combinational: data_out stands for the three operands it is given.      *)
(***************************************************************************)
EXTENDS Integers, Sequences

CONSTANTS NumBeats,  \* N_channel / T_channel
          Beat       \* the beats, signed bytes

ASSUME NormAssumption == /\ NumBeats \in Nat \ {0}
                         /\ Beat \subseteq -128 .. 127
                         /\ 0 \in Beat

Banks == {0, 1}
Beats == 0 .. NumBeats - 1

VARIABLES write_ptr,         \* the bank the producer fills
          read_ptr,          \* the bank the consumer reads
          tokens_in_flight,  \* complete packets held
          prod_beat_count,   \* beats of the arriving packet stored
          cons_beat_count,   \* beats of the departing packet taken
          sum_x, sum_x2,     \* running sums of the arriving packet
          buf_data,          \* the banks
          buf_sum_x, buf_sum_x2  \* the sums latched with each bank

pointers == <<write_ptr, read_ptr, tokens_in_flight>>
counters == <<prod_beat_count, cons_beat_count>>
sums == <<sum_x, sum_x2, buf_sum_x, buf_sum_x2>>
vars == <<pointers, counters, sums, buf_data>>

\* A slip: room judged by the two bits of the counter, not by the two banks.
ReadyWhileBothFull == tokens_in_flight < 3
\* A slip: a packet offered before it is complete.
ValidOncePartial == tokens_in_flight > 0 \/ prod_beat_count > 0
\* A slip: a consumer that waits for both banks.
ValidWhenBothFull == tokens_in_flight = 2

ready_out == tokens_in_flight < 2
valid_out == tokens_in_flight > 0
data_out  == IF valid_out
             THEN <<buf_data[read_ptr][cons_beat_count],
                    buf_sum_x[read_ptr], buf_sum_x2[read_ptr]>>
             ELSE <<0, 0, 0>>

Init == /\ write_ptr = 0 /\ read_ptr = 0 /\ tokens_in_flight = 0
        /\ prod_beat_count = 0 /\ cons_beat_count = 0
        /\ sum_x = 0 /\ sum_x2 = 0
        /\ buf_sum_x = [b \in Banks |-> 0]
        /\ buf_sum_x2 = [b \in Banks |-> 0]
        /\ buf_data = [b \in Banks |-> [i \in Beats |-> 0]]

\* A slip: the done signals exclude each other in the token counter.
TokensProdFirst(prod_done, cons_done) ==
    IF prod_done THEN tokens_in_flight + 1
    ELSE IF cons_done THEN tokens_in_flight - 1 ELSE tokens_in_flight

NextTokens(prod_done, cons_done) ==
    IF prod_done /\ ~cons_done THEN tokens_in_flight + 1
    ELSE IF cons_done /\ ~prod_done THEN tokens_in_flight - 1
    ELSE tokens_in_flight

\* A beat counter wraps with the packet's last beat.
NextCount(n, handshake) ==
    IF handshake THEN IF n = NumBeats - 1 THEN 0 ELSE n + 1 ELSE n

\* A slip: the accumulator carries over into the next packet.
NextSumCarried(acc, x, prod_handshake, prod_done) ==
    IF prod_handshake THEN acc + x ELSE acc

NextSum(acc, x, prod_handshake, prod_done) ==
    IF prod_done THEN 0 ELSE IF prod_handshake THEN acc + x ELSE acc

\* The latched sums include the last beat, which the accumulator never does.
Latch(latched, acc, x, prod_done) ==
    IF prod_done THEN [latched EXCEPT ![write_ptr] = acc + x] ELSE latched

Clock(valid_in, data_in, ready_in) ==
    LET prod_handshake == valid_in /\ ready_out
        cons_handshake == valid_out /\ ready_in
        prod_done == prod_handshake /\ prod_beat_count = NumBeats - 1
        cons_done == cons_handshake /\ cons_beat_count = NumBeats - 1
        square == data_in * data_in
    IN /\ prod_beat_count' = NextCount(prod_beat_count, prod_handshake)
       /\ cons_beat_count' = NextCount(cons_beat_count, cons_handshake)
       /\ write_ptr' = IF prod_done THEN 1 - write_ptr ELSE write_ptr
       /\ read_ptr' = IF cons_done THEN 1 - read_ptr ELSE read_ptr
       /\ tokens_in_flight' = NextTokens(prod_done, cons_done)
       /\ sum_x' = NextSum(sum_x, data_in, prod_handshake, prod_done)
       /\ sum_x2' = NextSum(sum_x2, square, prod_handshake, prod_done)
       /\ buf_sum_x' = Latch(buf_sum_x, sum_x, data_in, prod_done)
       /\ buf_sum_x2' = Latch(buf_sum_x2, sum_x2, square, prod_done)
       /\ buf_data' = IF prod_handshake
                      THEN [buf_data EXCEPT
                               ![write_ptr][prod_beat_count] = data_in]
                      ELSE buf_data

Next == \E valid_in, ready_in \in BOOLEAN, data_in \in Beat :
            Clock(valid_in, data_in, ready_in)

Spec == Init /\ [][Next]_vars

\* A sink that does not leave a beat on offer for ever; the source may stop.
Taking == /\ valid_out
          /\ \E valid_in \in BOOLEAN, data_in \in Beat :
                 Clock(valid_in, data_in, TRUE)
FairSpec == Spec /\ WF_vars(Taking)

-----------------------------------------------------------------------------
TypeOK == /\ write_ptr \in Banks /\ read_ptr \in Banks
          /\ tokens_in_flight \in 0 .. 2
          /\ prod_beat_count \in Beats /\ cons_beat_count \in Beats
          /\ sum_x \in Int /\ sum_x2 \in Nat
          /\ buf_sum_x \in [Banks -> Int] /\ buf_sum_x2 \in [Banks -> Nat]
          /\ buf_data \in [Banks -> [Beats -> Beat]]

\* The pointers, toggled by two machines that share only the token counter,
\* never lose count of the packets between them: they differ exactly when one
\* packet is held, and with none held the consumer has begun none.
BanksAgree == /\ (write_ptr # read_ptr) <=> (tokens_in_flight = 1)
              /\ tokens_in_flight = 0 => cons_beat_count = 0
              /\ tokens_in_flight = 2 => prod_beat_count = 0

\* The producer never touches the packet being read: while one is on offer,
\* its beats and its latched sums stay what they were.
ReadBankStable == [][valid_out => /\ buf_data'[read_ptr] = buf_data[read_ptr]
                                  /\ buf_sum_x'[read_ptr] = buf_sum_x[read_ptr]
                                  /\ buf_sum_x2'[read_ptr] = buf_sum_x2[read_ptr]
                    ]_vars

\* The beats stored of the packet that is arriving, and the banks that hold
\* complete packets, oldest first.
Partial == [i \in 1 .. prod_beat_count |-> buf_data[write_ptr][i - 1]]
Held(k) == IF k = 1 THEN read_ptr ELSE 1 - read_ptr
Packet(b) == [i \in 1 .. NumBeats |-> buf_data[b][i - 1]]

\* The core implements a buffer of two packets.
Buffer == INSTANCE PacketBuffer WITH
              Capacity <- 2,
              packets <- [k \in 1 .. tokens_in_flight |-> Packet(Held(k))],
              partial <- Partial,
              sent <- cons_beat_count
ImplementsPacketBuffer == Buffer!Spec

\* Under a sink that keeps returning, the packet being read always leaves.
OldestPacketLeaves ==
    \A b \in Banks : (tokens_in_flight > 0 /\ read_ptr = b) ~> (read_ptr # b)
=============================================================================
