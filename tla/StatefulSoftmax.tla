-------------------------- MODULE StatefulSoftmax --------------------------
(***************************************************************************)
(* StatefulSoftmaxCore: softmax over a sequence of NumBeats beats, in a    *)
(* ring of three banks.  The producer fills the bank at write_ptr and      *)
(* finds its maximum, the sum stage reads the bank at sum_ptr back and     *)
(* adds up the exponentials, the divide stage offers the bank at div_ptr.  *)
(* The stages are told apart by their pointers alone.  One action is one   *)
(* clock cycle.                                                            *)
(*                                                                         *)
(* A beat is one signed byte (T_seq = 1): wider beats only put a maximum   *)
(* tree and an adder tree in front of the accumulators.  The division is   *)
(* combinational: data_out stands for the operands it is given.            *)
(***************************************************************************)
EXTENDS Integers, Sequences

CONSTANTS NumBeats,  \* N_seq / T_seq, rounded up
          SumWidth,  \* bits of the sum of exponentials
          Beat,      \* the beats, signed bytes
          Exp(_)     \* the ROM: the exponential of a difference, 0 .. 255

ASSUME SoftmaxAssumption ==
    /\ NumBeats \in Nat \ {0}
    /\ Beat \subseteq -128 .. 127
    /\ 0 \in Beat
    /\ 2^SumWidth \in Nat
    /\ 255 < 2^SumWidth
    /\ \A d \in -128 .. 127 : Exp(d) \in 0 .. 255

Banks == 0 .. 2
Beats == 0 .. NumBeats - 1
Sums  == 0 .. 2^SumWidth - 1

VARIABLES write_ptr, sum_ptr, div_ptr,  \* the bank of each stage
          tokens_in_flight,  \* packets accepted and not yet given
          prod_beat_count, sum_beat_count, div_beat_count,
          prod_max,          \* running maximum of the arriving packet
          sum_exp_acc,       \* running sum of the packet being summed
          buf_data,          \* the banks
          buf_max,           \* the maximum latched with each bank
          buf_sum_exp        \* the sum latched with each bank

pointers == <<write_ptr, sum_ptr, div_ptr, tokens_in_flight>>
counters == <<prod_beat_count, sum_beat_count, div_beat_count>>
stats == <<prod_max, sum_exp_acc, buf_max, buf_sum_exp>>
vars == <<pointers, counters, stats, buf_data>>

After(ptr) == IF ptr = 2 THEN 0 ELSE ptr + 1

\* A slip: a fourth packet let into the three banks.
ReadyWhileFull == tokens_in_flight <= 3
\* A slip: the divide stage follows the producer instead of the sum stage.
DivAfterWrite == div_ptr # write_ptr
\* A slip: the sum stage waits until the divide stage has given its packet.
SumAfterDiv == sum_ptr # write_ptr /\ div_ptr = sum_ptr
\* A slip: the divide stage waits until the sum stage has gone idle.
DivAfterSumIdle == div_ptr # sum_ptr /\ sum_ptr = write_ptr

sum_active == sum_ptr # write_ptr
div_active == div_ptr # sum_ptr

ready_out == tokens_in_flight < 3
valid_out == div_active

\* The difference to the maximum as a signed byte: clipped at the bottom, the
\* low eight bits otherwise.
Difference(x, max) == IF x - max < -128 THEN -128
                      ELSE IF x - max > 127 THEN x - max - 256
                      ELSE x - max

data_out == <<Exp(Difference(buf_data[div_ptr][div_beat_count], buf_max[div_ptr])),
              buf_sum_exp[div_ptr]>>

Init == /\ write_ptr = 0 /\ sum_ptr = 0 /\ div_ptr = 0
        /\ tokens_in_flight = 0
        /\ prod_beat_count = 0 /\ sum_beat_count = 0 /\ div_beat_count = 0
        /\ prod_max = 0 /\ sum_exp_acc = 0
        /\ buf_data = [b \in Banks |-> [i \in Beats |-> 0]]
        /\ buf_max = [b \in Banks |-> 0]
        /\ buf_sum_exp = [b \in Banks |-> 0]

NextCount(n, handshake) ==
    IF handshake THEN IF n = NumBeats - 1 THEN 0 ELSE n + 1 ELSE n

\* A slip: simultaneous done signals count as one packet more.
TokensProdFirst(prod_done, div_done) ==
    IF prod_done THEN tokens_in_flight + 1
    ELSE IF div_done THEN tokens_in_flight - 1 ELSE tokens_in_flight

NextTokens(prod_done, div_done) ==
    IF prod_done /\ ~div_done THEN tokens_in_flight + 1
    ELSE IF div_done /\ ~prod_done THEN tokens_in_flight - 1
    ELSE tokens_in_flight

Larger(x, y) == IF x > y THEN x ELSE y

\* The first beat of a packet restarts the running value ...
Restarted(acc, first, combined, handshake, n) ==
    IF ~handshake THEN acc ELSE IF n = 0 THEN first ELSE combined

\* ... and the last beat latches, with the bank, the value that includes it.
Latch(latched, ptr, combined, done) ==
    IF done THEN [latched EXCEPT ![ptr] = combined] ELSE latched

Clock(valid_in, data_in, ready_in) ==
    LET prod_handshake == valid_in /\ ready_out
        prod_done == prod_handshake /\ prod_beat_count = NumBeats - 1
        sum_done == sum_active /\ sum_beat_count = NumBeats - 1
        div_handshake == div_active /\ ready_in
        div_done == div_handshake /\ div_beat_count = NumBeats - 1
        next_prod_max == Larger(data_in, prod_max)
        sum_beat_sum == Exp(Difference(buf_data[sum_ptr][sum_beat_count],
                                       buf_max[sum_ptr]))
        next_sum_exp == (sum_exp_acc + sum_beat_sum) % 2^SumWidth
    IN /\ prod_beat_count' = NextCount(prod_beat_count, prod_handshake)
       /\ sum_beat_count' = NextCount(sum_beat_count, sum_active)
       /\ div_beat_count' = NextCount(div_beat_count, div_handshake)
       /\ write_ptr' = IF prod_done THEN After(write_ptr) ELSE write_ptr
       /\ sum_ptr' = IF sum_done THEN After(sum_ptr) ELSE sum_ptr
       /\ div_ptr' = IF div_done THEN After(div_ptr) ELSE div_ptr
       /\ tokens_in_flight' = NextTokens(prod_done, div_done)
       /\ prod_max' = Restarted(prod_max, data_in, next_prod_max,
                                prod_handshake, prod_beat_count)
       /\ sum_exp_acc' = Restarted(sum_exp_acc, sum_beat_sum, next_sum_exp,
                                   sum_active, sum_beat_count)
       /\ buf_max' = Latch(buf_max, write_ptr, next_prod_max, prod_done)
       /\ buf_sum_exp' = Latch(buf_sum_exp, sum_ptr, next_sum_exp, sum_done)
       /\ buf_data' = IF prod_handshake
                      THEN [buf_data EXCEPT
                               ![write_ptr][prod_beat_count] = data_in]
                      ELSE buf_data

Next == \E valid_in, ready_in \in BOOLEAN, data_in \in Beat :
            Clock(valid_in, data_in, ready_in)

Spec == Init /\ [][Next]_vars

-----------------------------------------------------------------------------
TypeOK == /\ write_ptr \in Banks /\ sum_ptr \in Banks /\ div_ptr \in Banks
          /\ tokens_in_flight \in 0 .. 3
          /\ prod_beat_count \in Beats
          /\ sum_beat_count \in Beats
          /\ div_beat_count \in Beats
          /\ prod_max \in Beat /\ buf_max \in [Banks -> Beat]
          /\ sum_exp_acc \in Sums /\ buf_sum_exp \in [Banks -> Sums]
          /\ buf_data \in [Banks -> [Beats -> Beat]]

\* The sum stage is never a whole packet behind the producer, so that the
\* pointers, which cannot tell a distance of three from none, never lie about
\* it: it has one bank to read or none, and within a packet it leads.
SumKeepsUp == sum_active => /\ write_ptr = After(sum_ptr)
                            /\ sum_beat_count >= prod_beat_count

\* The token counter is the distance from div_ptr to write_ptr, where the
\* distances none and three look alike.
TokensAgree == LET apart == (write_ptr - div_ptr) % 3
               IN /\ tokens_in_flight % 3 = apart
                  /\ tokens_in_flight = 0 => ~sum_active /\ ~div_active
                  /\ tokens_in_flight = 3 => prod_beat_count = 0

\* The packet on offer is never overwritten, nor its maximum, nor its sum.
DivBankStable == [][div_active => /\ buf_data'[div_ptr] = buf_data[div_ptr]
                                  /\ buf_max'[div_ptr] = buf_max[div_ptr]
                                  /\ buf_sum_exp'[div_ptr] = buf_sum_exp[div_ptr]
                   ]_vars

Packet(b) == [i \in 1 .. NumBeats |-> buf_data[b][i - 1]]
Held(k) == (div_ptr + k - 1) % 3

\* Apart from the trap below, the core implements a buffer of three packets.
Buffer == INSTANCE PacketBuffer WITH
              Capacity <- 3,
              packets <- [k \in 1 .. tokens_in_flight |-> Packet(Held(k))],
              partial <- [i \in 1 .. prod_beat_count |-> buf_data[write_ptr][i - 1]],
              sent <- div_beat_count
ImplementsPacketBuffer == Buffer!Spec

\* All three banks hold summed packets and the three pointers meet: nothing
\* is offered, nothing is accepted, and no later cycle changes that.
LockedUp == tokens_in_flight = 3 /\ ~sum_active /\ ~div_active

\* The lock-up is the only way a packet can be kept for ever.
OldestLeavesOrLocksUp ==
    \A b \in Banks : (tokens_in_flight > 0 /\ div_ptr = b)
                         ~> (div_ptr # b \/ LockedUp)
=============================================================================
