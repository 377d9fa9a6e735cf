-------------------------- MODULE MCStatefulNorm ---------------------------
(***************************************************************************)
(* Packets of two beats: the smallest size at which a packet can be partly *)
(* stored, partly taken, or both at once in different banks.               *)
(***************************************************************************)
EXTENDS StatefulNorm

MCBeat == {-1, 0, 2}

\* What f adds up to over the first n beats of a packet.
Sum(f, n) ==
    LET sum[i \in 0 .. NumBeats] == IF i = 0 THEN 0 ELSE sum[i - 1] + f[i - 1]
    IN sum[n]
Squares(bank) == [i \in Beats |-> bank[i] * bank[i]]

\* A beat is normalised by the sums of its own packet, all of it and nothing
\* else, however the arrival of the next one is interleaved with its reading.
SumsOfOwnPacket ==
    /\ \A k \in 1 .. tokens_in_flight :
           LET b == Held(k)
           IN /\ buf_sum_x[b] = Sum(buf_data[b], NumBeats)
              /\ buf_sum_x2[b] = Sum(Squares(buf_data[b]), NumBeats)
    /\ sum_x = Sum(buf_data[write_ptr], prod_beat_count)
    /\ sum_x2 = Sum(Squares(buf_data[write_ptr]), prod_beat_count)
=============================================================================
