------------------------- MODULE MCStatefulSoftmax -------------------------
(***************************************************************************)
(* Packets of two beats, with the ROM's entries for the differences that   *)
(* occur, and a count of the cycles in which the sink has stalled a packet *)
(* on offer.                                                               *)
(***************************************************************************)
EXTENDS StatefulSoftmax, FiniteSetsExt

MCBeat == {-1, 0}
MCExp(d) == IF d > 0 THEN 255 ELSE IF d = 0 THEN 255
            ELSE IF d = -1 THEN 94 ELSE IF d = -2 THEN 35 ELSE 0

VARIABLE stalled  \* cycles the sink has stalled, counted to MaxStalled
MaxStalled == NumBeats + 2

MCInit == Init /\ stalled = 0

Cycle(ready_in) ==
    \E valid_in \in BOOLEAN, data_in \in Beat :
        /\ Clock(valid_in, data_in, ready_in)
        /\ stalled' = IF div_active /\ ~ready_in /\ stalled < MaxStalled
                      THEN stalled + 1 ELSE stalled

Flowing == Cycle(TRUE)
Stalling == Cycle(FALSE)

MCNext == Flowing \/ Stalling

\* A sink that does not leave a beat on offer for ever, and a clock that runs
\* while the sum stage has work; the source may stop.
Working == (sum_active \/ div_active) /\ Flowing
MCSpec == MCInit /\ [][MCNext]_<<vars, stalled>> /\ WF_<<vars, stalled>>(Working)

MaxOf(bank) == Max({bank[i] : i \in Beats})

\* The exponentials of a packet, and what the first n of them add up to.
Exponentials(bank) == [i \in Beats |-> Exp(Difference(bank[i], MaxOf(bank)))]
Sum(f, n) ==
    LET sum[i \in 0 .. NumBeats] == IF i = 0 THEN 0 ELSE sum[i - 1] + f[i - 1]
    IN sum[n]

\* Every beat on offer is divided by the statistics of its own packet.
StatisticsOfOwnPacket ==
    div_active =>
        LET bank == buf_data[div_ptr]
        IN /\ buf_max[div_ptr] = MaxOf(bank)
           /\ buf_sum_exp[div_ptr] = Sum(Exponentials(bank), NumBeats)

\* How much stalling it takes to lock the core up: a sink that has stalled no
\* more than NumBeats cycles never has.
SlackBeforeLockUp == stalled <= NumBeats => ~LockedUp
=============================================================================
