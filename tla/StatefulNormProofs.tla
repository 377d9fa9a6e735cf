------------------------ MODULE StatefulNormProofs -------------------------
(***************************************************************************)
(* For every packet length and every set of beats, the double buffer keeps *)
(* producer and consumer apart, and the core is a buffer of two packets.   *)
(***************************************************************************)
EXTENDS MCStatefulNorm, SequenceTheorems, WellFoundedInduction, TLAPS

USE NormAssumption DEF Banks, Beats

IInv == TypeOK /\ BanksAgree

-----------------------------------------------------------------------------
LEMMA InitIInv == Init => IInv
BY DEF Init, IInv, TypeOK, BanksAgree

\* The registers keep their ranges through a cycle.
LEMMA ClockTypeOK ==
    ASSUME IInv, NEW valid_in \in BOOLEAN, NEW ready_in \in BOOLEAN,
           NEW data_in \in Beat, Clock(valid_in, data_in, ready_in)
    PROVE  TypeOK'
<1> DEFINE prod_handshake == valid_in /\ ready_out
           prod_done == prod_handshake /\ prod_beat_count = NumBeats - 1
<1> USE DEF IInv, TypeOK
<1>1. /\ write_ptr' \in Banks /\ read_ptr' \in Banks
      /\ prod_beat_count' \in Beats /\ cons_beat_count' \in Beats
  BY DEF Clock, NextCount
<1>2. tokens_in_flight' \in 0 .. 2
  BY DEF Clock, NextTokens, ready_out, valid_out
<1> DEFINE square == data_in * data_in
<1>3. data_in \in Int /\ square \in Nat
  OBVIOUS
<1>4. /\ sum_x' = NextSum(sum_x, data_in, prod_handshake, prod_done)
      /\ sum_x2' = NextSum(sum_x2, square, prod_handshake, prod_done)
      /\ buf_sum_x' = Latch(buf_sum_x, sum_x, data_in, prod_done)
      /\ buf_sum_x2' = Latch(buf_sum_x2, sum_x2, square, prod_done)
  BY DEF Clock
<1>5. /\ sum_x' \in Int /\ sum_x2' \in Nat
      /\ buf_sum_x' \in [Banks -> Int] /\ buf_sum_x2' \in [Banks -> Nat]
  <2> HIDE DEF square, prod_handshake, prod_done
  <2> QED  BY <1>3, <1>4 DEF NextSum, Latch
<1>6. buf_data' \in [Banks -> [Beats -> Beat]]
  BY DEF Clock
<1> QED  BY <1>1, <1>2, <1>5, <1>6

\* Whatever the two machines do in a cycle, they still agree on who owns
\* which bank.
LEMMA ClockBanksAgree ==
    ASSUME IInv, NEW valid_in \in BOOLEAN, NEW ready_in \in BOOLEAN,
           NEW data_in \in Beat, Clock(valid_in, data_in, ready_in)
    PROVE  BanksAgree'
<1> DEFINE prod_handshake == valid_in /\ ready_out
           cons_handshake == valid_out /\ ready_in
           prod_done == prod_handshake /\ prod_beat_count = NumBeats - 1
           cons_done == cons_handshake /\ cons_beat_count = NumBeats - 1
<1> USE DEF IInv, TypeOK, BanksAgree
<1>1. CASE prod_done /\ cons_done
  BY <1>1 DEF Clock, NextCount, NextTokens, ready_out, valid_out
<1>2. CASE prod_done /\ ~cons_done
  BY <1>2 DEF Clock, NextCount, NextTokens, ready_out, valid_out
<1>3. CASE ~prod_done /\ cons_done
  BY <1>3 DEF Clock, NextCount, NextTokens, ready_out, valid_out
<1>4. CASE ~prod_done /\ ~cons_done
  BY <1>4 DEF Clock, NextCount, NextTokens, ready_out, valid_out
<1> QED  BY <1>1, <1>2, <1>3, <1>4

LEMMA NextIInv == IInv /\ [Next]_vars => IInv'
<1>1. ASSUME IInv, Next PROVE IInv'
  BY <1>1, ClockTypeOK, ClockBanksAgree DEF Next, IInv
<1>2. ASSUME IInv, UNCHANGED vars PROVE IInv'
  BY <1>2 DEF IInv, TypeOK, BanksAgree, vars, pointers, counters, sums
<1> QED  BY <1>1, <1>2

LEMMA AlwaysIInv == Spec => []IInv
BY InitIInv, NextIInv, PTL DEF Spec

\* Every register keeps its range: above all, the token counter never leaves
\* 0 .. 2, although two bits could.
THEOREM TypeCorrect == Spec => []TypeOK
BY AlwaysIInv, PTL DEF IInv

\* The two bank pointers and the token counter always tell the same story.
THEOREM BanksCorrect == Spec => []BanksAgree
BY AlwaysIInv, PTL DEF IInv

-----------------------------------------------------------------------------
\* A cycle that stores a beat while a packet is on offer stores it in the
\* other bank.
LEMMA StableStep ==
    ASSUME IInv, [Next]_vars, valid_out
    PROVE  /\ buf_data'[read_ptr] = buf_data[read_ptr]
           /\ buf_sum_x'[read_ptr] = buf_sum_x[read_ptr]
           /\ buf_sum_x2'[read_ptr] = buf_sum_x2[read_ptr]
<1>1. CASE UNCHANGED vars
  BY <1>1 DEF vars, sums
<1>2. ASSUME NEW valid_in \in BOOLEAN, NEW ready_in \in BOOLEAN,
             NEW data_in \in Beat, Clock(valid_in, data_in, ready_in)
      PROVE  /\ buf_data'[read_ptr] = buf_data[read_ptr]
             /\ buf_sum_x'[read_ptr] = buf_sum_x[read_ptr]
             /\ buf_sum_x2'[read_ptr] = buf_sum_x2[read_ptr]
  <2>1. valid_in /\ ready_out => write_ptr # read_ptr
    BY DEF IInv, TypeOK, BanksAgree, ready_out, valid_out
  <2> QED  BY <1>2, <2>1 DEF Clock, Latch, IInv, TypeOK
<1> QED  BY <1>1, <1>2 DEF Next

\* The packet on offer is never overwritten.
THEOREM ReadBankCorrect == Spec => ReadBankStable
<1>1. IInv /\ [Next]_vars
        => [valid_out => /\ buf_data'[read_ptr] = buf_data[read_ptr]
                         /\ buf_sum_x'[read_ptr] = buf_sum_x[read_ptr]
                         /\ buf_sum_x2'[read_ptr] = buf_sum_x2[read_ptr]]_vars
  BY StableStep
<1> QED  BY <1>1, AlwaysIInv, PTL DEF Spec, ReadBankStable

-----------------------------------------------------------------------------
\* A sequence without its first element, and with one more, by their elements.
LEMMA TailFcn ==
    ASSUME NEW S, NEW t \in Nat \ {0}, NEW before \in [1 .. t -> S],
           NEW after \in [1 .. t - 1 -> S],
           \A k \in 1 .. t - 1 : after[k] = before[k + 1]
    PROVE  before # <<>> /\ after = Tail(before)
<1>1. before \in Seq(S) /\ Len(before) = t /\ before # <<>>
  OBVIOUS
<1>2. /\ Tail(before) \in Seq(S) /\ Len(Tail(before)) = t - 1
      /\ \A k \in 1 .. t - 1 : Tail(before)[k] = before[k + 1]
  BY <1>1, HeadTailProperties
<1>3. after \in Seq(S) /\ Len(after) = t - 1
  OBVIOUS
<1>4. after = Tail(before)
  BY <1>2, <1>3, SeqEqual
<1> QED  BY <1>1, <1>4

LEMMA AppendFcn ==
    ASSUME NEW S, NEW t \in Nat, NEW before \in [1 .. t -> S], NEW d \in S,
           NEW after \in [1 .. t + 1 -> S],
           \A k \in 1 .. t : after[k] = before[k], after[t + 1] = d
    PROVE  after = Append(before, d)
<1>1. before \in Seq(S) /\ Len(before) = t
  OBVIOUS
<1>2. /\ Append(before, d) \in Seq(S) /\ Len(Append(before, d)) = t + 1
      /\ \A k \in 1 .. t : Append(before, d)[k] = before[k]
      /\ Append(before, d)[t + 1] = d
  BY <1>1, AppendProperties
<1>3. after \in Seq(S) /\ Len(after) = t + 1
  OBVIOUS
<1>4. ASSUME NEW k \in 1 .. t + 1 PROVE after[k] = Append(before, d)[k]
  <2>1. k \in 1 .. t \/ k = t + 1
    OBVIOUS
  <2> QED  BY <1>2, <2>1
<1> QED  BY <1>2, <1>3, <1>4, SeqEqual

\* The first n beats of a bank.
First(data, b, n) == [i \in 1 .. n |-> data[b][i - 1]]

LEMMA FirstType ==
    ASSUME NEW data \in [Banks -> [Beats -> Beat]], NEW b \in Banks,
           NEW n \in 0 .. NumBeats
    PROVE  First(data, b, n) \in [1 .. n -> Beat]
<1>1. \A i \in 1 .. n : i - 1 \in Beats
  OBVIOUS
<1> QED  BY <1>1 DEF First

\* The beat stored next is appended to those there.
LEMMA FirstPut ==
    ASSUME NEW data \in [Banks -> [Beats -> Beat]], NEW b \in Banks,
           NEW n \in Beats, NEW d \in Beat
    PROVE  First([data EXCEPT ![b][n] = d], b, n + 1)
               = Append(First(data, b, n), d)
<1> DEFINE stored == [data EXCEPT ![b][n] = d]
<1>1. stored \in [Banks -> [Beats -> Beat]] /\ stored[b] = [data[b] EXCEPT ![n] = d]
  OBVIOUS
<1>2. n \in Nat /\ n \in 0 .. NumBeats /\ n + 1 \in 0 .. NumBeats
  OBVIOUS
<1> HIDE DEF stored
<1>3. /\ First(data, b, n) \in [1 .. n -> Beat]
      /\ First(stored, b, n + 1) \in [1 .. n + 1 -> Beat]
  BY <1>1, <1>2, FirstType
<1>4. ASSUME NEW i \in 1 .. n
      PROVE  First(stored, b, n + 1)[i] = First(data, b, n)[i]
  <2>1. i \in 1 .. n + 1 /\ i - 1 \in Beats /\ i - 1 # n
    OBVIOUS
  <2> QED  BY <1>1, <2>1 DEF First
<1>5. First(stored, b, n + 1)[n + 1] = d
  <2>1. n + 1 \in 1 .. n + 1 /\ (n + 1) - 1 = n
    OBVIOUS
  <2> QED  BY <1>1, <2>1 DEF First
<1>6. First(stored, b, n + 1) = Append(First(data, b, n), d)
  BY <1>2, <1>3, <1>4, <1>5, AppendFcn
<1> QED  BY <1>6 DEF stored

\* What the abstract buffer sees: the complete packets, oldest first, and the
\* one that is arriving.
Packets == [k \in 1 .. tokens_in_flight |-> Packet(Held(k))]
Whole == [1 .. NumBeats -> Beat]

\* The arriving packet grows by the beat accepted, and is whole with its last.
LEMMA Arrives ==
    ASSUME IInv, NEW valid_in \in BOOLEAN, NEW ready_in \in BOOLEAN,
           NEW data_in \in Beat, Clock(valid_in, data_in, ready_in)
    PROVE  LET prod_handshake == valid_in /\ ready_out
               prod_done == prod_handshake /\ prod_beat_count = NumBeats - 1
           IN /\ ~prod_handshake => Partial' = Partial
              /\ prod_handshake /\ ~prod_done =>
                     /\ Partial' = Append(Partial, data_in)
                     /\ Len(Partial) + 1 < NumBeats
              /\ prod_done =>
                     /\ Partial' = <<>>
                     /\ Len(Partial) + 1 = NumBeats
                     /\ First(buf_data', write_ptr, NumBeats)
                            = Append(Partial, data_in)
<1> DEFINE prod_handshake == valid_in /\ ready_out
           prod_done == prod_handshake /\ prod_beat_count = NumBeats - 1
           stored == [buf_data EXCEPT ![write_ptr][prod_beat_count] = data_in]
<1>1. /\ prod_beat_count \in Beats /\ prod_beat_count \in Nat
      /\ prod_beat_count \in 0 .. NumBeats /\ write_ptr \in Banks
      /\ buf_data \in [Banks -> [Beats -> Beat]]
  BY DEF IInv, TypeOK
<1>2. /\ Partial = First(buf_data, write_ptr, prod_beat_count)
      /\ Partial' = First(buf_data', write_ptr', prod_beat_count')
  BY DEF Partial, First
<1>3. Len(Partial) = prod_beat_count
  <2>1. Partial \in [1 .. prod_beat_count -> Beat]
    BY <1>1, <1>2, FirstType
  <2> QED  BY <1>1, <2>1
<1>4. First(stored, write_ptr, prod_beat_count + 1) = Append(Partial, data_in)
  BY <1>1, <1>2, FirstPut
<1>5. prod_handshake => buf_data' = stored
  BY DEF Clock
<1> HIDE DEF stored
<1>6. CASE ~prod_handshake
  <2>1. UNCHANGED <<prod_beat_count, write_ptr, buf_data>>
    BY <1>6 DEF Clock, NextCount
  <2> QED  BY <1>2, <1>6, <2>1
<1>7. CASE prod_handshake /\ ~prod_done
  <2>1. prod_beat_count' = prod_beat_count + 1 /\ write_ptr' = write_ptr
    BY <1>7 DEF Clock, NextCount
  <2>2. prod_beat_count + 1 < NumBeats
    BY <1>1, <1>7
  <2> QED  BY <1>2, <1>3, <1>4, <1>5, <1>7, <2>1, <2>2
<1>8. CASE prod_done
  <2>1. prod_beat_count' = 0 /\ prod_beat_count + 1 = NumBeats
    BY <1>1, <1>8 DEF Clock, NextCount
  <2>2. Partial' = <<>>
    BY <1>2, <2>1 DEF First
  <2> QED  BY <1>3, <1>4, <1>5, <1>8, <2>1, <2>2
<1> QED  BY <1>6, <1>7, <1>8

\* Producer and consumer each do what they did alone: the whole packet joins at
\* the end, the oldest leaves at the front, in one cycle or in two.
LEMMA Queues ==
    ASSUME IInv, NEW valid_in \in BOOLEAN, NEW ready_in \in BOOLEAN,
           NEW data_in \in Beat, Clock(valid_in, data_in, ready_in)
    PROVE  LET prod_done == /\ valid_in /\ ready_out
                            /\ prod_beat_count = NumBeats - 1
               cons_done == /\ valid_out /\ ready_in
                            /\ cons_beat_count = NumBeats - 1
               whole == Append(Partial, data_in)
           IN /\ ~prod_done /\ ~cons_done => Packets' = Packets
              /\ prod_done /\ ~cons_done => Packets' = Append(Packets, whole)
              /\ ~prod_done /\ cons_done => Packets' = Tail(Packets)
              /\ prod_done /\ cons_done => Packets' = Append(Tail(Packets), whole)
              /\ valid_out => Packets # <<>>
              /\ ready_out => Len(Packets) < 2
<1> DEFINE prod_done == /\ valid_in /\ ready_out
                        /\ prod_beat_count = NumBeats - 1
           cons_done == /\ valid_out /\ ready_in
                        /\ cons_beat_count = NumBeats - 1
           whole == Append(Partial, data_in)
           t == tokens_in_flight
<1>1. /\ t \in 0 .. 2 /\ t \in Nat /\ t' \in 0 .. 2 /\ t' \in Nat
      /\ buf_data \in [Banks -> [Beats -> Beat]]
      /\ buf_data' \in [Banks -> [Beats -> Beat]]
      /\ write_ptr \in Banks
      /\ valid_out => t > 0
      /\ ready_out => t < 2
  <2>1. IInv'
    BY NextIInv DEF Next
  <2> QED  BY <2>1 DEF IInv, TypeOK, valid_out, ready_out
<1>2. t' = IF prod_done /\ ~cons_done THEN t + 1
           ELSE IF cons_done /\ ~prod_done THEN t - 1 ELSE t
  BY DEF Clock, NextTokens
<1>3. \A k \in 1 .. t : Held(k) \in Banks
  BY DEF IInv, TypeOK, Held
\* A bank that holds a whole packet is not written, and the bank written is next.
<1>4. \A k \in 1 .. t : buf_data'[Held(k)] = buf_data[Held(k)]
  <2>1. valid_in /\ ready_out => \A k \in 1 .. t : Held(k) # write_ptr
    BY DEF IInv, TypeOK, BanksAgree, Held, ready_out
  <2> QED  BY <1>1, <1>3, <2>1 DEF Clock
<1>5. prod_done => write_ptr = Held(t + 1)
  BY <1>1 DEF IInv, TypeOK, BanksAgree, Held, ready_out
<1>6. \A k \in 1 .. t' : Held(k)' = IF cons_done THEN Held(k + 1) ELSE Held(k)
  BY <1>1, <1>2 DEF Clock, IInv, TypeOK, Held, ready_out
<1>7. Packets = [k \in 1 .. t |-> First(buf_data, Held(k), NumBeats)]
  BY DEF Packets, Packet, First
<1>8. Packets' = [k \in 1 .. t' |-> First(buf_data', Held(k)', NumBeats)]
  BY DEF Packets, Packet, First
<1> HIDE DEF t
<1>9. Packets \in [1 .. t -> Whole]
  <2>1. NumBeats \in 0 .. NumBeats
    OBVIOUS
  <2>2. \A k \in 1 .. t : First(buf_data, Held(k), NumBeats) \in Whole
    BY <1>1, <1>3, <2>1, FirstType DEF Whole
  <2> QED  BY <1>7, <2>2
<1>10. \A k \in 1 .. t : First(buf_data', Held(k), NumBeats) = Packets[k]
  BY <1>4, <1>7 DEF First
<1>11. prod_done => /\ First(buf_data', Held(t + 1), NumBeats) = whole
                    /\ whole \in Whole
  <2>1. SUFFICES ASSUME prod_done
                 PROVE  /\ First(buf_data', Held(t + 1), NumBeats) = whole
                        /\ whole \in Whole
    OBVIOUS
  <2>2. First(buf_data', write_ptr, NumBeats) = whole
    BY <2>1, Arrives
  <2>3. First(buf_data', write_ptr, NumBeats) \in Whole
    <3>1. NumBeats \in 0 .. NumBeats
      OBVIOUS
    <3> QED  BY <1>1, <3>1, FirstType DEF Whole
  <2> QED  BY <1>5, <2>1, <2>2, <2>3
<1> HIDE DEF prod_done, cons_done, whole
<1>12. t > 0 => Packets # <<>>
  BY <1>1, <1>9
<1>13. Len(Packets) = t
  BY <1>1, <1>9
<1>14. ~prod_done /\ ~cons_done => Packets' = Packets
  <2>1. SUFFICES ASSUME ~prod_done, ~cons_done PROVE Packets' = Packets
    OBVIOUS
  <2>2. t' = t /\ \A k \in 1 .. t : Held(k)' = Held(k)
    BY <1>2, <1>6, <2>1
  <2>3. Packets' = [k \in 1 .. t |-> Packets[k]]
    BY <1>8, <1>10, <2>2
  <2> QED  BY <1>9, <2>3
<1>15. prod_done /\ ~cons_done => Packets' = Append(Packets, whole)
  <2>1. SUFFICES ASSUME prod_done, ~cons_done
                 PROVE  Packets' = Append(Packets, whole)
    OBVIOUS
  <2>2. t' = t + 1 /\ \A k \in 1 .. t + 1 : Held(k)' = Held(k)
    BY <1>2, <1>6, <2>1
  <2>3. Packets' = [k \in 1 .. t + 1 |-> First(buf_data', Held(k), NumBeats)]
    BY <1>8, <2>2
  <2>4. \A k \in 1 .. t : Packets'[k] = Packets[k]
    <3>1. \A k \in 1 .. t : k \in 1 .. t + 1
      BY <1>1
    <3> QED  BY <1>10, <2>3, <3>1
  <2>5. Packets'[t + 1] = whole /\ whole \in Whole
    <3>1. t + 1 \in 1 .. t + 1
      BY <1>1
    <3> QED  BY <1>11, <2>1, <2>3, <3>1
  <2>6. Packets' \in [1 .. t + 1 -> Whole]
    <3>1. \A k \in 1 .. t + 1 : k \in 1 .. t \/ k = t + 1
      BY <1>1
    <3>2. \A k \in 1 .. t + 1 : Packets'[k] \in Whole
      BY <1>9, <2>4, <2>5, <3>1
    <3> QED  BY <2>3, <3>2
  <2> QED  BY <1>1, <1>9, <2>4, <2>5, <2>6, AppendFcn
<1>16. cons_done => /\ t > 0
                    /\ [k \in 1 .. t - 1 |-> Packets[k + 1]] \in [1 .. t - 1 -> Whole]
                    /\ [k \in 1 .. t - 1 |-> Packets[k + 1]] = Tail(Packets)
  <2>1. SUFFICES ASSUME cons_done
                 PROVE  /\ t > 0
                        /\ [k \in 1 .. t - 1 |-> Packets[k + 1]]
                               \in [1 .. t - 1 -> Whole]
                        /\ [k \in 1 .. t - 1 |-> Packets[k + 1]] = Tail(Packets)
    OBVIOUS
  <2>2. t > 0 /\ t \in Nat \ {0}
    BY <1>1, <2>1 DEF cons_done
  <2>3. \A k \in 1 .. t - 1 : k + 1 \in 1 .. t
    BY <2>2
  <2> DEFINE rest == [k \in 1 .. t - 1 |-> Packets[k + 1]]
  <2>4. rest \in [1 .. t - 1 -> Whole] /\ \A k \in 1 .. t - 1 : rest[k] = Packets[k + 1]
    BY <1>9, <2>3
  <2> HIDE DEF rest
  <2>5. rest = Tail(Packets)
    BY <1>9, <2>2, <2>4, TailFcn
  <2> QED  BY <2>2, <2>4, <2>5 DEF rest
<1>17. ~prod_done /\ cons_done => Packets' = Tail(Packets)
  <2>1. SUFFICES ASSUME ~prod_done, cons_done PROVE Packets' = Tail(Packets)
    OBVIOUS
  <2>2. t' = t - 1 /\ \A k \in 1 .. t - 1 : Held(k)' = Held(k + 1)
    BY <1>2, <1>6, <2>1
  <2>3. \A k \in 1 .. t - 1 : k + 1 \in 1 .. t
    BY <1>1, <1>16, <2>1
  <2>4. Packets' = [k \in 1 .. t - 1 |-> Packets[k + 1]]
    BY <1>8, <1>10, <2>2, <2>3
  <2> QED  BY <1>16, <2>1, <2>4
<1>18. prod_done /\ cons_done => Packets' = Append(Tail(Packets), whole)
  <2>1. SUFFICES ASSUME prod_done, cons_done
                 PROVE  Packets' = Append(Tail(Packets), whole)
    OBVIOUS
  <2>2. t' = t /\ \A k \in 1 .. t : Held(k)' = Held(k + 1)
    BY <1>2, <1>6, <2>1
  <2>3. Packets' = [k \in 1 .. t |-> First(buf_data', Held(k + 1), NumBeats)]
    BY <1>8, <2>2
  <2> DEFINE rest == [k \in 1 .. t - 1 |-> Packets[k + 1]]
  <2>4. rest \in [1 .. t - 1 -> Whole] /\ rest = Tail(Packets) /\ t > 0
    BY <1>16, <2>1
  <2>5. t - 1 \in Nat /\ (t - 1) + 1 = t /\ t \in 1 .. t
    BY <1>1, <2>4
  <2>6. \A k \in 1 .. t - 1 : Packets'[k] = rest[k]
    <3>1. \A k \in 1 .. t - 1 : k + 1 \in 1 .. t /\ k \in 1 .. t
      BY <1>1
    <3> QED  BY <1>10, <2>3, <3>1
  <2>7. Packets'[t] = whole /\ whole \in Whole
    BY <1>11, <2>1, <2>3, <2>5
  <2> HIDE DEF rest
  <2>8. Packets' \in [1 .. t -> Whole]
    <3>1. \A k \in 1 .. t : k \in 1 .. t - 1 \/ k = t
      BY <1>1
    <3>2. \A k \in 1 .. t : Packets'[k] \in Whole
      BY <2>4, <2>6, <2>7, <3>1
    <3> QED  BY <2>3, <3>2
  <2>9. Packets' = Append(rest, whole)
    <3> DEFINE s == t - 1
    <3>1. s \in Nat /\ s + 1 = t
      BY <2>5
    <3>2. /\ rest \in [1 .. s -> Whole] /\ Packets' \in [1 .. s + 1 -> Whole]
          /\ \A k \in 1 .. s : Packets'[k] = rest[k]
          /\ Packets'[s + 1] = whole
      BY <2>4, <2>6, <2>7, <2>8, <3>1
    <3> HIDE DEF s
    <3> QED  BY <2>7, <3>1, <3>2, AppendFcn
  <2> QED  BY <2>4, <2>9
<1> QED  BY <1>1, <1>12, <1>13, <1>14, <1>15, <1>17, <1>18
         DEF prod_done, cons_done, whole

LEMMA ClockBuffer ==
    ASSUME IInv, NEW valid_in \in BOOLEAN, NEW ready_in \in BOOLEAN,
           NEW data_in \in Beat, Clock(valid_in, data_in, ready_in)
    PROVE  Buffer!Next
<1> DEFINE prod_handshake == valid_in /\ ready_out
           prod_done == prod_handshake /\ prod_beat_count = NumBeats - 1
           cons_handshake == valid_out /\ ready_in
           cons_done == cons_handshake /\ cons_beat_count = NumBeats - 1
           whole == Append(Partial, data_in)
<1>1. /\ ~prod_handshake => Partial' = Partial
      /\ prod_handshake /\ ~prod_done =>
             /\ Partial' = Append(Partial, data_in)
             /\ Len(Partial) + 1 < NumBeats
      /\ prod_done => Partial' = <<>> /\ Len(Partial) + 1 = NumBeats
  BY Arrives
<1>2. /\ ~prod_done /\ ~cons_done => Packets' = Packets
      /\ prod_done /\ ~cons_done => Packets' = Append(Packets, whole)
      /\ ~prod_done /\ cons_done => Packets' = Tail(Packets)
      /\ prod_done /\ cons_done => Packets' = Append(Tail(Packets), whole)
      /\ valid_out => Packets # <<>>
      /\ ready_out => Len(Packets) < 2
  <2>1. (valid_in /\ ready_out /\ prod_beat_count = NumBeats - 1) <=> prod_done
    OBVIOUS
  <2>2. (valid_out /\ ready_in /\ cons_beat_count = NumBeats - 1) <=> cons_done
    OBVIOUS
  <2> HIDE DEF prod_done, cons_done
  <2> QED  BY <2>1, <2>2, Queues
<1>3. /\ ~cons_handshake => cons_beat_count' = cons_beat_count
      /\ cons_handshake /\ ~cons_done =>
             cons_beat_count' = cons_beat_count + 1 /\ cons_beat_count + 1 < NumBeats
      /\ cons_done => cons_beat_count' = 0 /\ cons_beat_count + 1 = NumBeats
  BY DEF Clock, NextCount, IInv, TypeOK
<1>4. (prod_handshake => ready_out) /\ (cons_handshake => valid_out)
  OBVIOUS
<1>5. (prod_done => prod_handshake) /\ (cons_done => cons_handshake)
  OBVIOUS
<1> HIDE DEF prod_handshake, prod_done, cons_handshake, cons_done
<1>6. ~prod_done => Buffer!NoArrival \/ Buffer!Arrival(data_in)
  BY <1>1, <1>2, <1>4 DEF Buffer!NoArrival, Buffer!Arrival, Packets
<1>7. prod_done => Buffer!LastArrival(data_in)
  BY <1>1, <1>2, <1>4, <1>5 DEF Buffer!LastArrival, Packets
<1>8. ~cons_done => Buffer!NoDeparture \/ Buffer!Departure
  BY <1>2, <1>3, <1>4 DEF Buffer!NoDeparture, Buffer!Departure, Packets
<1>9. cons_done => Buffer!LastDeparture
  BY <1>2, <1>3, <1>4, <1>5 DEF Buffer!LastDeparture, Packets
<1>10. CASE ~prod_done /\ ~cons_done
  BY <1>2, <1>6, <1>8, <1>10 DEF Buffer!Next, Packets
<1>11. CASE prod_done /\ ~cons_done
  BY <1>2, <1>7, <1>8, <1>11 DEF Buffer!Next, Packets
<1>12. CASE ~prod_done /\ cons_done
  BY <1>2, <1>6, <1>9, <1>12 DEF Buffer!Next, Packets
<1>13. CASE prod_done /\ cons_done
  BY <1>2, <1>7, <1>9, <1>13 DEF Buffer!Next, Packets
<1> QED  BY <1>10, <1>11, <1>12, <1>13

\* The core implements a buffer of two packets: none is lost, doubled, overtaken,
\* cut or let out before it is whole, for any packet length and any stalls.
THEOREM ImplementsBuffer == Spec => ImplementsPacketBuffer
<1>1. Init => Buffer!Init
  BY DEF Init, Buffer!Init, Partial
<1>2. IInv /\ [Next]_vars => [Buffer!Next]_<<Packets, Partial, cons_beat_count>>
  <2>1. ASSUME IInv, Next PROVE Buffer!Next
    BY <2>1, ClockBuffer DEF Next
  <2>2. ASSUME UNCHANGED vars PROVE UNCHANGED <<Packets, Partial, cons_beat_count>>
    BY <2>2 DEF vars, pointers, counters, Partial, Packets, Packet, Held
  <2> QED  BY <2>1, <2>2
<1> QED  BY <1>1, <1>2, AlwaysIInv, PTL
         DEF Spec, ImplementsPacketBuffer, Buffer!Spec, Packets

-----------------------------------------------------------------------------
\* A set of naturals that is not empty has a least element.
LEMMA Least ==
    ASSUME NEW S, S \subseteq Nat, S # {}
    PROVE  \E n \in S : \A m \in S : n <= m
<1> DEFINE below == {p \in Nat \X Nat : p[1] < p[2]}
<1>1. IsWellFoundedOn(below, Nat)
  BY NatLessThanWellFounded DEF OpToRel
<1>2. \E n \in S : \A m \in S : ~ (<<m, n>> \in below)
  <2> HIDE DEF below
  <2> QED  BY <1>1, WFMin
<1>3. PICK n \in S : \A m \in S : ~ (<<m, n>> \in below)
  BY <1>2
<1>4. ASSUME NEW m \in S PROVE n <= m
  <2>1. m \in Nat /\ n \in Nat
    OBVIOUS
  <2>2. m < n => <<m, n>> \in below
    BY <2>1
  <2> HIDE DEF below
  <2> QED  BY <1>3, <2>1, <2>2
<1> QED  BY <1>4

\* Induction over the beats: the least number outside of S has a predecessor in it.
LEMMA Induction ==
    ASSUME NEW S, 0 \in S, \A n \in Nat : n \in S => n + 1 \in S
    PROVE  Nat \subseteq S
<1>1. SUFFICES ASSUME Nat \ S # {} PROVE FALSE
  OBVIOUS
<1>2. PICK n \in Nat \ S : \A m \in Nat \ S : n <= m
  BY <1>1, Least
<1>3. n # 0 /\ n - 1 \in Nat /\ n - 1 \in S
  BY <1>2
<1> QED  BY <1>2, <1>3

\* The recursive definition of Sum has a solution: the partial sums of f.
LEMMA SumExists ==
    ASSUME NEW f \in [Beats -> Int]
    PROVE  \E s : s = [i \in 0 .. NumBeats |-> IF i = 0 THEN 0 ELSE s[i - 1] + f[i - 1]]
<1> DEFINE Solutions(n) == {s \in [0 .. n -> Int] :
                           s[0] = 0 /\ \A i \in 1 .. n : s[i] = s[i - 1] + f[i - 1]}
            S == {n \in Nat : n <= NumBeats => Solutions(n) # {}}
<1>1. Solutions(0) # {}
  <2>1. [i \in 0 .. 0 |-> 0] \in Solutions(0)
    OBVIOUS
  <2> QED  BY <2>1
<1>2. ASSUME NEW n \in Nat, n + 1 <= NumBeats, Solutions(n) # {}
      PROVE  Solutions(n + 1) # {}
  <2>1. PICK s \in Solutions(n) : TRUE
    BY <1>2
  <2> DEFINE longer == [i \in 0 .. n + 1 |-> IF i = n + 1 THEN s[n] + f[n] ELSE s[i]]
  <2>2. n \in 0 .. n /\ n \in Beats
    BY <1>2
  <2>3. longer \in [0 .. n + 1 -> Int]
    BY <2>1, <2>2
  <2>4. longer[0] = 0 /\ \A i \in 1 .. n + 1 : longer[i] = longer[i - 1] + f[i - 1]
    BY <2>1, <2>2
  <2> QED  BY <2>3, <2>4
<1>3. Solutions(NumBeats) # {}
  <2> HIDE DEF Solutions
  <2>1. 0 \in S /\ \A n \in Nat : n \in S => n + 1 \in S
    BY <1>1, <1>2
  <2>2. NumBeats \in S
    <3> HIDE DEF S
    <3> QED  BY <2>1, Induction
  <2> QED  BY <2>2
<1>4. PICK s \in Solutions(NumBeats) : TRUE
  <2> HIDE DEF Solutions
  <2> QED  BY <1>3
<1>5. s = [i \in 0 .. NumBeats |-> IF i = 0 THEN 0 ELSE s[i - 1] + f[i - 1]]
  BY <1>4
<1> QED  BY <1>5

\* Hence Sum adds up f, one beat after the other.
LEMMA SumSteps ==
    ASSUME NEW f \in [Beats -> Int]
    PROVE  /\ Sum(f, 0) = 0
           /\ \A n \in Beats : Sum(f, n + 1) = Sum(f, n) + f[n]
           /\ \A n \in 0 .. NumBeats : Sum(f, n) \in Int
<1> DEFINE sum[i \in 0 .. NumBeats] == IF i = 0 THEN 0 ELSE sum[i - 1] + f[i - 1]
            S == {n \in Nat : n <= NumBeats => Sum(f, n) \in Int}
<1>1. sum = [i \in 0 .. NumBeats |-> IF i = 0 THEN 0 ELSE sum[i - 1] + f[i - 1]]
  <2> HIDE DEF Beats
  <2> QED  BY SumExists
<1>2. \A n : Sum(f, n) = sum[n]
  BY DEF Sum
<1> HIDE DEF sum
<1>0. \A i \in 0 .. NumBeats : sum[i] = IF i = 0 THEN 0 ELSE sum[i - 1] + f[i - 1]
  <2> DEFINE I == 0 .. NumBeats
  <2> HIDE DEF I
  <2> QED  BY <1>1
<1>3. Sum(f, 0) = 0
  <2>1. 0 \in 0 .. NumBeats
    OBVIOUS
  <2> QED  BY <1>0, <1>2, <2>1
<1>4. ASSUME NEW n \in Beats PROVE Sum(f, n + 1) = Sum(f, n) + f[n]
  <2>1. n + 1 \in 0 .. NumBeats /\ n + 1 # 0 /\ (n + 1) - 1 = n
    OBVIOUS
  <2>3. sum[n + 1] = sum[n] + f[n]
    BY <2>1, <1>0
  <2> QED  BY <1>2, <2>3
<1>5. 0 \in S
  BY <1>3
<1>6. ASSUME NEW n \in Nat, n \in S PROVE n + 1 \in S
  <2>1. SUFFICES ASSUME n + 1 <= NumBeats PROVE Sum(f, n + 1) \in Int
    OBVIOUS
  <2>2. n \in Beats /\ Sum(f, n) \in Int
    BY <1>6, <2>1
  <2> QED  BY <1>4, <2>2
<1>7. Nat \subseteq S
  <2> HIDE DEF S
  <2> QED  BY <1>5, <1>6, Induction
<1> QED  BY <1>3, <1>4, <1>7

\* Sum only looks at the beats that are there.
LEMMA SumAgrees ==
    ASSUME NEW f \in [Beats -> Int], NEW g \in [Beats -> Int],
           NEW m \in 0 .. NumBeats, \A i \in 0 .. m - 1 : f[i] = g[i]
    PROVE  Sum(f, m) = Sum(g, m)
<1> DEFINE S == {n \in Nat : n <= m => Sum(f, n) = Sum(g, n)}
<1>1. 0 \in S
  BY SumSteps, 0 \in Nat
<1>2. ASSUME NEW n \in Nat, n \in S PROVE n + 1 \in S
  <2>1. SUFFICES ASSUME n + 1 <= m PROVE Sum(f, n + 1) = Sum(g, n + 1)
    OBVIOUS
  <2>2. n \in Beats /\ f[n] = g[n] /\ Sum(f, n) = Sum(g, n)
    BY <1>2, <2>1
  <2>3. Sum(f, n + 1) = Sum(f, n) + f[n] /\ Sum(g, n + 1) = Sum(g, n) + g[n]
    BY <2>2, SumSteps
  <2> QED  BY <2>2, <2>3
<1>3. m \in S
  <2>1. m \in Nat
    OBVIOUS
  <2> HIDE DEF S
  <2> QED  BY <1>1, <1>2, <2>1, Induction
<1> QED  BY <1>3

LEMMA SquaresType ==
    ASSUME NEW bank \in [Beats -> Int] PROVE Squares(bank) \in [Beats -> Int]
<1>1. ASSUME NEW i \in Beats PROVE bank[i] * bank[i] \in Int
  <2> DEFINE a == bank[i]
  <2>1. a \in Int
    OBVIOUS
  <2> HIDE DEF a
  <2>2. a * a \in Int
    BY <2>1
  <2> QED  BY <2>2 DEF a
<1> QED  BY <1>1 DEF Squares

\* A beat stored behind n others adds itself, and its square.
LEMMA SumStored ==
    ASSUME NEW bank \in [Beats -> Beat], NEW n \in Beats, NEW x \in Beat
    PROVE  LET stored == [bank EXCEPT ![n] = x]
           IN /\ Sum(stored, n + 1) = Sum(bank, n) + x
              /\ Sum(Squares(stored), n + 1) = Sum(Squares(bank), n) + x * x
<1> DEFINE stored == [bank EXCEPT ![n] = x]
<1>1. \A a \in Beat : a \in Int
  OBVIOUS
<1>2. /\ bank \in [Beats -> Int] /\ stored \in [Beats -> Int]
      /\ stored[n] = x /\ \A i \in 0 .. n - 1 : stored[i] = bank[i]
  <2>1. bank \in [Beats -> Int] /\ x \in Int
    BY <1>1
  <2>2. stored \in [Beats -> Int] /\ stored[n] = x
    BY <2>1
  <2>3. \A i \in 0 .. n - 1 : i \in Beats /\ i # n
    OBVIOUS
  <2> QED  BY <2>1, <2>2, <2>3
<1>3. /\ Squares(bank) \in [Beats -> Int] /\ Squares(stored) \in [Beats -> Int]
  BY <1>2, SquaresType
<1> HIDE DEF stored
<1>4. /\ Squares(stored)[n] = x * x
      /\ \A i \in 0 .. n - 1 : Squares(stored)[i] = Squares(bank)[i]
  <2>1. \A i \in 0 .. n - 1 : i \in Beats
    OBVIOUS
  <2>2. Squares(stored)[n] = stored[n] * stored[n]
    BY DEF Squares
  <2>3. ASSUME NEW i \in 0 .. n - 1 PROVE Squares(stored)[i] = Squares(bank)[i]
    <3>1. Squares(stored)[i] = stored[i] * stored[i] /\ Squares(bank)[i] = bank[i] * bank[i]
      BY <2>1 DEF Squares
    <3> QED  BY <1>2, <3>1
  <2> QED  BY <1>2, <2>2, <2>3
<1>5. n \in 0 .. NumBeats
  OBVIOUS
<1>6. Sum(stored, n) = Sum(bank, n) /\ Sum(Squares(stored), n) = Sum(Squares(bank), n)
  BY <1>2, <1>3, <1>4, <1>5, SumAgrees
<1>7. /\ Sum(stored, n + 1) = Sum(stored, n) + x
      /\ Sum(Squares(stored), n + 1) = Sum(Squares(stored), n) + x * x
  BY <1>2, <1>3, <1>4, SumSteps
<1>8. /\ Sum(stored, n + 1) = Sum(bank, n) + x
      /\ Sum(Squares(stored), n + 1) = Sum(Squares(bank), n) + x * x
  BY <1>6, <1>7
<1> QED  BY <1>8 DEF stored

\* What the sums latched with a bank are when its packet is whole.
Summed(b) == /\ buf_sum_x[b] = Sum(buf_data[b], NumBeats)
             /\ buf_sum_x2[b] = Sum(Squares(buf_data[b]), NumBeats)
Full(b) == tokens_in_flight = 2 \/ (tokens_in_flight = 1 /\ b = read_ptr)
Running == /\ sum_x = Sum(buf_data[write_ptr], prod_beat_count)
           /\ sum_x2 = Sum(Squares(buf_data[write_ptr]), prod_beat_count)
SumInv == Running /\ \A b \in Banks : Full(b) => Summed(b)

LEMMA SumInvImplies == IInv /\ SumInv => SumsOfOwnPacket
<1> SUFFICES ASSUME IInv, SumInv PROVE SumsOfOwnPacket
  OBVIOUS
<1>1. ASSUME NEW k \in 1 .. tokens_in_flight PROVE Summed(Held(k))
  <2>1. Held(k) \in Banks /\ Full(Held(k))
    BY DEF IInv, TypeOK, Held, Full
  <2> QED  BY <2>1 DEF SumInv
<1> QED  BY <1>1 DEF SumInv, Running, Summed, SumsOfOwnPacket

\* A cycle adds the beat it stores to the running sums, latches them with the
\* last, and never stores into a bank whose sums are latched and in use.
LEMMA ClockSumInv ==
    ASSUME IInv, SumInv, NEW valid_in \in BOOLEAN, NEW ready_in \in BOOLEAN,
           NEW data_in \in Beat, Clock(valid_in, data_in, ready_in)
    PROVE  SumInv'
<1> DEFINE prod_handshake == valid_in /\ ready_out
           cons_handshake == valid_out /\ ready_in
           prod_done == prod_handshake /\ prod_beat_count = NumBeats - 1
           cons_done == cons_handshake /\ cons_beat_count = NumBeats - 1
           square == data_in * data_in
           old == buf_data[write_ptr]
           stored == [old EXCEPT ![prod_beat_count] = data_in]
<1>1. /\ old \in [Beats -> Beat] /\ prod_beat_count \in Beats /\ write_ptr \in Banks
      /\ read_ptr \in Banks
  BY DEF IInv, TypeOK
<1>2. /\ Sum(stored, prod_beat_count + 1) = sum_x + data_in
      /\ Sum(Squares(stored), prod_beat_count + 1) = sum_x2 + square
  BY <1>1, SumStored DEF SumInv, Running
<1>3. /\ sum_x' = NextSum(sum_x, data_in, prod_handshake, prod_done)
      /\ sum_x2' = NextSum(sum_x2, square, prod_handshake, prod_done)
      /\ buf_sum_x' = Latch(buf_sum_x, sum_x, data_in, prod_done)
      /\ buf_sum_x2' = Latch(buf_sum_x2, sum_x2, square, prod_done)
      /\ prod_beat_count' = NextCount(prod_beat_count, prod_handshake)
      /\ write_ptr' = IF prod_done THEN 1 - write_ptr ELSE write_ptr
  BY DEF Clock
<1>4. \A b \in Banks : buf_data'[b] = IF prod_handshake /\ b = write_ptr
                                      THEN stored ELSE buf_data[b]
  BY DEF Clock, IInv, TypeOK
<1>5. IInv'
  BY ClockTypeOK, ClockBanksAgree DEF IInv
<1>6. Running'
  <2>1. CASE prod_done
    <3>1. /\ sum_x' = 0 /\ sum_x2' = 0 /\ prod_beat_count' = 0
      BY <1>3, <2>1 DEF NextSum, NextCount
    <3>0. write_ptr' \in Banks /\ buf_data' \in [Banks -> [Beats -> Beat]]
      BY <1>5 DEF IInv, TypeOK
    <3>2. PICK bank \in [Beats -> Int] : bank = buf_data'[write_ptr']
      <4>1. buf_data'[write_ptr'] \in [Beats -> Beat]
        BY <3>0
      <4>2. Beat \subseteq Int
        OBVIOUS
      <4> QED  BY <4>1, <4>2
    <3>3. Squares(bank) \in [Beats -> Int]
      BY SquaresType
    <3>4. Sum(bank, 0) = 0 /\ Sum(Squares(bank), 0) = 0
      BY <3>3, SumSteps
    <3> QED  BY <3>1, <3>2, <3>4 DEF Running
  <2>2. CASE prod_handshake /\ ~prod_done
    <3>1. /\ sum_x' = sum_x + data_in /\ sum_x2' = sum_x2 + square
          /\ prod_beat_count' = prod_beat_count + 1 /\ write_ptr' = write_ptr
      BY <1>3, <2>2 DEF NextSum, NextCount
    <3>2. buf_data'[write_ptr] = stored
      BY <1>1, <1>4, <2>2
    <3> HIDE DEF stored
    <3> QED  BY <1>2, <3>1, <3>2 DEF Running
  <2>3. CASE ~prod_handshake
    <3>1. UNCHANGED <<sum_x, sum_x2, prod_beat_count, write_ptr>>
      BY <1>3, <2>3 DEF NextSum, NextCount
    <3>2. buf_data'[write_ptr] = buf_data[write_ptr]
      BY <1>1, <1>4, <2>3
    <3> QED  BY <3>1, <3>2 DEF SumInv, Running
  <2> QED  BY <2>1, <2>2, <2>3
<1>7. ASSUME NEW b \in Banks, Full(b)' PROVE Summed(b)'
  <2>1. CASE prod_done /\ b = write_ptr
    <3>1. buf_data'[b] = stored /\ prod_beat_count + 1 = NumBeats
      BY <1>4, <2>1
    <3>2. buf_sum_x'[b] = sum_x + data_in /\ buf_sum_x2'[b] = sum_x2 + square
      BY <1>3, <2>1 DEF Latch, IInv, TypeOK
    <3> HIDE DEF stored
    <3> QED  BY <1>2, <3>1, <3>2 DEF Summed
  <2>2. CASE ~(prod_done /\ b = write_ptr)
    <3>1. Full(b) /\ ~(prod_handshake /\ b = write_ptr)
      BY <1>7, <2>2 DEF Full, IInv, TypeOK, BanksAgree, Clock, NextTokens,
                        ready_out, valid_out
    <3>2. buf_data'[b] = buf_data[b]
      BY <1>4, <3>1
    <3>3. buf_sum_x'[b] = buf_sum_x[b] /\ buf_sum_x2'[b] = buf_sum_x2[b]
      BY <1>3, <2>2 DEF Latch, IInv, TypeOK
    <3> QED  BY <3>1, <3>2, <3>3 DEF Summed, SumInv
  <2> QED  BY <2>1, <2>2
<1> QED  BY <1>6, <1>7 DEF SumInv

\* Every packet on offer is normalised by the sums of all of its own beats, for
\* every packet length and however its arrival and departure interleave.
THEOREM SumsCorrect == Spec => []SumsOfOwnPacket
<1>1. Init => SumInv
  <2> SUFFICES ASSUME Init PROVE SumInv
    OBVIOUS
  <2>1. PICK bank \in [Beats -> Int] : bank = buf_data[write_ptr]
    BY DEF Init
  <2>2. Squares(bank) \in [Beats -> Int]
    BY SquaresType
  <2>3. Sum(bank, 0) = 0 /\ Sum(Squares(bank), 0) = 0
    BY <2>2, SumSteps
  <2> QED  BY <2>1, <2>3 DEF Init, SumInv, Running, Full
<1>2. IInv /\ SumInv /\ [Next]_vars => SumInv'
  <2>1. ASSUME IInv, SumInv, Next PROVE SumInv'
    BY <2>1, ClockSumInv DEF Next
  <2>2. ASSUME SumInv, UNCHANGED vars PROVE SumInv'
    BY <2>2 DEF SumInv, Running, Full, Summed, vars, pointers, counters, sums
  <2> QED  BY <2>1, <2>2
<1> QED  BY <1>1, <1>2, AlwaysIInv, SumInvImplies, PTL DEF Spec

-----------------------------------------------------------------------------
(* The core in a stitched network, where its state is two counts.          *)

VARIABLES taken,  \* beats accepted, counted beside the core
          given   \* beats passed on
counted == <<vars, taken, given>>

CountedInit == Init /\ taken = 0 /\ given = 0
CountedClock(valid_in, data_in, ready_in) ==
    /\ Clock(valid_in, data_in, ready_in)
    /\ taken' = IF valid_in /\ ready_out THEN taken + 1 ELSE taken
    /\ given' = IF valid_out /\ ready_in THEN given + 1 ELSE given
CountedNext == \E valid_in, ready_in \in BOOLEAN, data_in \in Beat :
                   CountedClock(valid_in, data_in, ready_in)
CountedSpec == CountedInit /\ [][CountedNext]_counted

\* The network of this core and no other.
Node == INSTANCE StitchedNetwork WITH
            IPs <- {"norm"}, Edges <- {}, Kind <- [s \in {"norm"} |-> "norm"],
            Depth <- <<>>, MaxBeats <- 0,
            taken <- [s \in {"norm"} |-> taken],
            given <- [s \in {"norm"} |-> given],
            summed <- [s \in {"norm"} |-> 0]

\* What the network reads off the counts is what the registers drive.
DrivesNodeSignals == /\ valid_out = Node!Offers("norm")
                     /\ ready_out = Node!Accepts("norm")

\* A count of beats is p packets and b beats of the next.
Counts(n, p, b) == n = NumBeats * p + b

\* The registers hold all there is to the counts but the packets long gone.
CountsAgree == \E p, c \in Nat : /\ Counts(taken, p, prod_beat_count)
                                 /\ Counts(given, c, cons_beat_count)
                                 /\ tokens_in_flight = p - c

\* The one way to read a count.
LEMMA Quotient ==
    ASSUME NEW p \in Nat, NEW b \in Beats
    PROVE  (NumBeats * p + b) \div NumBeats = p
<1>1. PICK n \in Nat : n = NumBeats * p + b
  OBVIOUS
<1>2. PICK q \in Nat, r \in Beats : q = n \div NumBeats /\ n = NumBeats * q + r
  <2>1. /\ n \div NumBeats \in Nat /\ n % NumBeats \in Beats
        /\ n = NumBeats * (n \div NumBeats) + (n % NumBeats)
    OBVIOUS
  <2>.  QED  BY <2>1
<1>3. PICK e \in Int : e = q - p
  OBVIOUS
<1>4. NumBeats * e = b - r
  BY <1>1, <1>2, <1>3
<1>5. (e >= 1 => NumBeats * e >= NumBeats) /\ (e <= -1 => NumBeats * e <= -NumBeats)
  OBVIOUS
<1>6. e = 0
  BY <1>3, <1>4, <1>5
<1>.  QED  BY <1>1, <1>2, <1>3, <1>6

LEMMA CountsSignals ==
    ASSUME IInv, CountsAgree PROVE DrivesNodeSignals
<1>1. PICK p, c \in Nat : /\ Counts(taken, p, prod_beat_count)
                          /\ Counts(given, c, cons_beat_count)
                          /\ tokens_in_flight = p - c
  BY DEF CountsAgree
<1>2. taken \div NumBeats = p /\ given \div NumBeats = c
  BY <1>1, Quotient DEF Counts, IInv, TypeOK
<1>3. Node!TokensInFlight("norm") = tokens_in_flight
  BY <1>1, <1>2 DEF Node!TokensInFlight, Node!Packets
<1>.  QED  BY <1>3 DEF DrivesNodeSignals, Node!Offers, Node!Accepts, valid_out,
                       ready_out

\* A beat counter keeps to its count through a cycle.
LEMMA CountStep ==
    ASSUME NEW n \in Nat, NEW p \in Nat, NEW b \in Beats,
           NEW handshake \in BOOLEAN, Counts(n, p, b),
           NEW m, m = IF handshake THEN n + 1 ELSE n,
           NEW q, q = IF handshake /\ b = NumBeats - 1 THEN p + 1 ELSE p
    PROVE  Counts(m, q, NextCount(b, handshake)) /\ q \in Nat
<1>1. CASE handshake /\ b = NumBeats - 1
  BY <1>1 DEF Counts, NextCount
<1>2. CASE handshake /\ b # NumBeats - 1
  BY <1>2 DEF Counts, NextCount
<1>3. CASE ~handshake
  BY <1>3 DEF Counts, NextCount
<1>.  QED  BY <1>1, <1>2, <1>3

LEMMA CountedStep ==
    ASSUME IInv, CountsAgree, taken \in Nat, given \in Nat,
           NEW valid_in \in BOOLEAN, NEW ready_in \in BOOLEAN,
           NEW data_in \in Beat, CountedClock(valid_in, data_in, ready_in)
    PROVE  CountsAgree' /\ taken' \in Nat /\ given' \in Nat
<1>1. PICK p, c \in Nat : /\ Counts(taken, p, prod_beat_count)
                          /\ Counts(given, c, cons_beat_count)
                          /\ tokens_in_flight = p - c
  BY DEF CountsAgree
<1>2. PICK prod_handshake, cons_handshake \in BOOLEAN :
          /\ prod_handshake = (valid_in /\ ready_out)
          /\ cons_handshake = (valid_out /\ ready_in)
  BY DEF ready_out, valid_out
<1>3. PICK prod_done, cons_done \in BOOLEAN :
          /\ prod_done = (prod_handshake /\ prod_beat_count = NumBeats - 1)
          /\ cons_done = (cons_handshake /\ cons_beat_count = NumBeats - 1)
  OBVIOUS
<1>4. PICK p2, c2 : /\ p2 = IF prod_done THEN p + 1 ELSE p
                    /\ c2 = IF cons_done THEN c + 1 ELSE c
  OBVIOUS
<1>5. prod_beat_count \in Beats /\ cons_beat_count \in Beats
  BY DEF IInv, TypeOK
<1>6. /\ taken' = IF prod_handshake THEN taken + 1 ELSE taken
      /\ given' = IF cons_handshake THEN given + 1 ELSE given
      /\ prod_beat_count' = NextCount(prod_beat_count, prod_handshake)
      /\ cons_beat_count' = NextCount(cons_beat_count, cons_handshake)
      /\ tokens_in_flight' = NextTokens(prod_done, cons_done)
  BY <1>2, <1>3 DEF CountedClock, Clock
<1>7. Counts(taken', p2, prod_beat_count') /\ p2 \in Nat
  BY <1>1, <1>3, <1>4, <1>5, <1>6, CountStep
<1>8. Counts(given', c2, cons_beat_count') /\ c2 \in Nat
  BY <1>1, <1>3, <1>4, <1>5, <1>6, CountStep
<1>9. tokens_in_flight' = p2 - c2
  BY <1>1, <1>4, <1>6 DEF NextTokens
<1>.  QED  BY <1>6, <1>7, <1>8, <1>9 DEF CountsAgree

CountedInv == IInv /\ CountsAgree /\ taken \in Nat /\ given \in Nat

LEMMA AlwaysCounted == CountedSpec => []CountedInv
<1>1. CountedInit => CountedInv
  <2>.  SUFFICES ASSUME CountedInit PROVE CountedInv
    OBVIOUS
  <2>1. IInv /\ taken = 0 /\ given = 0
    BY InitIInv DEF CountedInit
  <2>2. Counts(taken, 0, prod_beat_count) /\ Counts(given, 0, cons_beat_count)
    BY DEF CountedInit, Init, Counts
  <2>3. tokens_in_flight = 0 - 0
    BY DEF CountedInit, Init
  <2>.  QED  BY <2>1, <2>2, <2>3 DEF CountedInv, CountsAgree
<1>2. ASSUME CountedInv, CountedNext PROVE CountedInv'
  <2>1. Next
    BY <1>2 DEF CountedNext, CountedClock, Next
  <2>.  QED  BY <1>2, <2>1, NextIInv, CountedStep DEF CountedInv, CountedNext
<1>3. ASSUME CountedInv, UNCHANGED counted PROVE CountedInv'
  <2>1. UNCHANGED vars
    BY <1>3 DEF counted
  <2>2. CountsAgree' /\ taken' \in Nat /\ given' \in Nat
    BY <1>3 DEF counted, vars, pointers, counters, CountedInv, CountsAgree
  <2>.  QED  BY <1>3, <2>1, <2>2, NextIInv DEF CountedInv
<1>.  QED  BY <1>1, <1>2, <1>3, PTL DEF CountedSpec

\* The stitched network may take the packets counted in and out for the token
\* counter: in every cycle it finds the signals there that the registers drive.
THEOREM NodeSignalsCorrect == CountedSpec => []DrivesNodeSignals
<1>1. CountedInv => DrivesNodeSignals
  BY CountsSignals DEF CountedInv
<1>.  QED  BY <1>1, AlwaysCounted, PTL

\* The node with any source and any sink.
NodeClock == \E offering, accepting \in SUBSET {"norm"} :
                 Node!Clock(offering, accepting)
ImplementsNode == Node!Init /\ [][NodeClock]_Node!vars

\* What the network's wires carry when the core is the whole network.
LEMMA NodeWires ==
    ASSUME NEW offering \in SUBSET {"norm"}, NEW accepting \in SUBSET {"norm"}
    PROVE  LET valid == Node!ValidOut(offering)
               ready == Node!ReadyOut(valid, accepting)
           IN /\ valid["norm"] = Node!Offers("norm")
              /\ ready["norm"] = Node!Accepts("norm")
              /\ Node!ValidIn("norm", valid, offering) <=> "norm" \in offering
              /\ Node!ReadyIn("norm", valid, ready, accepting)
                     <=> "norm" \in accepting
<1>.  DEFINE valid == Node!ValidOut(offering)
             ready == Node!ReadyOut(valid, accepting)
<1>1. valid = [s \in {"norm"} |-> Node!Offers(s)]
  BY DEF Node!ValidOut
<1>2. ready = [s \in {"norm"} |-> Node!Accepts(s)]
  BY DEF Node!ReadyOut
<1>3. Node!Up("norm") = {} /\ Node!Down("norm") = {}
  BY DEF Node!Up, Node!Down
<1>.  HIDE DEF valid, ready
<1>4. /\ Node!ValidIn("norm", valid, offering) <=> "norm" \in offering
      /\ Node!ReadyIn("norm", valid, ready, accepting) <=> "norm" \in accepting
  BY <1>3 DEF Node!ValidIn, Node!ReadyIn
<1>.  QED  BY <1>1, <1>2, <1>4 DEF valid, ready

LEMMA NodeStep ==
    ASSUME DrivesNodeSignals, NEW valid_in \in BOOLEAN, NEW ready_in \in BOOLEAN,
           NEW data_in \in Beat, CountedClock(valid_in, data_in, ready_in)
    PROVE  NodeClock
<1>.  DEFINE offering == IF valid_in THEN {"norm"} ELSE {}
             accepting == IF ready_in THEN {"norm"} ELSE {}
             valid == Node!ValidOut(offering)
             ready == Node!ReadyOut(valid, accepting)
<1>1. offering \in SUBSET {"norm"} /\ accepting \in SUBSET {"norm"}
  OBVIOUS
<1>2. ("norm" \in offering <=> valid_in) /\ ("norm" \in accepting <=> ready_in)
  OBVIOUS
<1>.  HIDE DEF offering, accepting
<1>3. /\ valid["norm"] = Node!Offers("norm")
      /\ ready["norm"] = Node!Accepts("norm")
      /\ Node!ValidIn("norm", valid, offering) <=> "norm" \in offering
      /\ Node!ReadyIn("norm", valid, ready, accepting) <=> "norm" \in accepting
  BY <1>1, NodeWires
<1>.  HIDE DEF valid, ready
<1>4. /\ taken' = IF Node!ValidIn("norm", valid, offering) /\ ready["norm"]
                  THEN taken + 1 ELSE taken
      /\ given' = IF valid["norm"] /\ Node!ReadyIn("norm", valid, ready, accepting)
                  THEN given + 1 ELSE given
  BY <1>2, <1>3 DEF DrivesNodeSignals, CountedClock
<1>5. Node!Clock(offering, accepting)
  BY <1>4 DEF Node!Clock, valid, ready
<1>.  QED  BY <1>1, <1>5 DEF NodeClock

\* Cycle for cycle, the core is the node that stands for it in the network.
THEOREM NormImplementsNode == CountedSpec => ImplementsNode
<1>1. CountedInit => Node!Init
  BY DEF CountedInit, Node!Init
<1>2. ASSUME CountedInv, CountedNext PROVE NodeClock
  BY <1>2, CountsSignals, NodeStep DEF CountedInv, CountedNext
<1>3. ASSUME UNCHANGED counted PROVE UNCHANGED Node!vars
  BY <1>3 DEF counted, Node!vars
<1>.  QED  BY <1>1, <1>2, <1>3, AlwaysCounted, PTL DEF CountedSpec, ImplementsNode
=============================================================================
