------------------------- MODULE ShapeAdapterProofs ------------------------
(***************************************************************************)
(* Every shape the constructor accepts, even or not, keeps the adapter's   *)
(* registers in their ranges.  Where one width divides the other the bytes *)
(* leave in order, and nothing is accepted or offered after the last;      *)
(* and a memory router feeds the adapter like any other source.            *)
(***************************************************************************)
EXTENDS RoutedAdapter, Integers, TLAPS

\* The quotient of two positive numbers is at least one when the dividend is the
\* larger.
LEMMA Quotient == ASSUME NEW a \in Nat \ {0}, NEW b \in Nat \ {0}, a <= b
                  PROVE  b \div a \in Nat \ {0}
  <1>1. b \div a \in Nat
      OBVIOUS
  <1>2. b = a * (b \div a) + (b % a) /\ b % a < a
      OBVIOUS
  <1>3. CASE b \div a = 0
    <2>1. a * (b \div a) = 0
        BY <1>3
    <2> QED BY <1>2, <2>1
  <1> QED BY <1>1, <1>3

\* What the constructor's checks give: positive widths and counts of beats.
LEMMA Parameters == ASSUME shape \in Shapes
                    PROVE  /\ T_in \in Nat \ {0} /\ T_out \in Nat \ {0}
                           /\ k \in Nat \ {0}
                           /\ num_in_beats \in Nat /\ num_out_beats \in Nat
  <1>1. N \in Nat \ {0} /\ T_in \in Nat \ {0} /\ T_out \in Nat \ {0}
      BY AdapterAssumption DEF N, T_in, T_out
  <1>2. k \in Nat \ {0}
    <2>1. CASE Widens
        BY <1>1, <2>1, Quotient DEF k, Widens
    <2>2. CASE ~Widens
        BY <1>1, <2>2, Quotient DEF k, Widens
    <2> QED BY <2>1, <2>2
  <1>3. num_in_beats \in Nat
      BY <1>1 DEF num_in_beats
  <1>4. num_out_beats \in Nat
      BY <1>1 DEF num_out_beats
  <1> QED BY <1>1, <1>2, <1>3, <1>4

\* What the neighbours do in a cycle takes no register out of its range.
LEMMA TypeStep == TypeOK /\ [Next]_vars => TypeOK'
  <1> SUFFICES ASSUME TypeOK, [Next]_vars PROVE TypeOK'
      OBVIOUS
  <1>1. CASE UNCHANGED vars
    <2>1. /\ k' = k /\ num_in_beats' = num_in_beats
          /\ num_out_beats' = num_out_beats
        BY <1>1 DEF vars, k, num_in_beats, num_out_beats, N, T_in, T_out, Widens
    <2> QED BY <1>1, <2>1 DEF vars, TypeOK
  <1>2. ASSUME NEW valid_in \in BOOLEAN, NEW ready_in \in BOOLEAN,
               Clock(valid_in, Beat(in_beat_count, T_in), ready_in)
        PROVE  TypeOK'
    <2> DEFINE input == valid_in /\ ready_out(ready_in)
               output == valid_out(valid_in) /\ ready_in
    <2>1. shape' = shape
        BY <1>2 DEF Clock
    <2>2. /\ k' = k /\ num_in_beats' = num_in_beats
          /\ num_out_beats' = num_out_beats
        BY <2>1 DEF k, num_in_beats, num_out_beats, N, T_in, T_out, Widens
    <2>3. k \in Nat \ {0} /\ num_in_beats \in Nat /\ num_out_beats \in Nat
        BY Parameters DEF TypeOK
    <2>4. in_beat_count' \in 0 .. num_in_beats
      <3>1. input => in_beat_count < num_in_beats
          BY DEF ready_out
      <3>2. in_beat_count' = IF input THEN in_beat_count + 1 ELSE in_beat_count
          BY <1>2 DEF Clock
      <3> QED BY <3>1, <3>2, <2>3 DEF TypeOK
    <2>5. out_beat_count' \in 0 .. num_out_beats
      <3>1. output => out_beat_count < num_out_beats
          BY DEF valid_out
      <3>2. out_beat_count' = IF output THEN out_beat_count + 1
                              ELSE out_beat_count
          BY <1>2 DEF Clock
      <3> QED BY <3>1, <3>2, <2>3 DEF TypeOK
    <2>6. slot_idx' \in 0 .. k - 1
      <3>1. slot_idx' = IF Widens THEN NextSlot(input) ELSE slot_idx
          BY <1>2 DEF Clock
      <3> QED BY <3>1, <2>3 DEF NextSlot, TypeOK
    <2>7. chunks_rem' \in 0 .. k
      <3>1. chunks_rem' = IF ~Narrows THEN chunks_rem
                          ELSE IF input THEN k
                          ELSE IF output THEN chunks_rem - 1 ELSE chunks_rem
          BY <1>2 DEF Clock
      <3>2. Narrows /\ output => chunks_rem > 0
          BY Parameters DEF valid_out, has_buffered, TypeOK, Narrows, Widens
      <3> QED BY <3>1, <3>2, <2>3 DEF TypeOK
    <2>8. out_sub_idx' \in 0 .. k - 1
      <3>1. out_sub_idx' = IF Narrows THEN NextChunk(input, output)
                           ELSE out_sub_idx
          BY <1>2 DEF Clock
      <3> QED BY <3>1, <2>3 DEF NextChunk, TypeOK
    <2> QED BY <2>1, <2>2, <2>4, <2>5, <2>6, <2>7, <2>8 DEF TypeOK
  <1> QED BY <1>1, <1>2 DEF Next

LEMMA InitTypeOK == Init => TypeOK
  <1> SUFFICES ASSUME Init PROVE TypeOK
      OBVIOUS
  <1>1. /\ k \in Nat \ {0} /\ num_in_beats \in Nat /\ num_out_beats \in Nat
      BY Parameters DEF Init
  <1> HIDE DEF k, num_in_beats, num_out_beats
  <1> QED BY <1>1 DEF Init, TypeOK

\* The beat counters stop at the tensor's size and the other three registers
\* at k, whatever the neighbours do in each cycle.
THEOREM TypeCorrect == Spec => []TypeOK
  BY InitTypeOK, TypeStep, PTL DEF Spec

-----------------------------------------------------------------------------
\* One width divides the other, as the adapters between powers of two do.
Even == \A s \in Shapes : s[2] % s[3] = 0 \/ s[3] % s[2] = 0

\* Then the wider beat is k of the narrower.
LEMMA Widths == ASSUME shape \in Shapes, Even
                PROVE  /\ Widens => T_out = k * T_in /\ k > 1
                       /\ Narrows => T_in = k * T_out /\ k > 1
  <1>1. /\ T_in \in Nat \ {0} /\ T_out \in Nat \ {0} /\ k \in Nat \ {0}
        /\ T_in % T_out = 0 \/ T_out % T_in = 0
      BY Parameters DEF Even, T_in, T_out
  <1>2. ASSUME NEW a \in Nat \ {0}, NEW b \in Nat \ {0}, a < b,
               a % b = 0 \/ b % a = 0
        PROVE  b = (b \div a) * a /\ b \div a > 1
    <2>1. a % b = a
        BY <1>2
    <2>2. b % a = 0
        BY <1>2, <2>1
    <2>3. b = a * (b \div a) + (b % a) /\ b \div a \in Nat
        BY <1>2
    <2>4. b \div a = 0 => a * (b \div a) = 0
        OBVIOUS
    <2>5. b \div a = 1 => a * (b \div a) = a
        OBVIOUS
    <2> QED BY <1>2, <2>2, <2>3, <2>4, <2>5
  <1>3. CASE Widens
      BY <1>1, <1>2, <1>3 DEF Widens, Narrows, k
  <1>4. CASE Narrows
      BY <1>1, <1>2, <1>4 DEF Widens, Narrows, k
  <1> QED BY <1>3, <1>4

\* The place in the tensor of a byte of a widened beat, by its slot and its
\* place in the slot.
LEMMA WideByte ==
    ASSUME NEW t \in Nat \ {0}, NEW n \in Nat \ {0}, NEW o \in Nat,
           NEW w \in Nat, w = n * t, NEW j \in 0 .. w - 1
    PROVE  /\ j \div t \in 0 .. n - 1 /\ j % t \in 0 .. t - 1
           /\ (o * n + (j \div t)) * t + (j % t) = o * w + j
  <1>1. j = t * (j \div t) + (j % t) /\ j \div t \in Nat /\ j % t \in 0 .. t - 1
      OBVIOUS
  <1> DEFINE q == j \div t
             r == j % t
  <1> HIDE DEF q, r
  <1>2. j = t * q + r /\ q \in Nat /\ r \in 0 .. t - 1 /\ j < w
      BY <1>1 DEF q, r
  <1>3. q < n
    <2>1. q >= n => t * q >= t * n
        BY <1>2
    <2>2. t * q < t * n
        BY <1>2
    <2> QED BY <1>2, <2>1, <2>2
  <1>4. (o * n + q) * t + r = o * w + (t * q + r)
      BY <1>2
  <1> QED BY <1>2, <1>3, <1>4 DEF q, r

\* The place of a byte of a chunk in the beat it is cut from, and in the tensor.
LEMMA NarrowByte ==
    ASSUME NEW t \in Nat \ {0}, NEW n \in Nat \ {0}, NEW i \in Nat,
           NEW c \in 0 .. n - 1, NEW j \in 0 .. t - 1
    PROVE  /\ c * t + j \in 0 .. n * t - 1
           /\ i * (n * t) + (c * t + j) = (i * n + c) * t + j
  <1>1. c * t <= (n - 1) * t
      OBVIOUS
  <1>2. (n - 1) * t = n * t - t
      OBVIOUS
  <1>3. c * t \in Nat /\ n * t \in Nat
      OBVIOUS
  <1> QED BY <1>1, <1>2, <1>3

\* Widening: the slots hold the beats of the output beat under way, in order.
Filled(c) == /\ c \in 0 .. k /\ in_beat_count = out_beat_count * k + c
             /\ slot_idx = IF c = k THEN 0 ELSE c
             /\ \A i \in 0 .. c - 1 :
                    slots[i] = Beat(out_beat_count * k + i, T_in)

Collecting == /\ slots = [i \in 0 .. k - 1 |-> slots[i]]
              /\ \E c \in 0 .. k : Filled(c)

\* Narrowing: the buffer holds the beat the chunk on offer is cut from.
Cutting == /\ slots = [i \in 0 .. 0 |-> slots[i]] /\ slot_idx = 0
           /\ IF chunks_rem = 0
              THEN out_sub_idx = 0 /\ out_beat_count = in_beat_count * k
              ELSE /\ in_beat_count > 0
                   /\ slots[0] = Beat(in_beat_count - 1, T_in)
                   /\ out_sub_idx = k - chunks_rem
                   /\ out_beat_count = (in_beat_count - 1) * k + out_sub_idx

InOrder == /\ Widens => Collecting
           /\ Narrows => Cutting
           /\ T_in = T_out => in_beat_count = out_beat_count

\* What the slots, the buffer or the input have on offer is the next beat.
LEMMA OfferInOrder == ASSUME TypeOK, InOrder, Even PROVE BytesInOrder
  <1>1. /\ T_in \in Nat \ {0} /\ T_out \in Nat \ {0} /\ k \in Nat \ {0}
        /\ in_beat_count \in Nat /\ out_beat_count \in Nat
      BY Parameters DEF TypeOK
  <1> SUFFICES ASSUME NEW valid_in \in BOOLEAN, valid_out(valid_in)
               PROVE  data_out(Beat(in_beat_count, T_in))
                          = Beat(out_beat_count, T_out)
      BY DEF BytesInOrder
  <1>2. CASE Widens
    <2>1. T_out = k * T_in
        BY <1>2, Widths DEF TypeOK
    <2>2. PICK c \in 0 .. k : Filled(c)
        BY <1>2 DEF InOrder, Collecting
    <2>3. c = k
      <3>1. in_beat_count >= (out_beat_count + 1) * k
          BY <1>2 DEF valid_out, buffer_full
      <3>2. (out_beat_count + 1) * k = out_beat_count * k + k
          BY <1>1
      <3>3. out_beat_count * k \in Nat
          BY <1>1
      <3> QED BY <1>1, <2>2, <3>1, <3>2, <3>3 DEF Filled
    <2>4. data_out(Beat(in_beat_count, T_in))
              = [j \in 0 .. T_out - 1 |->
                    IF j < k * T_in THEN slots[j \div T_in][j % T_in] ELSE Blank]
        BY <1>2 DEF data_out
    <2>5. ASSUME NEW j \in 0 .. T_out - 1
          PROVE  /\ j < k * T_in
                 /\ slots[j \div T_in][j % T_in] = out_beat_count * T_out + j
      <3>1. j \in 0 .. k * T_in - 1 /\ j < k * T_in
          BY <1>1, <2>1
      <3>2. /\ j \div T_in \in 0 .. k - 1 /\ j % T_in \in 0 .. T_in - 1
            /\ (out_beat_count * k + (j \div T_in)) * T_in + (j % T_in)
                   = out_beat_count * T_out + j
        <4>1. PICK t \in Nat \ {0}, n \in Nat \ {0}, o \in Nat, w \in Nat :
                  t = T_in /\ n = k /\ o = out_beat_count /\ w = T_out
            BY <1>1
        <4>2. w = n * t /\ j \in 0 .. w - 1
            BY <2>1, <4>1
        <4>3. /\ j \div t \in 0 .. n - 1 /\ j % t \in 0 .. t - 1
              /\ (o * n + (j \div t)) * t + (j % t) = o * w + j
            BY <4>2, WideByte
        <4> QED BY <4>1, <4>3
      <3>3. slots[j \div T_in] = Beat(out_beat_count * k + (j \div T_in), T_in)
          BY <2>2, <2>3, <3>2 DEF Filled
      <3> QED BY <2>1, <3>1, <3>2, <3>3 DEF Beat
    <2> QED BY <2>4, <2>5 DEF Beat
  <1>3. CASE Narrows
    <2>1. T_in = k * T_out /\ ~Widens
        BY <1>1, <1>3, Widths DEF TypeOK, Narrows, Widens
    <2>2. chunks_rem > 0
        BY <1>3, <2>1 DEF valid_out, has_buffered
    <2>3. /\ in_beat_count - 1 \in Nat /\ slots[0] = Beat(in_beat_count - 1, T_in)
          /\ out_sub_idx \in 0 .. k - 1
          /\ out_beat_count = (in_beat_count - 1) * k + out_sub_idx
        BY <1>1, <1>3, <2>2 DEF InOrder, Cutting, TypeOK
    <2>4. data_out(Beat(in_beat_count, T_in))
              = [j \in 0 .. T_out - 1 |-> slots[0][out_sub_idx * T_out + j]]
        BY <1>1, <1>3, <2>1, <2>3 DEF data_out
    <2>5. ASSUME NEW j \in 0 .. T_out - 1
          PROVE  slots[0][out_sub_idx * T_out + j] = out_beat_count * T_out + j
      <3>1. /\ out_sub_idx * T_out + j \in 0 .. k * T_out - 1
            /\ (in_beat_count - 1) * (k * T_out) + (out_sub_idx * T_out + j)
                   = ((in_beat_count - 1) * k + out_sub_idx) * T_out + j
          BY <1>1, <2>3, NarrowByte
      <3> QED BY <2>1, <2>3, <3>1 DEF Beat
    <2> QED BY <2>4, <2>5 DEF Beat
  <1>4. CASE ~Widens /\ ~Narrows
    <2>1. T_in = T_out
        BY <1>1, <1>4 DEF Widens, Narrows
    <2> QED BY <1>4, <2>1 DEF data_out, InOrder
  <1> QED BY <1>2, <1>3, <1>4

\* A cycle keeps the order, whichever of the two ports fire.
LEMMA ClockInOrder ==
    ASSUME TypeOK, InOrder, Even, NEW valid_in \in BOOLEAN, NEW ready_in \in BOOLEAN,
           Clock(valid_in, Beat(in_beat_count, T_in), ready_in)
    PROVE  InOrder'
  <1> DEFINE input == valid_in /\ ready_out(ready_in)
             output == valid_out(valid_in) /\ ready_in
             beat == Beat(in_beat_count, T_in)
  <1>1. /\ T_in \in Nat \ {0} /\ T_out \in Nat \ {0} /\ k \in Nat \ {0}
        /\ in_beat_count \in Nat /\ out_beat_count \in Nat
      BY Parameters DEF TypeOK
  <1>2. /\ in_beat_count' = IF input THEN in_beat_count + 1 ELSE in_beat_count
        /\ out_beat_count' = IF output THEN out_beat_count + 1 ELSE out_beat_count
        /\ slots' = IF input /\ T_in # T_out
                    THEN [slots EXCEPT ![slot_idx] = beat] ELSE slots
        /\ slot_idx' = IF Widens THEN NextSlot(input) ELSE slot_idx
        /\ chunks_rem' = IF ~Narrows THEN chunks_rem
                         ELSE IF input THEN k
                         ELSE IF output THEN chunks_rem - 1 ELSE chunks_rem
        /\ out_sub_idx' = IF Narrows THEN NextChunk(input, output) ELSE out_sub_idx
      BY DEF Clock
  <1>3. /\ shape' = shape /\ k' = k /\ T_in' = T_in /\ T_out' = T_out
        /\ Widens' = Widens /\ Narrows' = Narrows
      BY DEF Clock, k, T_in, T_out, Widens, Narrows
  <1> HIDE DEF beat
  <1>4. CASE Widens
    <2>1. T_in # T_out /\ ~Narrows /\ k > 1
        BY <1>1, <1>4, Widths DEF TypeOK, Widens, Narrows
    <2>2. PICK c \in 0 .. k : Filled(c)
        BY <1>4 DEF InOrder, Collecting
    <2>3. /\ in_beat_count = out_beat_count * k + c /\ c \in 0 .. k
          /\ out_beat_count * k \in Nat
          /\ (out_beat_count + 1) * k = out_beat_count * k + k
        BY <1>1, <2>2 DEF Filled
    <2>4. buffer_full <=> c = k
        BY <1>1, <2>3 DEF buffer_full
    <2>5. (input => c < k \/ output) /\ (output => c = k)
        BY <1>1, <1>4, <2>3, <2>4 DEF ready_out, Room, valid_out
    <2>6. slots' = [i \in 0 .. k - 1 |-> slots'[i]]
        BY <1>2, <1>4 DEF InOrder, Collecting
    <2>7. PICK rest \in 0 .. k :
              /\ output => rest = 0 /\ c = k
              /\ ~output => rest = c
              /\ input => rest < k
              /\ slot_idx = IF rest = k THEN 0 ELSE rest
              /\ in_beat_count = out_beat_count' * k + rest
      <3>1. CASE output
        <4>1. out_beat_count' * k = out_beat_count * k + k
            BY <1>2, <2>3, <3>1
        <4>2. c = k /\ slot_idx = 0
            BY <2>2, <2>5, <3>1 DEF Filled
        <4>3. in_beat_count = out_beat_count' * k + 0
            BY <1>1, <2>3, <4>1, <4>2
        <4>4. 0 \in 0 .. k /\ 0 < k
            BY <1>1
        <4> QED BY <3>1, <4>2, <4>3, <4>4
      <3>2. CASE ~output
        <4>1. out_beat_count' = out_beat_count
            BY <1>2, <3>2
        <4> QED BY <2>2, <2>5, <3>2, <4>1 DEF Filled
      <3> QED BY <3>1, <3>2
    <2>8. PICK next \in 0 .. k : next = IF input THEN rest + 1 ELSE rest
        BY <1>1, <2>7
    <2>9. in_beat_count' = out_beat_count' * k + next
      <3>1. out_beat_count' * k \in Nat
          BY <1>1, <1>2
      <3> QED BY <1>1, <1>2, <2>7, <2>8, <3>1
    <2>10. slot_idx' = IF next = k THEN 0 ELSE next
      <3>1. CASE input
        <4>1. slot_idx = rest /\ next = rest + 1
            BY <2>7, <2>8, <3>1
        <4>2. slot_idx' = IF slot_idx = k - 1 THEN 0 ELSE slot_idx + 1
            BY <1>2, <1>4, <3>1 DEF NextSlot
        <4> QED BY <1>1, <4>1, <4>2
      <3>2. CASE ~input
        <4>1. slot_idx' = slot_idx
            BY <1>2, <1>4, <3>2 DEF NextSlot
        <4> QED BY <2>7, <2>8, <3>2, <4>1
      <3> QED BY <3>1, <3>2
    <2>11. ASSUME NEW i \in 0 .. next - 1
           PROVE  slots'[i] = Beat(out_beat_count' * k + i, T_in)
      <3>1. CASE i = rest
        <4>1. input
            BY <2>8, <3>1
        <4>2. slot_idx = i /\ i \in 0 .. k - 1
            BY <1>1, <2>7, <3>1, <4>1
        <4>3. slots' = [slots EXCEPT ![slot_idx] = beat]
            BY <1>2, <2>1, <4>1
        <4>4. slots'[i] = beat
            BY <1>4, <4>2, <4>3 DEF InOrder, Collecting
        <4> QED BY <2>7, <3>1, <4>4 DEF beat
      <3>2. CASE i # rest
        <4>1. i \in 0 .. rest - 1
            BY <2>8, <3>2
        <4>2. ~output /\ rest = c
            BY <2>7, <4>1
        <4>3. input => slot_idx # i
            BY <2>7, <3>2
        <4>4. slots'[i] = slots[i]
            BY <1>2, <1>4, <2>1, <4>1, <4>3 DEF InOrder, Collecting
        <4>5. out_beat_count' = out_beat_count
            BY <1>2, <4>2
        <4> QED BY <2>2, <4>1, <4>2, <4>4, <4>5 DEF Filled
      <3> QED BY <3>1, <3>2
    <2>12. Collecting'
      <3>1. /\ next \in 0 .. k'
            /\ in_beat_count' = out_beat_count' * k' + next
            /\ slot_idx' = IF next = k' THEN 0 ELSE next
            /\ \A i \in 0 .. next - 1 :
                   slots'[i] = [j \in 0 .. T_in' - 1 |->
                                   (out_beat_count' * k' + i) * T_in' + j]
          BY <1>3, <2>9, <2>10, <2>11 DEF Beat
      <3>2. Filled(next)'
          BY <3>1 DEF Filled, Beat
      <3> QED BY <1>3, <2>6, <3>2 DEF Collecting
    <2> QED BY <1>3, <2>1, <2>12 DEF InOrder
  <1>5. CASE Narrows
    <2>1. T_in # T_out /\ ~Widens /\ k > 1
        BY <1>1, <1>5, Widths DEF TypeOK, Widens, Narrows
    <2>2. /\ slots = [i \in 0 .. 0 |-> slots[i]] /\ slot_idx = 0
          /\ chunks_rem \in 0 .. k /\ out_sub_idx \in 0 .. k - 1
        BY <1>5 DEF InOrder, Cutting, TypeOK
    <2>3. slots' = [i \in 0 .. 0 |-> slots'[i]] /\ slot_idx' = 0
        BY <1>2, <2>1, <2>2
    <2>4. output => chunks_rem > 0
        BY <1>5, <2>1 DEF valid_out, has_buffered
    <2>5. input => chunks_rem = 0 \/ (output /\ out_sub_idx = k - 1)
        BY <1>5, <2>1, <2>2 DEF ready_out, Room, valid_out, has_buffered
    <2>6. CASE input
      <3>1. chunks_rem' = k /\ out_sub_idx' = 0 /\ in_beat_count' = in_beat_count + 1
          BY <1>2, <1>5, <2>6 DEF NextChunk
      <3>2. slots'[0] = beat
          BY <1>2, <2>1, <2>2, <2>6
      <3>3. out_beat_count' = in_beat_count * k
        <4>1. CASE chunks_rem = 0
            BY <1>2, <1>5, <2>4, <4>1 DEF InOrder, Cutting
        <4>2. CASE chunks_rem > 0
          <5> HIDE DEF input, output
          <5>1. out_beat_count = (in_beat_count - 1) * k + (k - 1) /\ output
            <6>1. output /\ out_sub_idx = k - 1 /\ chunks_rem # 0
                BY <1>1, <2>2, <2>5, <2>6, <4>2
            <6> QED BY <1>5, <6>1 DEF InOrder, Cutting
          <5>2. (in_beat_count - 1) * k + k = in_beat_count * k
              BY <1>1
          <5>3. (in_beat_count - 1) * k \in Int
              BY <1>1
          <5>4. out_beat_count' = out_beat_count + 1
              BY <1>2, <5>1
          <5> QED BY <1>1, <5>1, <5>2, <5>3, <5>4
        <4> QED BY <2>2, <4>1, <4>2
      <3>4. in_beat_count' - 1 = in_beat_count /\ in_beat_count' > 0
          BY <1>1, <3>1
      <3>5. out_beat_count' = (in_beat_count' - 1) * k + out_sub_idx'
        <4>1. in_beat_count * k \in Nat
            BY <1>1
        <4> QED BY <3>1, <3>3, <3>4, <4>1
      <3>6. slots'[0] = Beat(in_beat_count' - 1, T_in)
          BY <3>2, <3>4 DEF beat
      <3>7. Cutting'
          BY <1>1, <1>3, <2>3, <3>1, <3>4, <3>5, <3>6 DEF Cutting
      <3> QED BY <1>3, <2>1, <3>7 DEF InOrder
    <2>7. CASE ~input /\ output
      <3>1. /\ chunks_rem' = chunks_rem - 1 /\ in_beat_count' = in_beat_count
            /\ out_beat_count' = out_beat_count + 1 /\ slots' = slots
            /\ out_sub_idx' = IF out_sub_idx = k - 1 THEN 0 ELSE out_sub_idx + 1
          BY <1>2, <1>5, <2>7 DEF NextChunk
      <3>2. /\ in_beat_count > 0 /\ slots[0] = Beat(in_beat_count - 1, T_in)
            /\ out_sub_idx = k - chunks_rem
            /\ out_beat_count = (in_beat_count - 1) * k + out_sub_idx
            /\ (in_beat_count - 1) * k \in Int
            /\ (in_beat_count - 1) * k + k = in_beat_count * k
          BY <1>1, <1>5, <2>4, <2>7 DEF InOrder, Cutting
      <3>3. CASE chunks_rem = 1
        <4>1. chunks_rem' = 0 /\ out_sub_idx' = 0 /\ out_beat_count' = in_beat_count' * k
            BY <1>1, <3>1, <3>2, <3>3
        <4>2. Cutting'
            BY <1>3, <2>3, <4>1 DEF Cutting
        <4> QED BY <1>3, <2>1, <4>2 DEF InOrder
      <3>4. CASE chunks_rem # 1
        <4>1. /\ chunks_rem' # 0 /\ out_sub_idx' = k - chunks_rem'
              /\ out_beat_count' = (in_beat_count' - 1) * k + out_sub_idx'
            BY <1>1, <2>2, <3>1, <3>2, <3>4
        <4>2. Cutting'
            BY <1>3, <2>3, <3>1, <3>2, <4>1 DEF Cutting
        <4> QED BY <1>3, <2>1, <4>2 DEF InOrder
      <3> QED BY <3>3, <3>4
    <2>8. CASE ~input /\ ~output
      <3>1. /\ chunks_rem' = chunks_rem /\ in_beat_count' = in_beat_count
            /\ out_beat_count' = out_beat_count /\ slots' = slots
            /\ out_sub_idx' = out_sub_idx
          BY <1>2, <1>5, <2>8 DEF NextChunk
      <3>2. Cutting'
          BY <1>3, <1>5, <2>3, <3>1 DEF InOrder, Cutting
      <3> QED BY <1>3, <2>1, <3>2 DEF InOrder
    <2> QED BY <2>6, <2>7, <2>8
  <1>6. CASE T_in = T_out
    <2>1. ~Widens /\ ~Narrows /\ num_in_beats = num_out_beats
        BY <1>1, <1>6 DEF Widens, Narrows, num_in_beats, num_out_beats
    <2>2. in_beat_count = out_beat_count
        BY <1>6 DEF InOrder
    <2>3. input <=> output
        BY <2>1, <2>2 DEF ready_out, valid_out, Room
    <2> QED BY <1>2, <1>3, <2>1, <2>2, <2>3 DEF InOrder
  <1> QED BY <1>1, <1>4, <1>5, <1>6 DEF Widens, Narrows

\* The order is kept from the first cycle on.
LEMMA OrderKept == ASSUME Even PROVE Spec => []InOrder
  <1>1. Init => InOrder
    <2> SUFFICES ASSUME Init PROVE InOrder
        OBVIOUS
    <2>1. T_in \in Nat \ {0} /\ T_out \in Nat \ {0} /\ k \in Nat \ {0}
        BY Parameters DEF Init
    <2>2. Widens => Collecting
      <3>1. ASSUME Widens PROVE slots = [i \in 0 .. k - 1 |-> slots[i]]
          BY <3>1 DEF Init
      <3>2. 0 \in 0 .. k /\ Filled(0)
          BY <2>1 DEF Init, Filled
      <3> QED BY <3>1, <3>2 DEF Collecting
    <2>3. Narrows => Cutting
      <3>1. ASSUME Narrows PROVE slots = [i \in 0 .. 0 |-> slots[i]]
        <4>1. ~Widens
            BY <2>1, <3>1 DEF Narrows, Widens
        <4> QED BY <4>1 DEF Init
      <3>2. 0 * k = 0
          BY <2>1
      <3> QED BY <3>1, <3>2 DEF Cutting, Init
    <2> QED BY <2>2, <2>3 DEF InOrder, Init
  <1>2. TypeOK /\ InOrder /\ [Next]_vars => InOrder'
    <2> SUFFICES ASSUME TypeOK, InOrder, [Next]_vars PROVE InOrder'
        OBVIOUS
    <2>1. CASE Next
        BY <2>1, ClockInOrder DEF Next
    <2>2. CASE UNCHANGED vars
        BY <2>2 DEF vars, InOrder, Collecting, Cutting, Filled, k, T_in, T_out,
                    Widens, Narrows
    <2> QED BY <2>1, <2>2
  <1> QED BY <1>1, <1>2, TypeCorrect, PTL DEF Spec

\* Every beat on offer carries the bytes that are next in the tensor, for any
\* tensor and any two widths of which one divides the other.
THEOREM OrderCorrect == ASSUME Even PROVE Spec => []BytesInOrder
  <1>1. TypeOK /\ InOrder => BytesInOrder
      BY OfferInOrder
  <1> QED BY <1>1, OrderKept, TypeCorrect, PTL

-----------------------------------------------------------------------------
\* The tensor has k times as many narrow beats as wide ones.
LEMMA Counts == ASSUME shape \in Shapes, Even
                PROVE  /\ Widens => num_in_beats = num_out_beats * k
                       /\ Narrows => num_out_beats = num_in_beats * k
                       /\ T_in = T_out => num_in_beats = num_out_beats
  <1>1. /\ T_in \in Nat \ {0} /\ T_out \in Nat \ {0} /\ k \in Nat \ {0}
        /\ num_in_beats \in Nat /\ num_out_beats \in Nat
      BY Parameters
  <1>2. N = T_in * num_in_beats /\ N = T_out * num_out_beats
    <2>1. N \in Nat /\ N % T_in = 0 /\ N % T_out = 0
        BY AdapterAssumption DEF N, T_in, T_out
    <2>2. N = T_in * (N \div T_in) + (N % T_in) /\ N = T_out * (N \div T_out) + (N % T_out)
        BY <1>1, <2>1
    <2> QED BY <1>1, <2>1, <2>2 DEF num_in_beats, num_out_beats
  <1>3. ASSUME NEW a \in Nat \ {0}, NEW x \in Nat, NEW y \in Nat, a * x = a * y
        PROVE  x = y
    <2>1. x < y => a * x < a * y
        BY <1>3
    <2>2. y < x => a * y < a * x
        BY <1>3
    <2> QED BY <1>3, <2>1, <2>2
  <1>4. CASE Widens
    <2>1. (k * T_in) * num_out_beats = T_in * (num_out_beats * k)
        BY <1>1
    <2>2. T_in * num_in_beats = T_in * (num_out_beats * k) /\ num_out_beats * k \in Nat
        BY <1>1, <1>2, <1>4, <2>1, Widths
    <2> QED BY <1>1, <1>3, <1>4, <2>2 DEF Widens, Narrows
  <1>5. CASE Narrows
    <2>1. (k * T_out) * num_in_beats = T_out * (num_in_beats * k)
        BY <1>1
    <2>2. T_out * num_out_beats = T_out * (num_in_beats * k) /\ num_in_beats * k \in Nat
        BY <1>1, <1>2, <1>5, <2>1, Widths
    <2> QED BY <1>1, <1>3, <1>5, <2>2 DEF Widens, Narrows
  <1>6. CASE T_in = T_out
      BY <1>1, <1>6 DEF Widens, Narrows, num_in_beats, num_out_beats
  <1> QED BY <1>1, <1>4, <1>5, <1>6 DEF Widens, Narrows

\* When the last output beat has been taken no input beat is missing.
LEMMA AllAccepted ==
    ASSUME TypeOK, InOrder, Even, out_beat_count = num_out_beats
    PROVE  in_beat_count = num_in_beats
  <1>1. /\ T_in \in Nat \ {0} /\ T_out \in Nat \ {0} /\ k \in Nat \ {0}
        /\ in_beat_count \in 0 .. num_in_beats /\ num_in_beats \in Nat
        /\ in_beat_count \in Nat /\ num_out_beats \in Nat
      BY Parameters DEF TypeOK
  <1>2. CASE Widens
    <2>1. PICK c \in 0 .. k : in_beat_count = out_beat_count * k + c
        BY <1>2 DEF InOrder, Collecting, Filled
    <2>2. num_in_beats = out_beat_count * k
        BY <1>2, Counts DEF TypeOK
    <2> QED BY <1>1, <2>1, <2>2
  <1>3. CASE Narrows
    <2>1. num_out_beats = num_in_beats * k
        BY <1>3, Counts DEF TypeOK
    <2>2. CASE chunks_rem = 0
      <3>1. out_beat_count = in_beat_count * k
          BY <1>3, <2>2 DEF InOrder, Cutting
      <3>2. in_beat_count < num_in_beats => in_beat_count * k < num_in_beats * k
          BY <1>1
      <3> QED BY <1>1, <2>1, <3>1, <3>2
    <2>3. CASE chunks_rem # 0
      <3>1. /\ out_beat_count = (in_beat_count - 1) * k + out_sub_idx
            /\ out_sub_idx \in 0 .. k - 1
          BY <1>3, <2>3 DEF InOrder, Cutting, TypeOK
      <3>2. (in_beat_count - 1) * k = in_beat_count * k - k
          BY <1>1
      <3>3. in_beat_count * k <= num_in_beats * k /\ in_beat_count * k \in Nat
          BY <1>1
      <3> QED BY <1>1, <2>1, <3>1, <3>2, <3>3
    <2> QED BY <2>2, <2>3
  <1>4. CASE T_in = T_out
      BY <1>4, Counts DEF InOrder, TypeOK
  <1> QED BY <1>1, <1>2, <1>3, <1>4 DEF Widens, Narrows

\* After one tensor the adapter stands still until it is reset, whatever its
\* neighbours do.
THEOREM OneTensorCorrect == ASSUME Even PROVE Spec => OneTensor
  <1>1. TypeOK /\ InOrder /\ [Next]_vars =>
            (out_beat_count = num_out_beats => UNCHANGED vars)
    <2> SUFFICES ASSUME TypeOK, InOrder, Next, out_beat_count = num_out_beats
                 PROVE  UNCHANGED vars
        OBVIOUS
    <2>1. PICK valid_in \in BOOLEAN, ready_in \in BOOLEAN :
              Clock(valid_in, Beat(in_beat_count, T_in), ready_in)
        BY DEF Next
    <2>2. in_beat_count = num_in_beats /\ num_in_beats \in Nat /\ num_out_beats \in Nat
        BY AllAccepted, Parameters DEF TypeOK
    <2>3. ~ready_out(ready_in) /\ ~valid_out(valid_in)
        BY <2>2 DEF ready_out, valid_out
    <2> QED BY <2>1, <2>3 DEF Clock, NextSlot, NextChunk, vars
  <1> QED BY <1>1, OrderKept, TypeCorrect, PTL DEF Spec, OneTensor

-----------------------------------------------------------------------------
\* Division by a positive number has one quotient and one remainder.
LEMMA Divide ==
    ASSUME NEW n \in Nat \ {0}, NEW q \in Nat, NEW r \in 0 .. n - 1
    PROVE  (q * n + r) \div n = q /\ (q * n + r) % n = r
  <1> DEFINE x == q * n + r
             d == x \div n
  <1>1. q * n \in Nat
      OBVIOUS
  <1>2. x \in Nat
      BY <1>1
  <1>3. d \in Int /\ x % n \in 0 .. n - 1 /\ x = n * d + (x % n)
      BY <1>2
  <1>4. q - d = 0
    <2> DEFINE e == q - d
    <2>1. n * e = (x % n) - r
        BY <1>3
    <2>2. e \in Int /\ n * e < n /\ n * e > -n
        BY <1>3, <2>1
    <2> HIDE DEF e
    <2>3. e >= 1 => n * e >= n
        BY <2>2
    <2>4. e <= -1 => n * e <= -n
        BY <2>2
    <2> QED BY <2>2, <2>3, <2>4
  <1>5. d = q
      BY <1>3, <1>4
  <1>6. x % n = r
      BY <1>1, <1>3, <1>5
  <1> QED BY <1>5, <1>6

\* Every number is reached that way.
LEMMA DivMod ==
    ASSUME NEW n \in Nat \ {0}, NEW x \in Nat
    PROVE  \E q \in Nat, r \in 0 .. n - 1 : x = q * n + r /\ x % n = r
  <1>1. x \div n \in Nat /\ x % n \in 0 .. n - 1 /\ x = (x \div n) * n + (x % n)
      OBVIOUS
  <1> QED BY <1>1

\* An address counted on from one that has wrapped wraps to the same word.
LEMMA WrapOn ==
    ASSUME NEW n \in Nat \ {0}, NEW x \in Nat, NEW y \in Nat
    PROVE  ((x % n) + y) % n = (x + y) % n
  <1>1. PICK q \in Nat, r \in 0 .. n - 1 : x = q * n + r /\ x % n = r
      BY DivMod
  <1>2. PICK d \in Nat, s \in 0 .. n - 1 : r + y = d * n + s /\ (r + y) % n = s
    <2>1. r + y \in Nat
        OBVIOUS
    <2> QED BY <2>1, DivMod
  <1>3. x + y = (q + d) * n + s
      BY <1>1, <1>2
  <1>4. ((q + d) * n + s) % n = s
      BY Divide
  <1> QED BY <1>1, <1>2, <1>3, <1>4

\* Two words less than the memory's size apart are not the same word.
LEMMA WrapApart ==
    ASSUME NEW n \in Nat \ {0}, NEW x \in Nat, NEW a \in 0 .. n - 1,
           NEW b \in 0 .. n - 1, (x + a) % n = (x + b) % n
    PROVE  a = b
  <1>1. PICK q \in Nat, r \in 0 .. n - 1 : x + a = q * n + r /\ (x + a) % n = r
    <2>1. x + a \in Nat
        OBVIOUS
    <2> QED BY <2>1, DivMod
  <1>2. PICK d \in Nat, s \in 0 .. n - 1 : x + b = d * n + s /\ (x + b) % n = s
    <2>1. x + b \in Nat
        OBVIOUS
    <2> QED BY <2>1, DivMod
  <1>3. a - b = (q - d) * n
      BY <1>1, <1>2
  <1>4. q - d = 0
    <2> DEFINE e == q - d
    <2>1. e \in Int /\ e * n < n /\ e * n > -n
        BY <1>3
    <2> HIDE DEF e
    <2>2. e >= 1 => e * n >= n
        BY <2>1
    <2>3. e <= -1 => e * n <= -n
        BY <2>1
    <2>4. e = 0
        BY <2>1, <2>2, <2>3
    <2> QED BY <2>4 DEF e
  <1> QED BY <1>3, <1>4

\* The tensor is a whole number of beats, and the memory has room for it.
LEMMA WholeBeats == ASSUME shape \in Shapes
                    PROVE  /\ T_in \in Nat \ {0} /\ num_in_beats \in Nat \ {0}
                           /\ N \in Nat /\ N = num_in_beats * T_in /\ N <= Words
  <1>1. N \in Nat \ {0} /\ T_in \in Nat \ {0} /\ N % T_in = 0
      BY AdapterAssumption DEF N, T_in
  <1>2. N = T_in * (N \div T_in) + (N % T_in) /\ N \div T_in \in Nat
      BY <1>1
  <1>3. N = num_in_beats * T_in /\ num_in_beats \in Nat
      BY <1>1, <1>2 DEF num_in_beats
  <1>4. num_in_beats = 0 => num_in_beats * T_in = 0
      BY <1>1
  <1>5. N <= Words
      BY RouterAssumption DEF N
  <1> QED BY <1>1, <1>3, <1>4, <1>5

\* The address of byte j of beat b.
LEMMA AddressOf ==
    ASSUME shape \in Shapes, NEW p \in Patterns, NEW b \in Nat, NEW j \in 0 .. T_in - 1
    PROVE  Address(p, b * T_in + j) = (p.base_addr + b * p.beat_stride + j * p.stride) % Words
  <1>1. (b * T_in + j) \div T_in = b /\ (b * T_in + j) % T_in = j
      BY WholeBeats, Divide
  <1> QED BY <1>1 DEF Address

\* What the two patterns are.
LEMMA PatternType ==
    ASSUME shape \in Shapes, NEW p \in Patterns
    PROVE  /\ p.base_addr \in 0 .. Words - 1
           /\ \/ p.stride = 1 /\ p.beat_stride = T_in
              \/ p.stride = num_in_beats /\ p.beat_stride = 1
           /\ p.stride \in Nat /\ p.beat_stride \in Nat
  BY WholeBeats, RouterAssumption DEF Patterns

\* Row by row or transposed, no two bytes of the tensor share a word.
LEMMA AddressesApart ==
    ASSUME shape \in Shapes, NEW p \in Patterns, NEW i \in 0 .. N - 1, NEW j \in 0 .. N - 1,
           Address(p, i) = Address(p, j)
    PROVE  i = j
  <1> DEFINE M == num_in_beats
             T == T_in
             Offset(q, r) == q * p.beat_stride + r * p.stride
  <1>1. /\ T \in Nat \ {0} /\ M \in Nat \ {0} /\ N \in Nat /\ N = M * T /\ N <= Words
        /\ Words \in Nat \ {0}
      BY WholeBeats, RouterAssumption
  <1>2. ASSUME NEW x \in 0 .. N - 1
        PROVE  \E q \in 0 .. M - 1, r \in 0 .. T - 1 :
                   x = q * T + r /\ Address(p, x) = (p.base_addr + Offset(q, r)) % Words
    <2> DEFINE q == x \div T
               r == x % T
    <2>1. q \in Nat /\ r \in 0 .. T - 1 /\ x = q * T + r
        BY <1>1
    <2> HIDE DEF q, r, M, T
    <2>2. q < M
      <3>1. q >= M => q * T >= M * T
          BY <1>1, <2>1
      <3>2. q * T \in Nat
          BY <1>1, <2>1
      <3> QED BY <1>1, <2>1, <3>1, <3>2
    <2>3. Address(p, q * T + r) = (p.base_addr + q * p.beat_stride + r * p.stride) % Words
        BY <2>1, AddressOf DEF T
    <2>4. p.base_addr + q * p.beat_stride + r * p.stride = p.base_addr + Offset(q, r)
      <3>1. q * p.beat_stride \in Nat /\ r * p.stride \in Nat /\ p.base_addr \in Nat
          BY <2>1, <1>1, PatternType
      <3> QED BY <3>1
    <2> QED BY <1>1, <2>1, <2>2, <2>3, <2>4
  <1>3. PICK q \in 0 .. M - 1, r \in 0 .. T - 1 :
            i = q * T + r /\ Address(p, i) = (p.base_addr + Offset(q, r)) % Words
      BY <1>2
  <1>4. PICK d \in 0 .. M - 1, s \in 0 .. T - 1 :
            j = d * T + s /\ Address(p, j) = (p.base_addr + Offset(d, s)) % Words
      BY <1>2
  <1>5. p.base_addr \in Nat
      BY PatternType, <1>1
  <1>6. CASE p.stride = 1 /\ p.beat_stride = T
    <2>1. Offset(q, r) = i /\ Offset(d, s) = j
        BY <1>1, <1>3, <1>4, <1>6
    <2>2. i \in 0 .. Words - 1 /\ j \in 0 .. Words - 1
        BY <1>1
    <2> HIDE DEF Offset
    <2> QED BY <1>1, <1>3, <1>4, <1>5, <2>1, <2>2, WrapApart
  <1>7. CASE p.stride = M /\ p.beat_stride = 1
    <2> HIDE DEF M, T
    <2>1. Offset(q, r) = r * M + q /\ Offset(d, s) = s * M + d
        BY <1>1, <1>3, <1>4, <1>7
    <2>2. ASSUME NEW x \in 0 .. T - 1, NEW y \in 0 .. M - 1
          PROVE  x * M + y \in 0 .. Words - 1
      <3>1. x * M <= (T - 1) * M /\ (T - 1) * M = M * T - M /\ x * M \in Nat
          BY <1>1
      <3>2. M * T \in Nat
          BY <1>1
      <3> QED BY <1>1, <3>1, <3>2
    <2>3. r * M + q = s * M + d
      <3>1. PICK x \in 0 .. Words - 1, y \in 0 .. Words - 1 :
                x = r * M + q /\ y = s * M + d
          BY <2>2
      <3>2. (p.base_addr + x) % Words = (p.base_addr + y) % Words
          BY <1>3, <1>4, <2>1, <3>1
      <3>3. x = y
          BY <1>1, <1>5, <3>2, WrapApart
      <3> QED BY <3>1, <3>3
    <2>4. r \in Nat /\ s \in Nat
        BY <1>1
    <2>5. r = s /\ q = d
        BY <1>1, <2>3, <2>4, Divide
    <2> QED BY <1>3, <1>4, <2>5
  <1> QED BY <1>6, <1>7, PatternType

\* So the byte fetched from the address of a position is that position.
LEMMA FetchedByte ==
    ASSUME shape \in Shapes, NEW p \in Patterns, NEW i \in 0 .. N - 1
    PROVE  Laid(p)[Address(p, i)] = i
  <1>1. Address(p, i) \in 0 .. Words - 1
    <2>1. i \in Nat /\ T_in \in Nat \ {0} /\ Words \in Nat \ {0}
        BY WholeBeats, RouterAssumption
    <2>2. i \div T_in \in Nat /\ i % T_in \in Nat
        BY <2>1
    <2>3. /\ (i \div T_in) * p.beat_stride \in Nat /\ (i % T_in) * p.stride \in Nat
          /\ p.base_addr \in Nat
        BY <2>1, <2>2, PatternType
    <2> QED BY <2>1, <2>3 DEF Address
  <1>2. {x \in 0 .. N - 1 : Address(p, x) = Address(p, i)} = {i}
      BY AddressesApart
  <1> QED BY <1>1, <1>2 DEF Laid

\* The router between cycles.  It collects the beat its count says, one byte after
\* the other; the adapter has accepted the beats before, or the whole tensor.
Collected(p) ==
    /\ config = [T_out |-> T_in, num_beats |-> num_in_beats, bram |-> Laid(p),
                 base_addr |-> p.base_addr, stride |-> p.stride,
                 beat_stride |-> p.beat_stride]
    /\ state \in {"IDLE", "READ", "OUTPUT", "DONE"}
    /\ byte_regs = [i \in 0 .. T_in - 1 |-> byte_regs[i]]
    /\ state = "IDLE" => in_beat_count = 0
    /\ state = "DONE" => in_beat_count = num_in_beats
    /\ state \in {"READ", "OUTPUT"} =>
           /\ beat_count \in 0 .. num_in_beats - 1
           /\ in_beat_count \in {beat_count, num_in_beats}
           /\ \A i \in 0 .. read_idx - 1 : byte_regs[i] = beat_count * T_in + i
    /\ state = "READ" => /\ read_idx \in 0 .. T_in - 1
                         /\ current_addr = Address(p, beat_count * T_in + read_idx)
    /\ state = "OUTPUT" => read_idx = T_in
Routed == source = "router" => \E p \in Patterns : Collected(p)

\* The beat on offer is the one counted.
LEMMA OfferedBeat ==
    ASSUME Routed, source = "router", R!valid_out
    PROVE  R!data_out = Beat(beat_count, T_in)
  BY DEF Routed, Collected, R!valid_out, R!data_out, Beat

\* So the adapter sees the source it was built for.
LEMMA RoutedIsSource == TypeOK /\ Routed /\ [RoutedNext]_allvars => [Next]_vars
  <1> SUFFICES ASSUME TypeOK, Routed, RoutedNext PROVE [Next]_vars
      BY DEF allvars
  <1>1. CASE FromAnySource
      BY <1>1 DEF FromAnySource
  <1>2. ASSUME NEW start \in BOOLEAN, NEW ready_in \in BOOLEAN, Cycle(start, ready_in)
        PROVE  Next
    <2>1. /\ source = "router" /\ R!valid_out \in BOOLEAN
          /\ Clock(R!valid_out, R!data_out, ready_in)
        BY <1>2 DEF Cycle, R!valid_out
    <2>2. R!valid_out /\ ready_out(ready_in) => R!data_out = Beat(in_beat_count, T_in)
      <3>1. R!valid_out /\ in_beat_count < num_in_beats => in_beat_count = beat_count
          BY <2>1, Parameters DEF Routed, Collected, R!valid_out, TypeOK
      <3> QED BY <2>1, <3>1, OfferedBeat DEF ready_out
    <2>3. Clock(R!valid_out, Beat(in_beat_count, T_in), ready_in)
        BY <2>1, <2>2 DEF Clock
    <2> QED BY <2>1, <2>3 DEF Next
  <1> QED BY <1>1, <1>2 DEF RoutedNext

\* A cycle of the router.
LEMMA CollectedStep ==
    ASSUME TypeOK, NEW p \in Patterns, Collected(p), NEW start \in BOOLEAN,
           NEW ready_in \in BOOLEAN, Cycle(start, ready_in)
    PROVE  Collected(p)'
  <1> DEFINE M == num_in_beats
             T == T_in
  <1>1. /\ T \in Nat \ {0} /\ M \in Nat \ {0} /\ N \in Nat /\ N = M * T
        /\ Words \in Nat \ {0} /\ p.base_addr \in 0 .. Words - 1
        /\ p.stride \in Nat /\ p.beat_stride \in Nat
      BY WholeBeats, PatternType, RouterAssumption DEF TypeOK
  <1>2. /\ shape' = shape /\ T_in' = T /\ num_in_beats' = M /\ config' = config
        /\ in_beat_count \in 0 .. M
        /\ in_beat_count' = IF R!valid_out /\ ready_out(ready_in)
                            THEN in_beat_count + 1 ELSE in_beat_count
      BY DEF Cycle, Clock, R!Clock, T_in, num_in_beats, N, TypeOK
  <1>3. Laid(p)' = Laid(p) /\ \A i : Address(p, i)' = Address(p, i)
      BY <1>2 DEF Laid, Address, N, T_in
  <1>4. R!StartOrRest(start) \/ R!Fetch \/ R!Offer(ready_out(ready_in))
      BY DEF Cycle, R!Clock
  <1>5. byte_regs = [i \in 0 .. T - 1 |-> byte_regs[i]] /\ DOMAIN byte_regs = 0 .. T - 1
      BY DEF Collected
  <1>6. ready_out(ready_in) => in_beat_count < M
      BY DEF ready_out
  <1>7. config = [T_out |-> T, num_beats |-> M, bram |-> Laid(p),
                  base_addr |-> p.base_addr, stride |-> p.stride,
                  beat_stride |-> p.beat_stride]
      BY DEF Collected
  <1>8. ASSUME NEW b \in Nat
        PROVE  Address(p, b * T + 0) = (p.base_addr + b * p.beat_stride) % Words
    <2>1. 0 \in 0 .. T - 1 /\ b * p.beat_stride \in Nat
        BY <1>1
    <2>2. Address(p, b * T + 0)
            = (p.base_addr + b * p.beat_stride + 0 * p.stride) % Words
        BY <2>1, AddressOf DEF TypeOK
    <2>3. p.base_addr + b * p.beat_stride + 0 * p.stride
            = p.base_addr + b * p.beat_stride
        BY <1>1, <2>1
    <2> QED BY <2>2, <2>3
  <1> HIDE DEF M, T
  <1>9. CASE R!StartOrRest(start)
    <2>1. CASE ~start
        BY <1>2, <1>3, <1>5, <1>9, <2>1
           DEF R!StartOrRest, R!valid_out, Collected, M, T
    <2>2. CASE start
      <3>1. /\ state' = "READ" /\ current_addr' = p.base_addr /\ read_idx' = 0
            /\ beat_count' = 0 /\ byte_regs' = byte_regs /\ state \in {"IDLE", "DONE"}
          BY <1>1, <1>7, <1>9, <2>2 DEF R!StartOrRest
      <3>2. Address(p, 0 * T + 0) = p.base_addr
        <4>1. Address(p, 0 * T + 0) = (p.base_addr + 0 * p.beat_stride) % Words
            BY <1>8
        <4>2. 0 * p.beat_stride = 0 /\ p.base_addr % Words = p.base_addr
            BY <1>1
        <4> QED BY <1>1, <4>1, <4>2
      <3>3. in_beat_count' = in_beat_count /\ in_beat_count \in {0, M}
          BY <1>2, <3>1 DEF R!valid_out, Collected, M
      <3>4. current_addr' = Address(p, beat_count' * T + read_idx')
          BY <3>1, <3>2
      <3> QED BY <1>1, <1>2, <1>3, <1>5, <1>7, <3>1, <3>3, <3>4 DEF Collected, M, T
    <2> QED BY <2>1, <2>2
  <1>10. CASE R!Fetch
    <2>0. state = "READ" /\ state # "IDLE" /\ state # "OUTPUT" /\ state # "DONE"
        BY <1>10 DEF R!Fetch
    <2>1. /\ state = "READ" /\ beat_count \in 0 .. M - 1 /\ read_idx \in 0 .. T - 1
          /\ beat_count \in Nat /\ read_idx \in Nat
          /\ current_addr = Address(p, beat_count * T + read_idx)
          /\ \A i \in 0 .. read_idx - 1 : byte_regs[i] = beat_count * T + i
          /\ in_beat_count \in {beat_count, M}
      <3>1. beat_count \in 0 .. M - 1 /\ read_idx \in 0 .. T - 1
          BY <2>0 DEF Collected, M, T
      <3>2. beat_count \in Nat /\ read_idx \in Nat
          BY <3>1
      <3> QED BY <2>0, <3>1, <3>2 DEF Collected, M, T
    <2>2. /\ byte_regs' = [i \in 0 .. T - 1 |->
                              IF i = read_idx THEN Laid(p)[current_addr]
                              ELSE byte_regs[i]]
          /\ current_addr' = (current_addr + p.stride) % Words
          /\ read_idx' = read_idx + 1 /\ beat_count' = beat_count
          /\ state' = IF read_idx = T - 1 THEN "OUTPUT" ELSE state
        BY <1>5, <1>7, <1>10 DEF R!Fetch
    <2>3. beat_count * T + read_idx \in 0 .. N - 1
      <3>1. beat_count * T <= (M - 1) * T /\ (M - 1) * T = M * T - T
            /\ beat_count * T \in Nat /\ M * T \in Nat
          BY <1>1, <2>1
      <3> QED BY <1>1, <2>1, <3>1
    <2>4. Laid(p)[current_addr] = beat_count * T + read_idx
        BY <2>1, <2>3, FetchedByte DEF TypeOK
    <2>5. \A i \in 0 .. read_idx' - 1 : byte_regs'[i] = beat_count * T + i
        BY <1>1, <2>1, <2>2, <2>4
    <2>6. byte_regs' = [i \in 0 .. T - 1 |-> byte_regs'[i]]
        BY <2>2
    <2>7. read_idx + 1 < T => current_addr' = Address(p, beat_count * T + (read_idx + 1))
      <3>1. SUFFICES ASSUME read_idx + 1 < T
                     PROVE  current_addr' = Address(p, beat_count * T + (read_idx + 1))
          OBVIOUS
      <3>2. read_idx \in 0 .. T_in - 1 /\ read_idx + 1 \in 0 .. T_in - 1
          BY <1>1, <2>1, <3>1 DEF T
      <3>3. PICK b \in Nat : b = p.base_addr + beat_count * p.beat_stride
        <4>1. beat_count * p.beat_stride \in Nat
            BY <1>1, <2>1
        <4> QED BY <1>1, <4>1
      <3>4. current_addr = (b + read_idx * p.stride) % Words
          BY <2>1, <3>2, <3>3, AddressOf DEF T, TypeOK
      <3>5. Address(p, beat_count * T + (read_idx + 1))
              = (b + (read_idx + 1) * p.stride) % Words
          BY <2>1, <3>2, <3>3, AddressOf DEF T, TypeOK
      <3>6. PICK x \in Nat : /\ x = b + read_idx * p.stride
                             /\ x + p.stride = b + (read_idx + 1) * p.stride
        <4>1. read_idx * p.stride \in Nat
              /\ (read_idx + 1) * p.stride = read_idx * p.stride + p.stride
            BY <1>1, <2>1
        <4> QED BY <1>1, <4>1
      <3>7. ((x % Words) + p.stride) % Words = (x + p.stride) % Words
          BY <1>1, WrapOn
      <3> QED BY <2>2, <3>4, <3>5, <3>6, <3>7
    <2>8. in_beat_count' = in_beat_count
        BY <1>2, <2>1 DEF R!valid_out
    <2>9. CASE read_idx = T - 1
      <3>1. state' = "OUTPUT" /\ read_idx' = T
          BY <1>1, <2>1, <2>2, <2>9
      <3> QED BY <1>2, <1>3, <1>7, <2>1, <2>2, <2>5, <2>6, <2>8, <3>1 DEF Collected, M, T
    <2>10. CASE read_idx # T - 1
      <3>1. state' = "READ" /\ read_idx' \in 0 .. T - 1 /\ read_idx + 1 < T
          BY <1>1, <2>1, <2>2, <2>10
      <3>2. current_addr' = Address(p, beat_count' * T + read_idx')
          BY <2>2, <2>7, <3>1
      <3> QED BY <1>2, <1>3, <1>7, <2>1, <2>2, <2>5, <2>6, <2>8, <3>1, <3>2
              DEF Collected, M, T
    <2> QED BY <2>9, <2>10
  <1>11. CASE R!Offer(ready_out(ready_in))
    <2>1. /\ state = "OUTPUT" /\ R!valid_out /\ beat_count \in 0 .. M - 1
          /\ beat_count \in Nat
          /\ in_beat_count \in {beat_count, M} /\ byte_regs' = byte_regs
        BY <1>1, <1>11 DEF R!Offer, R!valid_out, Collected, M
    <2>2. CASE ~ready_out(ready_in)
        BY <1>2, <1>3, <1>11, <2>1, <2>2 DEF R!Offer, Collected, M, T
    <2>3. CASE ready_out(ready_in)
      <3>1. in_beat_count = beat_count /\ in_beat_count' = beat_count + 1
          BY <1>1, <1>2, <1>6, <2>1, <2>3
      <3>2. CASE beat_count + 1 = M
        <4>1. state' = "DONE" /\ in_beat_count' = M
            BY <1>7, <1>11, <2>3, <3>1, <3>2 DEF R!Offer
        <4> QED BY <1>2, <1>3, <1>5, <1>7, <2>1, <4>1 DEF Collected, M, T
      <3>3. CASE beat_count + 1 # M
        <4>1. /\ state' = "READ" /\ read_idx' = 0 /\ beat_count' = beat_count + 1
              /\ current_addr' = (p.base_addr + (beat_count + 1) * p.beat_stride) % Words
            BY <1>7, <1>11, <2>3, <3>3 DEF R!Offer, R!BeatAddress
        <4>2. current_addr' = Address(p, beat_count' * T + read_idx')
          <5>1. beat_count + 1 \in Nat
              BY <2>1
          <5> QED BY <1>8, <4>1, <5>1
        <4>3. beat_count' \in 0 .. M - 1 /\ in_beat_count' = beat_count'
              /\ 0 \in 0 .. T - 1
            BY <1>1, <2>1, <3>1, <3>3, <4>1
        <4> QED BY <1>2, <1>3, <1>5, <1>7, <2>1, <4>1, <4>2, <4>3 DEF Collected, M, T
      <3> QED BY <3>2, <3>3
    <2> QED BY <2>2, <2>3
  <1> QED BY <1>4, <1>9, <1>10, <1>11

\* The two start together, and no cycle of either takes them apart.
LEMMA RoutedInv == RoutedSpec => [](TypeOK /\ Routed)
  <1>1. RoutedInit => TypeOK /\ Routed
    <2> SUFFICES ASSUME RoutedInit PROVE TypeOK /\ Routed
        OBVIOUS
    <2>1. TypeOK
        BY InitTypeOK DEF RoutedInit
    <2>2. ASSUME source = "router" PROVE \E p \in Patterns : Collected(p)
      <3>1. PICK p \in Patterns :
                config = [T_out |-> T_in, num_beats |-> num_in_beats, bram |-> Laid(p),
                          base_addr |-> p.base_addr, stride |-> p.stride,
                          beat_stride |-> p.beat_stride]
          BY <2>2 DEF RoutedInit
      <3>2. state = "IDLE" /\ byte_regs = [i \in 0 .. config.T_out - 1 |-> Blank]
            /\ in_beat_count = 0
          BY DEF RoutedInit, R!Init, Init
      <3>3. config.T_out = T_in
          BY <3>1
      <3>4. byte_regs = [i \in 0 .. T_in - 1 |-> byte_regs[i]]
          BY <3>2, <3>3
      <3> QED BY <3>1, <3>2, <3>4 DEF Collected
    <2> QED BY <2>1, <2>2 DEF Routed
  <1>2. TypeOK /\ Routed /\ [RoutedNext]_allvars => Routed'
    <2> SUFFICES ASSUME TypeOK, Routed, [RoutedNext]_allvars PROVE Routed'
        OBVIOUS
    <2>1. CASE UNCHANGED allvars
        BY <2>1 DEF allvars, vars, router, Routed, Collected, Patterns, Laid, Address,
                    N, T_in, num_in_beats
    <2>2. CASE FromAnySource
        BY <2>2 DEF FromAnySource, Routed
    <2>3. ASSUME NEW start \in BOOLEAN, NEW ready_in \in BOOLEAN, Cycle(start, ready_in)
          PROVE  Routed'
      <3>1. PICK p \in Patterns : Collected(p)
          BY <2>3 DEF Cycle, Routed
      <3>2. Collected(p)'
          BY <2>3, <3>1, CollectedStep
      <3>3. p \in Patterns'
          BY <2>3 DEF Cycle, Clock, Patterns, T_in, num_in_beats, N
      <3> QED BY <3>2, <3>3 DEF Routed
    <2> QED BY <2>1, <2>2, <2>3 DEF RoutedNext
  <1> QED BY <1>1, <1>2, RoutedIsSource, TypeStep, PTL DEF RoutedSpec

\* Behind a router of either pattern, wherever its addresses wrap and however
\* often it is started again, an adapter goes through the steps it goes
\* through behind a source that offers the tensor's beats in order.
THEOREM RouterIsSource == RoutedSpec => Spec
  <1>1. RoutedInit => Init
      BY DEF RoutedInit
  <1> QED BY <1>1, RoutedInv, RoutedIsSource, PTL DEF RoutedSpec, Spec

\* The router offers the beat its count says, for every memory that holds
\* the tensor, every base address and both patterns; and what the adapter
\* makes of the beats is the tensor in order.
THEOREM FetchedCorrect == ASSUME Even PROVE RoutedSpec => []FetchedInOrder
  <1>1. TypeOK /\ Routed /\ InOrder => FetchedInOrder
    <2> SUFFICES ASSUME TypeOK, Routed, InOrder, source = "router"
                 PROVE  /\ R!valid_out => R!data_out = Beat(beat_count, T_in)
                        /\ valid_out(R!valid_out)
                             => data_out(R!data_out) = Beat(out_beat_count, T_out)
        BY DEF FetchedInOrder
    <2>1. R!valid_out => R!data_out = Beat(beat_count, T_in)
        BY OfferedBeat
    <2>2. ASSUME valid_out(R!valid_out)
          PROVE  data_out(R!data_out) = Beat(out_beat_count, T_out)
      <3>1. R!valid_out \in BOOLEAN
          BY DEF R!valid_out
      <3>2. data_out(Beat(in_beat_count, T_in)) = Beat(out_beat_count, T_out)
          BY <2>2, <3>1, OfferInOrder DEF BytesInOrder
      <3>3. CASE Widens \/ Narrows
          BY <3>2, <3>3 DEF data_out
      <3>4. CASE ~Widens /\ ~Narrows
        <4>1. R!valid_out /\ out_beat_count < num_out_beats
            BY <2>2, <3>4 DEF valid_out
        <4>2. T_in = T_out /\ in_beat_count = out_beat_count
              /\ num_in_beats = num_out_beats
            BY <3>4, Parameters DEF TypeOK, InOrder, Widens, Narrows,
                                    num_in_beats, num_out_beats
        <4>3. in_beat_count = beat_count
          <5>1. in_beat_count \in {beat_count, num_in_beats}
              BY <4>1 DEF Routed, Collected, R!valid_out
          <5> QED BY <4>1, <4>2, <5>1, Parameters DEF TypeOK
        <4> QED BY <2>1, <3>4, <4>1, <4>2, <4>3 DEF data_out
      <3> QED BY <3>3, <3>4
    <2> QED BY <2>1, <2>2
  <1> QED BY <1>1, RoutedInv, RouterIsSource, OrderKept, PTL

\* Hence the bytes leave in order behind a router as behind any other source.
THEOREM RoutedOrderCorrect ==
    ASSUME Even PROVE RoutedSpec => []BytesInOrder /\ OneTensor
  BY RouterIsSource, OrderCorrect, OneTensorCorrect, PTL
=============================================================================
