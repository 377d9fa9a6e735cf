----------------------- MODULE StatefulSoftmaxProofs -----------------------
(***************************************************************************)
(* For every packet length, the three stages of the ring keep apart: the   *)
(* packet on offer is never overwritten, and nothing but a sink that       *)
(* stalls for longer than a packet locks them up.  It all rests on the sum *)
(* stage never falling a packet behind, which no signal enforces: it needs *)
(* as many cycles for a packet as the producer for the next one, and       *)
(* starts earlier.                                                         *)
(***************************************************************************)
EXTENDS MCStatefulSoftmax, SequenceTheorems, WellFoundedInduction, TLAPS

\* What the proofs need of the constants.
LEMMA Sizes == /\ NumBeats \in Nat \ {0}
               /\ Beat \subseteq Int
               /\ 0 \in Beat
               /\ 0 \in Sums
<1>1. 2^SumWidth \in Nat /\ 255 < 2^SumWidth
  BY SoftmaxAssumption
<1>.  QED  BY <1>1, SoftmaxAssumption DEF Sums

USE Sizes DEF Banks, Beats

IInv == TypeOK /\ SumKeepsUp /\ TokensAgree

\* The control state, without the data: the ranges the pointer argument uses.
ControlOK == /\ write_ptr \in Banks /\ sum_ptr \in Banks /\ div_ptr \in Banks
             /\ tokens_in_flight \in 0 .. 3
             /\ prod_beat_count \in Beats
             /\ sum_beat_count \in Beats
             /\ div_beat_count \in Beats

LEMMA TypeControl == TypeOK => ControlOK
BY DEF TypeOK, ControlOK

-----------------------------------------------------------------------------
LEMMA InitIInv == Init => IInv
BY DEF Init, IInv, TypeOK, SumKeepsUp, TokensAgree, sum_active, div_active

\* Whatever the bank holds, what the ROM adds fits the accumulator.
LEMMA ExpInSums ==
    ASSUME NEW x \in Beat, NEW max \in Beat
    PROVE  Exp(Difference(x, max)) \in Sums
<1>1. x \in -128 .. 127 /\ max \in -128 .. 127
  BY SoftmaxAssumption
<1>2. Difference(x, max) \in -128 .. 127
  BY <1>1 DEF Difference
<1>3. \A d \in -128 .. 127 : Exp(d) \in 0 .. 255
  BY SoftmaxAssumption
<1>4. Exp(Difference(x, max)) \in 0 .. 255
  BY <1>2, <1>3
<1>5. 2^SumWidth \in Nat /\ 255 < 2^SumWidth
  BY SoftmaxAssumption
<1>.  QED  BY <1>4, <1>5 DEF Sums

\* The accumulator keeps its width.
LEMMA Mod == ASSUME NEW n \in Nat, NEW w \in Nat, w > 0 PROVE n % w \in 0 .. w - 1
OBVIOUS

LEMMA WrapInSums ==
    ASSUME NEW acc \in Sums, NEW e \in Sums
    PROVE  (acc + e) % 2^SumWidth \in Sums
<1>1. 2^SumWidth \in Nat /\ 2^SumWidth > 0
  <2>1. 2^SumWidth \in Nat /\ 255 < 2^SumWidth
    BY SoftmaxAssumption
  <2>.  QED  BY <2>1
<1>2. acc + e \in Nat
  BY <1>1 DEF Sums
<1>.  QED  BY <1>1, <1>2, Mod DEF Sums

-----------------------------------------------------------------------------
LEMMA CountInRange ==
    ASSUME NEW n \in Beats, NEW h \in BOOLEAN PROVE NextCount(n, h) \in Beats
BY DEF NextCount

\* The control part of a clock cycle, without the data.
Control(prod_handshake, div_handshake) ==
    LET prod_done == prod_handshake /\ prod_beat_count = NumBeats - 1
        sum_done == sum_active /\ sum_beat_count = NumBeats - 1
        div_done == div_handshake /\ div_beat_count = NumBeats - 1
    IN /\ prod_beat_count' = NextCount(prod_beat_count, prod_handshake)
       /\ sum_beat_count' = NextCount(sum_beat_count, sum_active)
       /\ div_beat_count' = NextCount(div_beat_count, div_handshake)
       /\ write_ptr' = IF prod_done THEN After(write_ptr) ELSE write_ptr
       /\ sum_ptr' = IF sum_done THEN After(sum_ptr) ELSE sum_ptr
       /\ div_ptr' = IF div_done THEN After(div_ptr) ELSE div_ptr
       /\ tokens_in_flight' = NextTokens(prod_done, div_done)

LEMMA ClockControl ==
    ASSUME NEW valid_in \in BOOLEAN, NEW ready_in \in BOOLEAN, NEW data_in,
           Clock(valid_in, data_in, ready_in)
    PROVE  Control(valid_in /\ ready_out, div_active /\ ready_in)
BY DEF Clock, Control

\* The control invariants are kept by the control part alone.
LEMMA ControlStep ==
    ASSUME ControlOK, SumKeepsUp, TokensAgree,
           NEW prod_handshake \in BOOLEAN, NEW div_handshake \in BOOLEAN,
           prod_handshake => ready_out,
           div_handshake => div_active,
           Control(prod_handshake, div_handshake)
    PROVE  ControlOK' /\ SumKeepsUp' /\ TokensAgree'
<1>. DEFINE prod_done == prod_handshake /\ prod_beat_count = NumBeats - 1
            sum_done == sum_active /\ sum_beat_count = NumBeats - 1
            div_done == div_handshake /\ div_beat_count = NumBeats - 1
<1>1. /\ prod_beat_count' = NextCount(prod_beat_count, prod_handshake)
      /\ sum_beat_count' = NextCount(sum_beat_count, sum_active)
      /\ div_beat_count' = NextCount(div_beat_count, div_handshake)
  BY DEF Control
<1>2. /\ write_ptr' = IF prod_done THEN After(write_ptr) ELSE write_ptr
      /\ sum_ptr' = IF sum_done THEN After(sum_ptr) ELSE sum_ptr
      /\ div_ptr' = IF div_done THEN After(div_ptr) ELSE div_ptr
      /\ tokens_in_flight' = NextTokens(prod_done, div_done)
  BY DEF Control
<1>3. sum_active \in BOOLEAN /\ div_active \in BOOLEAN
  BY DEF sum_active, div_active
\* A producer that finishes a packet finds the sum stage finishing or idle.
<1>4. prod_done => sum_done \/ ~sum_active
  BY DEF SumKeepsUp, ControlOK
\* The token counter moves by at most one, between its bounds.
<1>5. /\ prod_done => tokens_in_flight < 3
      /\ div_done => tokens_in_flight > 0
  BY DEF ready_out, TokensAgree, ControlOK
<1>6. ControlOK'
  <2>1. /\ prod_beat_count' \in Beats
        /\ sum_beat_count' \in Beats
        /\ div_beat_count' \in Beats
    BY <1>1, <1>3, CountInRange DEF ControlOK
  <2>2. write_ptr' \in Banks /\ sum_ptr' \in Banks /\ div_ptr' \in Banks
    BY <1>2 DEF ControlOK, After
  <2>3. tokens_in_flight' \in 0 .. 3
    BY <1>2, <1>5 DEF ControlOK, NextTokens
  <2>.  QED  BY <2>1, <2>2, <2>3 DEF ControlOK
<1>7. SumKeepsUp'
  <2>1. CASE prod_done
    <3>1. sum_ptr' = write_ptr
      BY <2>1, <1>2, <1>4 DEF SumKeepsUp, sum_active
    <3>2. write_ptr' = After(sum_ptr')
      BY <2>1, <3>1, <1>2
    <3>3. prod_beat_count' = 0 /\ sum_beat_count' >= 0
      BY <2>1, <1>1, <1>6 DEF NextCount, ControlOK
    <3>.  QED  BY <3>2, <3>3 DEF SumKeepsUp
  <2>2. CASE ~prod_done /\ sum_done
    <3>1. sum_ptr' = write_ptr'
      BY <2>2, <1>2 DEF SumKeepsUp
    <3>.  QED  BY <3>1 DEF SumKeepsUp, sum_active
  <2>3. CASE ~prod_done /\ ~sum_done
    <3>1. sum_ptr' = sum_ptr /\ write_ptr' = write_ptr
      BY <2>3, <1>2
    <3>2. SUFFICES ASSUME sum_active
                   PROVE  sum_beat_count' >= prod_beat_count'
      BY <3>1 DEF SumKeepsUp, sum_active
    <3>3. sum_beat_count' = sum_beat_count + 1
      BY <2>3, <3>2, <1>1 DEF NextCount
    <3>4. prod_beat_count' <= prod_beat_count + 1
      BY <2>3, <1>1 DEF NextCount, ControlOK
    <3>5. sum_beat_count >= prod_beat_count
      BY <3>2 DEF SumKeepsUp
    <3>.  QED  BY <3>3, <3>4, <3>5, <1>6 DEF ControlOK
  <2>.  QED  BY <2>1, <2>2, <2>3
<1>8. TokensAgree'
  <2>1. tokens_in_flight' % 3 = (write_ptr' - div_ptr') % 3
    BY <1>2, <1>5 DEF TokensAgree, ControlOK, After, NextTokens
  <2>2. tokens_in_flight' = 0 => ~sum_active' /\ ~div_active'
    BY <1>2, <1>5 DEF TokensAgree, SumKeepsUp, ControlOK, After, NextTokens,
                      sum_active, div_active
  <2>3. tokens_in_flight' = 3 => prod_beat_count' = 0
    BY <1>1, <1>2, <1>5 DEF TokensAgree, ControlOK, NextTokens, NextCount, ready_out
  <2>.  QED  BY <2>1, <2>2, <2>3 DEF TokensAgree
<1>.  QED  BY <1>6, <1>7, <1>8

-----------------------------------------------------------------------------
LEMMA LatchInRange ==
    ASSUME NEW S, NEW latched \in [Banks -> S], NEW b \in Banks, NEW v \in S,
           NEW done \in BOOLEAN
    PROVE  Latch(latched, b, v, done) \in [Banks -> S]
BY DEF Latch

LEMMA TypeStep ==
    ASSUME TypeOK, ControlOK',
           NEW valid_in \in BOOLEAN, NEW ready_in \in BOOLEAN,
           NEW data_in \in Beat, Clock(valid_in, data_in, ready_in)
    PROVE  TypeOK'
<1>. DEFINE prod_handshake == valid_in /\ ready_out
            prod_done == prod_handshake /\ prod_beat_count = NumBeats - 1
            sum_done == sum_active /\ sum_beat_count = NumBeats - 1
            next_prod_max == Larger(data_in, prod_max)
            sum_beat_sum == Exp(Difference(buf_data[sum_ptr][sum_beat_count],
                                           buf_max[sum_ptr]))
            next_sum_exp == (sum_exp_acc + sum_beat_sum) % 2^SumWidth
<1>1. /\ prod_max' = Restarted(prod_max, data_in, next_prod_max,
                               prod_handshake, prod_beat_count)
      /\ sum_exp_acc' = Restarted(sum_exp_acc, sum_beat_sum, next_sum_exp,
                                  sum_active, sum_beat_count)
      /\ buf_max' = Latch(buf_max, write_ptr, next_prod_max, prod_done)
      /\ buf_sum_exp' = Latch(buf_sum_exp, sum_ptr, next_sum_exp, sum_done)
  BY DEF Clock
<1>2. buf_data' = IF prod_handshake
                  THEN [buf_data EXCEPT ![write_ptr][prod_beat_count] = data_in]
                  ELSE buf_data
  BY DEF Clock
<1>3. prod_done \in BOOLEAN /\ sum_done \in BOOLEAN
  BY DEF sum_active
<1>4. next_prod_max \in Beat
  BY DEF TypeOK, Larger
<1>5. sum_beat_sum \in Sums
  <2>1. buf_data[sum_ptr][sum_beat_count] \in Beat /\ buf_max[sum_ptr] \in Beat
    BY DEF TypeOK
  <2>.  QED  BY <2>1, ExpInSums
<1>6. next_sum_exp \in Sums
  <2>1. sum_exp_acc \in Sums
    BY DEF TypeOK
  <2>.  HIDE DEF sum_beat_sum
  <2>.  QED  BY <2>1, <1>5, WrapInSums
<1>.  HIDE DEF next_prod_max, sum_beat_sum, next_sum_exp, prod_done, sum_done
<1>7. prod_max' \in Beat /\ sum_exp_acc' \in Sums
  BY <1>1, <1>4, <1>5, <1>6 DEF TypeOK, Restarted
<1>8. buf_max' \in [Banks -> Beat] /\ buf_sum_exp' \in [Banks -> Sums]
  BY <1>1, <1>3, <1>4, <1>6, LatchInRange DEF TypeOK
<1>9. buf_data' \in [Banks -> [Beats -> Beat]]
  BY <1>2 DEF TypeOK
<1>.  QED  BY <1>7, <1>8, <1>9 DEF TypeOK, ControlOK

LEMMA NextIInv == IInv /\ [Next]_vars => IInv'
<1>. SUFFICES ASSUME IInv, [Next]_vars PROVE IInv'
  OBVIOUS
<1>1. CASE UNCHANGED vars
  BY <1>1 DEF IInv, TypeOK, SumKeepsUp, TokensAgree, sum_active, div_active,
              vars, pointers, counters, stats
<1>2. ASSUME NEW valid_in \in BOOLEAN, NEW ready_in \in BOOLEAN,
             NEW data_in \in Beat, Clock(valid_in, data_in, ready_in)
      PROVE  IInv'
  <2>1. ControlOK
    BY TypeControl DEF IInv
  <2>2. Control(valid_in /\ ready_out, div_active /\ ready_in)
    BY <1>2, ClockControl
  <2>3. ready_out \in BOOLEAN /\ div_active \in BOOLEAN
    BY DEF ready_out, div_active
  <2>4. ControlOK' /\ SumKeepsUp' /\ TokensAgree'
    BY <2>1, <2>2, <2>3, ControlStep DEF IInv
  <2>5. TypeOK'
    BY <1>2, <2>4, TypeStep DEF IInv
  <2>.  QED  BY <2>4, <2>5 DEF IInv
<1>.  QED  BY <1>1, <1>2 DEF Next

LEMMA AlwaysIInv == Spec => []IInv
BY InitIInv, NextIInv, PTL DEF Spec

\* Type correctness, for every packet length and every ROM.
THEOREM TypeCorrect == Spec => []TypeOK
BY AlwaysIInv, PTL DEF IInv

\* The sum stage is never a whole packet behind the producer.
THEOREM SumKeepsUpCorrect == Spec => []SumKeepsUp
BY AlwaysIInv, PTL DEF IInv

\* The token counter agrees with the distance between the pointers.
THEOREM TokensCorrect == Spec => []TokensAgree
BY AlwaysIInv, PTL DEF IInv

-----------------------------------------------------------------------------
DivBankKept == /\ buf_data'[div_ptr] = buf_data[div_ptr]
               /\ buf_max'[div_ptr] = buf_max[div_ptr]
               /\ buf_sum_exp'[div_ptr] = buf_sum_exp[div_ptr]

LEMMA DivBankStep == IInv /\ [Next]_vars => (div_active => DivBankKept)
<1>. SUFFICES ASSUME IInv, [Next]_vars, div_active PROVE DivBankKept
  OBVIOUS
<1>1. CASE UNCHANGED vars
  BY <1>1 DEF DivBankKept, vars, stats
<1>2. ASSUME NEW valid_in \in BOOLEAN, NEW ready_in \in BOOLEAN,
             NEW data_in \in Beat, Clock(valid_in, data_in, ready_in)
      PROVE  DivBankKept
  <2>1. div_ptr # sum_ptr
    BY DEF div_active
  \* A producer let in fills another bank: only a full ring, which lets none
  \* in, brings its pointer round to div_ptr.
  <2>2. ready_out => div_ptr # write_ptr
    <3>1. tokens_in_flight # 0 /\ tokens_in_flight \in 0 .. 3
      BY DEF IInv, TypeOK, TokensAgree
    <3>2. tokens_in_flight % 3 = (write_ptr - div_ptr) % 3
      BY DEF IInv, TokensAgree
    <3>3. SUFFICES ASSUME div_ptr = write_ptr PROVE ~(tokens_in_flight < 3)
      BY DEF ready_out
    <3>4. write_ptr - div_ptr = 0
      BY <3>3 DEF IInv, TypeOK
    <3>.  QED  BY <3>1, <3>2, <3>4
  <2>3. buf_data'[div_ptr] = buf_data[div_ptr]
    BY <1>2, <2>2 DEF Clock, IInv, TypeOK
  <2>4. buf_max'[div_ptr] = buf_max[div_ptr]
    BY <1>2, <2>2 DEF Clock, Latch, IInv, TypeOK
  <2>5. buf_sum_exp'[div_ptr] = buf_sum_exp[div_ptr]
    BY <1>2, <2>1 DEF Clock, Latch, IInv, TypeOK
  <2>.  QED  BY <2>3, <2>4, <2>5 DEF DivBankKept
<1>.  QED  BY <1>1, <1>2 DEF Next

\* The packet on offer is never overwritten, nor its statistics.
THEOREM DivBankCorrect == Spec => DivBankStable
<1>1. IInv /\ [Next]_vars => [div_active => DivBankKept]_vars
  BY DivBankStep
<1>2. Spec => [][div_active => DivBankKept]_vars
  BY <1>1, AlwaysIInv, PTL DEF Spec
<1>.  QED  BY <1>2 DEF DivBankStable, DivBankKept

-----------------------------------------------------------------------------
\* Beats the sum stage has yet to read.
Unsummed == IF sum_active THEN NumBeats - sum_beat_count ELSE 0

\* Beats the sum stage has read and the divide stage has not given.
Lead == tokens_in_flight * NumBeats - div_beat_count - Unsummed

\* The sum stage starts at the first beat of its packet.
SumRests == ~sum_active => sum_beat_count = 0

One(b) == IF b THEN 1 ELSE 0

\* The lead grows by the beat the sum stage reads and shrinks by the one given.
LEMMA LeadStep ==
    ASSUME ControlOK, SumKeepsUp, TokensAgree, SumRests,
           NEW prod_handshake \in BOOLEAN, NEW div_handshake \in BOOLEAN,
           prod_handshake => ready_out,
           div_handshake => div_active,
           Control(prod_handshake, div_handshake)
    PROVE  SumRests' /\ Lead' = Lead + One(sum_active) - One(div_handshake)
<1>. DEFINE prod_done == prod_handshake /\ prod_beat_count = NumBeats - 1
            sum_done == sum_active /\ sum_beat_count = NumBeats - 1
            div_done == div_handshake /\ div_beat_count = NumBeats - 1
<1>1. /\ sum_beat_count' = NextCount(sum_beat_count, sum_active)
      /\ div_beat_count' = NextCount(div_beat_count, div_handshake)
      /\ write_ptr' = IF prod_done THEN After(write_ptr) ELSE write_ptr
      /\ sum_ptr' = IF sum_done THEN After(sum_ptr) ELSE sum_ptr
      /\ tokens_in_flight' = NextTokens(prod_done, div_done)
  BY DEF Control
<1>2. prod_done => sum_done \/ ~sum_active
  BY DEF SumKeepsUp, ControlOK
<1>3. /\ prod_done => sum_active' /\ sum_beat_count' = 0
      /\ ~prod_done /\ sum_done => ~sum_active' /\ sum_beat_count' = 0
      /\ ~prod_done /\ sum_active /\ ~sum_done =>
             sum_active' /\ sum_beat_count' = sum_beat_count + 1
      /\ ~prod_done /\ ~sum_active => ~sum_active' /\ sum_beat_count' = 0
  <2>1. CASE prod_done
    <3>1. sum_ptr' = write_ptr
      BY <2>1, <1>1, <1>2 DEF SumKeepsUp, sum_active
    <3>2. write_ptr' = After(write_ptr) /\ After(write_ptr) # write_ptr
      BY <2>1, <1>1 DEF ControlOK, After
    <3>3. sum_beat_count' = 0
      BY <2>1, <1>1, <1>2 DEF NextCount, SumRests
    <3>.  QED  BY <2>1, <3>1, <3>2, <3>3 DEF sum_active
  <2>2. CASE ~prod_done
    <3>1. write_ptr' = write_ptr
      BY <2>2, <1>1
    <3>2. CASE sum_done
      BY <2>2, <3>1, <3>2, <1>1 DEF SumKeepsUp, sum_active, NextCount
    <3>3. CASE ~sum_done
      BY <2>2, <3>1, <3>3, <1>1 DEF SumRests, sum_active, NextCount
    <3>.  QED  BY <3>2, <3>3
  <2>.  QED  BY <2>1, <2>2
<1>4. SumRests'
  BY <1>3 DEF SumRests
<1>5. Unsummed' = Unsummed - One(sum_active) + (IF prod_done THEN NumBeats ELSE 0)
  BY <1>2, <1>3 DEF Unsummed, One, ControlOK
<1>6. tokens_in_flight' * NumBeats =
          tokens_in_flight * NumBeats + (IF prod_done THEN NumBeats ELSE 0)
                                      - (IF div_done THEN NumBeats ELSE 0)
  <2>1. /\ (tokens_in_flight + 1) * NumBeats = tokens_in_flight * NumBeats + NumBeats
        /\ (tokens_in_flight - 1) * NumBeats = tokens_in_flight * NumBeats - NumBeats
        /\ tokens_in_flight * NumBeats \in Nat
    BY DEF ControlOK
  <2>2. CASE prod_done /\ ~div_done
    <3>1. tokens_in_flight' = tokens_in_flight + 1
      BY <2>2, <1>1 DEF NextTokens
    <3>.  QED  BY <2>1, <2>2, <3>1
  <2>3. CASE ~prod_done /\ div_done
    <3>1. tokens_in_flight' = tokens_in_flight - 1
      BY <2>3, <1>1 DEF NextTokens
    <3>.  QED  BY <2>1, <2>3, <3>1
  <2>4. CASE prod_done <=> div_done
    <3>1. tokens_in_flight' = tokens_in_flight
      BY <2>4, <1>1 DEF NextTokens
    <3>.  QED  BY <2>1, <2>4, <3>1
  <2>.  QED  BY <2>2, <2>3, <2>4
<1>7. div_beat_count' = div_beat_count + One(div_handshake)
                                       - (IF div_done THEN NumBeats ELSE 0)
  BY <1>1 DEF NextCount, One, ControlOK
<1>8. /\ Lead' = tokens_in_flight' * NumBeats - div_beat_count' - Unsummed'
      /\ tokens_in_flight * NumBeats \in Int /\ div_beat_count \in Int
      /\ Unsummed \in Int
  BY DEF Lead, Unsummed, ControlOK
<1>.  HIDE DEF prod_done, div_done
<1>9. Lead' = Lead + One(sum_active) - One(div_handshake)
  BY <1>5, <1>6, <1>7, <1>8 DEF Lead, One
<1>.  QED  BY <1>4, <1>9

\* The lead never exceeds a packet by more beats than the sink has stalled.
SlackInv == /\ stalled \in 0 .. MaxStalled
            /\ SumRests
            /\ stalled < MaxStalled => Lead <= NumBeats + stalled

\* What is locked up has more than two packets of lead.
LEMMA LeadLockedUp == ASSUME ControlOK, LockedUp PROVE Lead > 2 * NumBeats
BY DEF ControlOK, LockedUp, Lead, Unsummed

\* With nothing to divide, and not locked up, there is less than a packet.
LEMMA LeadIdle ==
    ASSUME ControlOK, SumKeepsUp, TokensAgree, ~div_active, ~LockedUp
    PROVE  Lead < NumBeats
<1>1. CASE sum_active
  <2>1. tokens_in_flight = 1
    BY <1>1 DEF ControlOK, SumKeepsUp, TokensAgree, div_active, After
  <2>.  QED  BY <1>1, <2>1 DEF ControlOK, Lead, Unsummed
<1>2. CASE ~sum_active
  <2>1. tokens_in_flight = 0
    BY <1>2 DEF ControlOK, TokensAgree, div_active, sum_active, LockedUp
  <2>.  QED  BY <1>2, <2>1 DEF ControlOK, Lead, Unsummed
<1>.  QED  BY <1>1, <1>2

\* Only a cycle in which the sink stalls lets the lead grow beyond a packet.
LEMMA CycleSlack ==
    ASSUME IInv, SlackInv, NEW ready_in \in BOOLEAN, Cycle(ready_in)
    PROVE  SlackInv'
<1>1. PICK valid_in \in BOOLEAN, data_in \in Beat :
          /\ Clock(valid_in, data_in, ready_in)
          /\ stalled' = IF div_active /\ ~ready_in /\ stalled < MaxStalled
                        THEN stalled + 1 ELSE stalled
  BY DEF Cycle
<1>. DEFINE given == div_active /\ ready_in
<1>2. ControlOK
  BY TypeControl DEF IInv
<1>3. SumRests' /\ Lead' = Lead + One(sum_active) - One(given)
  <2>1. Control(valid_in /\ ready_out, given)
    BY <1>1, ClockControl
  <2>2. (valid_in /\ ready_out) \in BOOLEAN /\ given \in BOOLEAN
    BY DEF ready_out, div_active
  <2>3. (valid_in /\ ready_out => ready_out) /\ (given => div_active)
    OBVIOUS
  <2>.  HIDE DEF given
  <2>.  QED  BY <1>2, <2>1, <2>2, <2>3, LeadStep DEF IInv, SlackInv
<1>4. Lead \in Int /\ One(sum_active) \in 0 .. 1
  BY <1>2 DEF Lead, Unsummed, One, ControlOK
<1>5. stalled' \in 0 .. MaxStalled
  BY <1>1 DEF SlackInv, MaxStalled
<1>6. ASSUME stalled' < MaxStalled PROVE Lead' <= NumBeats + stalled'
  <2>1. stalled < MaxStalled /\ Lead <= NumBeats + stalled
    BY <1>1, <1>6 DEF SlackInv, MaxStalled
  <2>2. CASE div_active /\ ~ready_in
    <3>1. stalled' = stalled + 1 /\ One(given) = 0
      BY <1>1, <2>1, <2>2 DEF One
    <3>.  QED  BY <1>3, <1>4, <2>1, <3>1 DEF SlackInv, MaxStalled
  <2>3. CASE div_active /\ ready_in
    <3>1. stalled' = stalled /\ One(given) = 1
      BY <1>1, <2>1, <2>3 DEF One
    <3>.  QED  BY <1>3, <1>4, <2>1, <3>1 DEF SlackInv, MaxStalled
  <2>4. CASE ~div_active
    <3>1. stalled' = stalled /\ One(given) = 0
      BY <1>1, <2>1, <2>4 DEF One
    <3>2. CASE LockedUp
      <4>1. One(sum_active) = 0
        BY <3>2 DEF LockedUp, One
      <4>.  QED  BY <1>3, <1>4, <2>1, <3>1, <4>1 DEF SlackInv, MaxStalled
    <3>3. CASE ~LockedUp
      <4>1. Lead < NumBeats
        BY <1>2, <2>4, <3>3, LeadIdle DEF IInv
      <4>.  QED  BY <1>3, <1>4, <3>1, <4>1 DEF SlackInv, MaxStalled
    <3>.  QED  BY <3>2, <3>3
  <2>.  QED  BY <2>2, <2>3, <2>4
<1>.  QED  BY <1>3, <1>5, <1>6 DEF SlackInv

LEMMA MCNextSlack ==
    IInv /\ SlackInv /\ [MCNext]_<<vars, stalled>> => IInv' /\ SlackInv'
<1>. SUFFICES ASSUME IInv, SlackInv, [MCNext]_<<vars, stalled>>
              PROVE  IInv' /\ SlackInv'
  OBVIOUS
<1>1. ASSUME NEW ready_in \in BOOLEAN, Cycle(ready_in) PROVE Next
  <2>1. PICK valid_in \in BOOLEAN, data_in \in Beat : Clock(valid_in, data_in, ready_in)
    BY <1>1 DEF Cycle
  <2>.  QED  BY <2>1 DEF Next
<1>2. CASE MCNext
  <2>1. Next
    BY <1>1, <1>2 DEF MCNext, Flowing, Stalling
  <2>.  QED  BY <1>2, <2>1, NextIInv, CycleSlack DEF MCNext, Flowing, Stalling
<1>3. CASE UNCHANGED <<vars, stalled>>
  <2>1. SlackInv'
    BY <1>3 DEF vars, pointers, counters, SlackInv, SumRests, sum_active, Lead,
                Unsummed, MaxStalled
  <2>.  QED  BY <1>3, <2>1, NextIInv
<1>.  QED  BY <1>2, <1>3

\* A sink that has stalled no more cycles than a packet has beats never locks
\* the core up, for packets of any length; one more cycle can, as the run shows.
THEOREM SlackCorrect == MCSpec => []SlackBeforeLockUp
<1>1. MCInit => IInv /\ SlackInv
  BY InitIInv DEF MCInit, Init, SlackInv, MaxStalled, SumRests, sum_active, Lead,
                  Unsummed
<1>2. IInv /\ SlackInv => SlackBeforeLockUp
  <2>1. SUFFICES ASSUME IInv, SlackInv, stalled <= NumBeats, LockedUp PROVE FALSE
    BY DEF SlackBeforeLockUp
  <2>2. Lead <= NumBeats + stalled /\ Lead \in Int /\ stalled \in Nat
    BY <2>1, TypeControl DEF SlackInv, MaxStalled, Lead, Unsummed, ControlOK, IInv
  <2>3. Lead > 2 * NumBeats
    BY <2>1, TypeControl, LeadLockedUp DEF IInv
  <2>.  QED  BY <2>1, <2>2, <2>3
<1>.  QED  BY <1>1, <1>2, MCNextSlack, PTL DEF MCSpec

-----------------------------------------------------------------------------
\* The banks are numbered modulo three.
LEMMA Mod3 == ASSUME NEW n \in Int PROVE n % 3 \in 0 .. 2
OBVIOUS

LEMMA Places ==
    ASSUME NEW d \in Banks, NEW w \in Banks, NEW t \in 0 .. 3, t % 3 = (w - d) % 3
    PROVE  t < 3 => /\ w = (d + (t + 1) - 1) % 3
                    /\ \A k \in 1 .. t : (d + k - 1) % 3 # w
<1>1. t = 0 \/ t = 1 \/ t = 2 \/ t = 3
  OBVIOUS
<1> QED  BY <1>1

LEMMA PlaceAfter ==
    ASSUME NEW d \in Banks, NEW k \in 1 .. 3
    PROVE  (After(d) + k - 1) % 3 = (d + (k + 1) - 1) % 3
<1>1. k = 1 \/ k = 2 \/ k = 3
  OBVIOUS
<1>2. d = 0 \/ d = 1 \/ d = 2
  OBVIOUS
<1> QED  BY <1>1, <1>2 DEF After

\* A sequence without its first element, and with one more, by their elements.
LEMMA TailFcn ==
    ASSUME NEW S, NEW t \in Nat \ {0}, NEW before \in [1 .. t -> S],
           NEW after \in [1 .. t - 1 -> S],
           \A k \in 1 .. t - 1 : after[k] = before[k + 1]
    PROVE  before # <<>> /\ after = Tail(before)
<1>1. before \in Seq(S) /\ Len(before) = t /\ before # <<>>
  OBVIOUS
<1>2. /\ Tail(before) \in Seq(S) /\ Len(Tail(before)) = t - 1
      /\ \A k \in 1 .. t - 1 : Tail(before)[k] = before[k + 1]
  BY <1>1, HeadTailProperties
<1>3. after \in Seq(S) /\ Len(after) = t - 1
  OBVIOUS
<1>4. after = Tail(before)
  BY <1>2, <1>3, SeqEqual
<1> QED  BY <1>1, <1>4

LEMMA AppendFcn ==
    ASSUME NEW S, NEW t \in Nat, NEW before \in [1 .. t -> S], NEW d \in S,
           NEW after \in [1 .. t + 1 -> S],
           \A k \in 1 .. t : after[k] = before[k], after[t + 1] = d
    PROVE  after = Append(before, d)
<1>1. before \in Seq(S) /\ Len(before) = t
  OBVIOUS
<1>2. /\ Append(before, d) \in Seq(S) /\ Len(Append(before, d)) = t + 1
      /\ \A k \in 1 .. t : Append(before, d)[k] = before[k]
      /\ Append(before, d)[t + 1] = d
  BY <1>1, AppendProperties
<1>3. after \in Seq(S) /\ Len(after) = t + 1
  OBVIOUS
<1>4. ASSUME NEW k \in 1 .. t + 1 PROVE after[k] = Append(before, d)[k]
  <2>1. k \in 1 .. t \/ k = t + 1
    OBVIOUS
  <2> QED  BY <1>2, <2>1
<1> QED  BY <1>2, <1>3, <1>4, SeqEqual

\* The first n beats of a bank.
First(data, b, n) == [i \in 1 .. n |-> data[b][i - 1]]

LEMMA FirstType ==
    ASSUME NEW data \in [Banks -> [Beats -> Beat]], NEW b \in Banks,
           NEW n \in 0 .. NumBeats
    PROVE  First(data, b, n) \in [1 .. n -> Beat]
<1>1. \A i \in 1 .. n : i - 1 \in Beats
  OBVIOUS
<1> QED  BY <1>1 DEF First

\* The beat stored next is appended to those there.
LEMMA FirstPut ==
    ASSUME NEW data \in [Banks -> [Beats -> Beat]], NEW b \in Banks,
           NEW n \in Beats, NEW d \in Beat
    PROVE  First([data EXCEPT ![b][n] = d], b, n + 1)
               = Append(First(data, b, n), d)
<1> DEFINE stored == [data EXCEPT ![b][n] = d]
<1>1. stored \in [Banks -> [Beats -> Beat]] /\ stored[b] = [data[b] EXCEPT ![n] = d]
  OBVIOUS
<1>2. n \in Nat /\ n \in 0 .. NumBeats /\ n + 1 \in 0 .. NumBeats
  OBVIOUS
<1> HIDE DEF stored
<1>3. /\ First(data, b, n) \in [1 .. n -> Beat]
      /\ First(stored, b, n + 1) \in [1 .. n + 1 -> Beat]
  BY <1>1, <1>2, FirstType
<1>4. ASSUME NEW i \in 1 .. n
      PROVE  First(stored, b, n + 1)[i] = First(data, b, n)[i]
  <2>1. i \in 1 .. n + 1 /\ i - 1 \in Beats /\ i - 1 # n
    OBVIOUS
  <2> QED  BY <1>1, <2>1 DEF First
<1>5. First(stored, b, n + 1)[n + 1] = d
  <2>1. n + 1 \in 1 .. n + 1 /\ (n + 1) - 1 = n
    OBVIOUS
  <2> QED  BY <1>1, <2>1 DEF First
<1>6. First(stored, b, n + 1) = Append(First(data, b, n), d)
  BY <1>2, <1>3, <1>4, <1>5, AppendFcn
<1> QED  BY <1>6 DEF stored

\* What the abstract buffer sees: the complete packets, oldest first, and the
\* one that is arriving.
Packets == [k \in 1 .. tokens_in_flight |-> Packet(Held(k))]
Arriving == [i \in 1 .. prod_beat_count |-> buf_data[write_ptr][i - 1]]
Whole == [1 .. NumBeats -> Beat]

\* The arriving packet grows by the beat accepted, and is whole with its last.
LEMMA Arrives ==
    ASSUME IInv, NEW valid_in \in BOOLEAN, NEW ready_in \in BOOLEAN,
           NEW data_in \in Beat, Clock(valid_in, data_in, ready_in)
    PROVE  LET prod_handshake == valid_in /\ ready_out
               prod_done == prod_handshake /\ prod_beat_count = NumBeats - 1
           IN /\ ~prod_handshake => Arriving' = Arriving
              /\ prod_handshake /\ ~prod_done =>
                     /\ Arriving' = Append(Arriving, data_in)
                     /\ Len(Arriving) + 1 < NumBeats
              /\ prod_done =>
                     /\ Arriving' = <<>>
                     /\ Len(Arriving) + 1 = NumBeats
                     /\ First(buf_data', write_ptr, NumBeats)
                            = Append(Arriving, data_in)
<1> DEFINE prod_handshake == valid_in /\ ready_out
           prod_done == prod_handshake /\ prod_beat_count = NumBeats - 1
           stored == [buf_data EXCEPT ![write_ptr][prod_beat_count] = data_in]
<1>1. /\ prod_beat_count \in Beats /\ prod_beat_count \in Nat
      /\ prod_beat_count \in 0 .. NumBeats /\ write_ptr \in Banks
      /\ buf_data \in [Banks -> [Beats -> Beat]]
  BY DEF IInv, TypeOK
<1>2. /\ Arriving = First(buf_data, write_ptr, prod_beat_count)
      /\ Arriving' = First(buf_data', write_ptr', prod_beat_count')
  BY DEF Arriving, First
<1>3. Len(Arriving) = prod_beat_count
  <2>1. Arriving \in [1 .. prod_beat_count -> Beat]
    BY <1>1, <1>2, FirstType
  <2> QED  BY <1>1, <2>1
<1>4. First(stored, write_ptr, prod_beat_count + 1) = Append(Arriving, data_in)
  BY <1>1, <1>2, FirstPut
<1>5. prod_handshake => buf_data' = stored
  BY DEF Clock
<1> HIDE DEF stored
<1>6. CASE ~prod_handshake
  <2>1. UNCHANGED <<prod_beat_count, write_ptr, buf_data>>
    BY <1>6 DEF Clock, NextCount
  <2> QED  BY <1>2, <1>6, <2>1
<1>7. CASE prod_handshake /\ ~prod_done
  <2>1. prod_beat_count' = prod_beat_count + 1 /\ write_ptr' = write_ptr
    BY <1>7 DEF Clock, NextCount
  <2>2. prod_beat_count + 1 < NumBeats
    BY <1>1, <1>7
  <2> QED  BY <1>2, <1>3, <1>4, <1>5, <1>7, <2>1, <2>2
<1>8. CASE prod_done
  <2>1. prod_beat_count' = 0 /\ prod_beat_count + 1 = NumBeats
    BY <1>1, <1>8 DEF Clock, NextCount
  <2>2. Arriving' = <<>>
    BY <1>2, <2>1 DEF First
  <2> QED  BY <1>3, <1>4, <1>5, <1>8, <2>1, <2>2
<1> QED  BY <1>6, <1>7, <1>8

\* Producer and divide stage each do what they did alone: the whole packet joins at
\* the end, the oldest leaves at the front, in one cycle or in two.
LEMMA Queues ==
    ASSUME IInv, NEW valid_in \in BOOLEAN, NEW ready_in \in BOOLEAN,
           NEW data_in \in Beat, Clock(valid_in, data_in, ready_in)
    PROVE  LET prod_done == /\ valid_in /\ ready_out
                            /\ prod_beat_count = NumBeats - 1
               cons_done == /\ div_active /\ ready_in
                            /\ div_beat_count = NumBeats - 1
               whole == Append(Arriving, data_in)
           IN /\ ~prod_done /\ ~cons_done => Packets' = Packets
              /\ prod_done /\ ~cons_done => Packets' = Append(Packets, whole)
              /\ ~prod_done /\ cons_done => Packets' = Tail(Packets)
              /\ prod_done /\ cons_done => Packets' = Append(Tail(Packets), whole)
              /\ div_active => Packets # <<>>
              /\ ready_out => Len(Packets) < 3
<1> DEFINE prod_done == /\ valid_in /\ ready_out
                        /\ prod_beat_count = NumBeats - 1
           cons_done == /\ div_active /\ ready_in
                        /\ div_beat_count = NumBeats - 1
           whole == Append(Arriving, data_in)
           t == tokens_in_flight
<1>1. /\ t \in 0 .. 3 /\ t \in Nat /\ t' \in 0 .. 3 /\ t' \in Nat
      /\ buf_data \in [Banks -> [Beats -> Beat]]
      /\ buf_data' \in [Banks -> [Beats -> Beat]]
      /\ write_ptr \in Banks
      /\ div_active => t > 0
      /\ ready_out => t < 3
  <2>1. TypeOK /\ TypeOK'
    BY NextIInv DEF Next, IInv
  <2>2. t \in 0 .. 3 /\ t' \in 0 .. 3
    BY <2>1 DEF TypeOK
  <2>3. div_active => t > 0
    BY <2>2 DEF div_active, IInv, TokensAgree
  <2>4. ready_out => t < 3
    BY <2>2 DEF ready_out
  <2> QED  BY <2>1, <2>2, <2>3, <2>4 DEF TypeOK
<1>2. t' = IF prod_done /\ ~cons_done THEN t + 1
           ELSE IF cons_done /\ ~prod_done THEN t - 1 ELSE t
  BY DEF Clock, NextTokens
<1>3. \A k \in 1 .. t : Held(k) \in Banks
  BY Mod3 DEF IInv, TypeOK, Held
\* A bank that holds a whole packet is not written, and the bank written is next.
<1>4. \A k \in 1 .. t : buf_data'[Held(k)] = buf_data[Held(k)]
  <2>1. valid_in /\ ready_out => \A k \in 1 .. t : Held(k) # write_ptr
    BY <1>1, Places DEF IInv, TypeOK, TokensAgree, Held
  <2> QED  BY <1>1, <1>3, <2>1 DEF Clock
<1>5. prod_done => write_ptr = Held(t + 1)
  <2>1. SUFFICES ASSUME prod_done PROVE write_ptr = Held(t + 1)
    OBVIOUS
  <2>2. t < 3 /\ t % 3 = (write_ptr - div_ptr) % 3 /\ div_ptr \in Banks
    BY <1>1, <2>1 DEF IInv, TypeOK, TokensAgree
  <2> HIDE DEF t
  <2>3. write_ptr = (div_ptr + (t + 1) - 1) % 3
    BY <1>1, <2>2, Places
  <2> QED  BY <2>3 DEF Held
<1>6. \A k \in 1 .. t' : Held(k)' = IF cons_done THEN Held(k + 1) ELSE Held(k)
  <2>1. div_ptr' = IF cons_done THEN After(div_ptr) ELSE div_ptr
    BY DEF Clock
  <2>2. \A k \in 1 .. t' : k \in 1 .. 3
    BY <1>1
  <2> HIDE DEF cons_done
  <2> QED  BY <2>1, <2>2, PlaceAfter DEF Held, IInv, TypeOK
<1>7. Packets = [k \in 1 .. t |-> First(buf_data, Held(k), NumBeats)]
  BY DEF Packets, Packet, First
<1>8. Packets' = [k \in 1 .. t' |-> First(buf_data', Held(k)', NumBeats)]
  BY DEF Packets, Packet, First
<1> HIDE DEF t
<1>9. Packets \in [1 .. t -> Whole]
  <2>1. NumBeats \in 0 .. NumBeats
    OBVIOUS
  <2>2. \A k \in 1 .. t : First(buf_data, Held(k), NumBeats) \in Whole
    BY <1>1, <1>3, <2>1, FirstType DEF Whole
  <2> QED  BY <1>7, <2>2
<1>10. \A k \in 1 .. t : First(buf_data', Held(k), NumBeats) = Packets[k]
  BY <1>4, <1>7 DEF First
<1>11. prod_done => /\ First(buf_data', Held(t + 1), NumBeats) = whole
                    /\ whole \in Whole
  <2>1. SUFFICES ASSUME prod_done
                 PROVE  /\ First(buf_data', Held(t + 1), NumBeats) = whole
                        /\ whole \in Whole
    OBVIOUS
  <2>2. First(buf_data', write_ptr, NumBeats) = whole
    BY <2>1, Arrives
  <2>3. First(buf_data', write_ptr, NumBeats) \in Whole
    <3>1. NumBeats \in 0 .. NumBeats
      OBVIOUS
    <3> QED  BY <1>1, <3>1, FirstType DEF Whole
  <2> QED  BY <1>5, <2>1, <2>2, <2>3
<1> HIDE DEF prod_done, cons_done, whole
<1>12. t > 0 => Packets # <<>>
  BY <1>1, <1>9
<1>13. Len(Packets) = t
  BY <1>1, <1>9
<1>14. ~prod_done /\ ~cons_done => Packets' = Packets
  <2>1. SUFFICES ASSUME ~prod_done, ~cons_done PROVE Packets' = Packets
    OBVIOUS
  <2>2. t' = t /\ \A k \in 1 .. t : Held(k)' = Held(k)
    BY <1>2, <1>6, <2>1
  <2>3. Packets' = [k \in 1 .. t |-> Packets[k]]
    BY <1>8, <1>10, <2>2
  <2> QED  BY <1>9, <2>3
<1>15. prod_done /\ ~cons_done => Packets' = Append(Packets, whole)
  <2>1. SUFFICES ASSUME prod_done, ~cons_done
                 PROVE  Packets' = Append(Packets, whole)
    OBVIOUS
  <2>2. t' = t + 1 /\ \A k \in 1 .. t + 1 : Held(k)' = Held(k)
    BY <1>2, <1>6, <2>1
  <2>3. Packets' = [k \in 1 .. t + 1 |-> First(buf_data', Held(k), NumBeats)]
    BY <1>8, <2>2
  <2>4. \A k \in 1 .. t : Packets'[k] = Packets[k]
    <3>1. \A k \in 1 .. t : k \in 1 .. t + 1
      BY <1>1
    <3> QED  BY <1>10, <2>3, <3>1
  <2>5. Packets'[t + 1] = whole /\ whole \in Whole
    <3>1. t + 1 \in 1 .. t + 1
      BY <1>1
    <3> QED  BY <1>11, <2>1, <2>3, <3>1
  <2>6. Packets' \in [1 .. t + 1 -> Whole]
    <3>1. \A k \in 1 .. t + 1 : k \in 1 .. t \/ k = t + 1
      BY <1>1
    <3>2. \A k \in 1 .. t + 1 : Packets'[k] \in Whole
      BY <1>9, <2>4, <2>5, <3>1
    <3> QED  BY <2>3, <3>2
  <2> DEFINE after == Packets'
  <2>7. /\ t \in Nat /\ Packets \in [1 .. t -> Whole] /\ whole \in Whole
        /\ after \in [1 .. t + 1 -> Whole]
        /\ \A k \in 1 .. t : after[k] = Packets[k]
        /\ after[t + 1] = whole
    BY <1>1, <1>9, <2>4, <2>5, <2>6
  <2> HIDE DEF after
  <2>8. after = Append(Packets, whole)
    BY <2>7, AppendFcn
  <2> QED  BY <2>8 DEF after
<1>16. cons_done => /\ t > 0
                    /\ [k \in 1 .. t - 1 |-> Packets[k + 1]] \in [1 .. t - 1 -> Whole]
                    /\ [k \in 1 .. t - 1 |-> Packets[k + 1]] = Tail(Packets)
  <2>1. SUFFICES ASSUME cons_done
                 PROVE  /\ t > 0
                        /\ [k \in 1 .. t - 1 |-> Packets[k + 1]]
                               \in [1 .. t - 1 -> Whole]
                        /\ [k \in 1 .. t - 1 |-> Packets[k + 1]] = Tail(Packets)
    OBVIOUS
  <2>2. t > 0 /\ t \in Nat \ {0}
    BY <1>1, <2>1 DEF cons_done
  <2>3. \A k \in 1 .. t - 1 : k + 1 \in 1 .. t
    BY <2>2
  <2> DEFINE rest == [k \in 1 .. t - 1 |-> Packets[k + 1]]
  <2>4. rest \in [1 .. t - 1 -> Whole] /\ \A k \in 1 .. t - 1 : rest[k] = Packets[k + 1]
    BY <1>9, <2>3
  <2> HIDE DEF rest
  <2>5. rest = Tail(Packets)
    BY <1>9, <2>2, <2>4, TailFcn
  <2> QED  BY <2>2, <2>4, <2>5 DEF rest
<1>17. ~prod_done /\ cons_done => Packets' = Tail(Packets)
  <2>1. SUFFICES ASSUME ~prod_done, cons_done PROVE Packets' = Tail(Packets)
    OBVIOUS
  <2>2. t' = t - 1 /\ \A k \in 1 .. t - 1 : Held(k)' = Held(k + 1)
    BY <1>2, <1>6, <2>1
  <2>3. \A k \in 1 .. t - 1 : k + 1 \in 1 .. t
    BY <1>1, <1>16, <2>1
  <2>4. Packets' = [k \in 1 .. t - 1 |-> Packets[k + 1]]
    BY <1>8, <1>10, <2>2, <2>3
  <2> QED  BY <1>16, <2>1, <2>4
<1>18. prod_done /\ cons_done => Packets' = Append(Tail(Packets), whole)
  <2>1. SUFFICES ASSUME prod_done, cons_done
                 PROVE  Packets' = Append(Tail(Packets), whole)
    OBVIOUS
  <2>2. t' = t /\ \A k \in 1 .. t : Held(k)' = Held(k + 1)
    BY <1>2, <1>6, <2>1
  <2>3. Packets' = [k \in 1 .. t |-> First(buf_data', Held(k + 1), NumBeats)]
    BY <1>8, <2>2
  <2> DEFINE rest == [k \in 1 .. t - 1 |-> Packets[k + 1]]
  <2>4. rest \in [1 .. t - 1 -> Whole] /\ rest = Tail(Packets) /\ t > 0
    BY <1>16, <2>1
  <2>5. t - 1 \in Nat /\ (t - 1) + 1 = t /\ t \in 1 .. t
    BY <1>1, <2>4
  <2>6. \A k \in 1 .. t - 1 : Packets'[k] = rest[k]
    <3>1. \A k \in 1 .. t - 1 : k + 1 \in 1 .. t /\ k \in 1 .. t
      BY <1>1
    <3> QED  BY <1>10, <2>3, <3>1
  <2>7. Packets'[t] = whole /\ whole \in Whole
    BY <1>11, <2>1, <2>3, <2>5
  <2> HIDE DEF rest
  <2>8. Packets' \in [1 .. t -> Whole]
    <3>1. \A k \in 1 .. t : k \in 1 .. t - 1 \/ k = t
      BY <1>1
    <3>2. \A k \in 1 .. t : Packets'[k] \in Whole
      BY <2>4, <2>6, <2>7, <3>1
    <3> QED  BY <2>3, <3>2
  <2>9. Packets' = Append(rest, whole)
    <3> DEFINE s == t - 1
    <3>1. s \in Nat /\ s + 1 = t
      BY <2>5
    <3>2. /\ rest \in [1 .. s -> Whole] /\ Packets' \in [1 .. s + 1 -> Whole]
          /\ \A k \in 1 .. s : Packets'[k] = rest[k]
          /\ Packets'[s + 1] = whole
      BY <2>4, <2>6, <2>7, <2>8, <3>1
    <3> HIDE DEF s
    <3> QED  BY <2>7, <3>1, <3>2, AppendFcn
  <2> QED  BY <2>4, <2>9
<1> QED  BY <1>1, <1>12, <1>13, <1>14, <1>15, <1>17, <1>18
         DEF prod_done, cons_done, whole

LEMMA ClockBuffer ==
    ASSUME IInv, NEW valid_in \in BOOLEAN, NEW ready_in \in BOOLEAN,
           NEW data_in \in Beat, Clock(valid_in, data_in, ready_in)
    PROVE  Buffer!Next
<1> DEFINE prod_handshake == valid_in /\ ready_out
           prod_done == prod_handshake /\ prod_beat_count = NumBeats - 1
           cons_handshake == div_active /\ ready_in
           cons_done == cons_handshake /\ div_beat_count = NumBeats - 1
           whole == Append(Arriving, data_in)
<1>1. /\ ~prod_handshake => Arriving' = Arriving
      /\ prod_handshake /\ ~prod_done =>
             /\ Arriving' = Append(Arriving, data_in)
             /\ Len(Arriving) + 1 < NumBeats
      /\ prod_done => Arriving' = <<>> /\ Len(Arriving) + 1 = NumBeats
  BY Arrives
<1>2. /\ ~prod_done /\ ~cons_done => Packets' = Packets
      /\ prod_done /\ ~cons_done => Packets' = Append(Packets, whole)
      /\ ~prod_done /\ cons_done => Packets' = Tail(Packets)
      /\ prod_done /\ cons_done => Packets' = Append(Tail(Packets), whole)
      /\ div_active => Packets # <<>>
      /\ ready_out => Len(Packets) < 3
  <2>1. (valid_in /\ ready_out /\ prod_beat_count = NumBeats - 1) <=> prod_done
    OBVIOUS
  <2>2. (div_active /\ ready_in /\ div_beat_count = NumBeats - 1) <=> cons_done
    OBVIOUS
  <2> HIDE DEF prod_done, cons_done
  <2> QED  BY <2>1, <2>2, Queues
<1>3. /\ ~cons_handshake => div_beat_count' = div_beat_count
      /\ cons_handshake /\ ~cons_done =>
             div_beat_count' = div_beat_count + 1 /\ div_beat_count + 1 < NumBeats
      /\ cons_done => div_beat_count' = 0 /\ div_beat_count + 1 = NumBeats
  BY DEF Clock, NextCount, IInv, TypeOK
<1>4. (prod_handshake => ready_out) /\ (cons_handshake => div_active)
  OBVIOUS
<1>5. (prod_done => prod_handshake) /\ (cons_done => cons_handshake)
  OBVIOUS
<1> HIDE DEF prod_handshake, prod_done, cons_handshake, cons_done
<1>6. ~prod_done => Buffer!NoArrival \/ Buffer!Arrival(data_in)
  BY <1>1, <1>2, <1>4 DEF Buffer!NoArrival, Buffer!Arrival, Packets, Arriving
<1>7. prod_done => Buffer!LastArrival(data_in)
  BY <1>1, <1>2, <1>4, <1>5 DEF Buffer!LastArrival, Packets, Arriving
<1>8. ~cons_done => Buffer!NoDeparture \/ Buffer!Departure
  BY <1>2, <1>3, <1>4 DEF Buffer!NoDeparture, Buffer!Departure, Packets
<1>9. cons_done => Buffer!LastDeparture
  BY <1>2, <1>3, <1>4, <1>5 DEF Buffer!LastDeparture, Packets
<1>10. CASE ~prod_done /\ ~cons_done
  BY <1>2, <1>6, <1>8, <1>10 DEF Buffer!Next, Packets
<1>11. CASE prod_done /\ ~cons_done
  BY <1>2, <1>7, <1>8, <1>11 DEF Buffer!Next, Packets, Arriving
<1>12. CASE ~prod_done /\ cons_done
  BY <1>2, <1>6, <1>9, <1>12 DEF Buffer!Next, Packets
<1>13. CASE prod_done /\ cons_done
  BY <1>2, <1>7, <1>9, <1>13 DEF Buffer!Next, Packets, Arriving
<1> QED  BY <1>10, <1>11, <1>12, <1>13

\* The core implements a buffer of three packets, locked up or not: none is lost,
\* doubled, overtaken, cut or let out before it is whole, for any packet length.
THEOREM ImplementsBuffer == Spec => ImplementsPacketBuffer
<1>1. Init => Buffer!Init
  BY DEF Init, Buffer!Init, Arriving
<1>2. IInv /\ [Next]_vars => [Buffer!Next]_<<Packets, Arriving, div_beat_count>>
  <2>1. ASSUME IInv, Next PROVE Buffer!Next
    BY <2>1, ClockBuffer DEF Next
  <2>2. ASSUME UNCHANGED vars PROVE UNCHANGED <<Packets, Arriving, div_beat_count>>
    BY <2>2 DEF vars, pointers, counters, Arriving, Packets, Packet, Held
  <2> QED  BY <2>1, <2>2
<1> QED  BY <1>1, <1>2, AlwaysIInv, PTL
         DEF Spec, ImplementsPacketBuffer, Buffer!Spec, Packets, Arriving

-----------------------------------------------------------------------------
\* A set of naturals that is not empty has a least element.
LEMMA Least ==
    ASSUME NEW S, S \subseteq Nat, S # {}
    PROVE  \E n \in S : \A m \in S : n <= m
<1> DEFINE below == {p \in Nat \X Nat : p[1] < p[2]}
<1>1. IsWellFoundedOn(below, Nat)
  BY NatLessThanWellFounded DEF OpToRel
<1>2. \E n \in S : \A m \in S : ~ (<<m, n>> \in below)
  <2> HIDE DEF below
  <2> QED  BY <1>1, WFMin
<1>3. PICK n \in S : \A m \in S : ~ (<<m, n>> \in below)
  BY <1>2
<1>4. ASSUME NEW m \in S PROVE n <= m
  <2>1. m \in Nat /\ n \in Nat
    OBVIOUS
  <2>2. m < n => <<m, n>> \in below
    BY <2>1
  <2> HIDE DEF below
  <2> QED  BY <1>3, <2>1, <2>2
<1> QED  BY <1>4

\* Induction over the beats: the least number outside of S has a predecessor in it.
LEMMA Induction ==
    ASSUME NEW S, 0 \in S, \A n \in Nat : n \in S => n + 1 \in S
    PROVE  Nat \subseteq S
<1>1. SUFFICES ASSUME Nat \ S # {} PROVE FALSE
  OBVIOUS
<1>2. PICK n \in Nat \ S : \A m \in Nat \ S : n <= m
  BY <1>1, Least
<1>3. n # 0 /\ n - 1 \in Nat /\ n - 1 \in S
  BY <1>2
<1> QED  BY <1>2, <1>3

\* The recursive definition of Sum has a solution: the partial sums of f.
LEMMA SumExists ==
    ASSUME NEW f \in [Beats -> Int]
    PROVE  \E s : s = [i \in 0 .. NumBeats |-> IF i = 0 THEN 0 ELSE s[i - 1] + f[i - 1]]
<1> DEFINE Solutions(n) == {s \in [0 .. n -> Int] :
                           s[0] = 0 /\ \A i \in 1 .. n : s[i] = s[i - 1] + f[i - 1]}
            S == {n \in Nat : n <= NumBeats => Solutions(n) # {}}
<1>1. Solutions(0) # {}
  <2>1. [i \in 0 .. 0 |-> 0] \in Solutions(0)
    OBVIOUS
  <2> QED  BY <2>1
<1>2. ASSUME NEW n \in Nat, n + 1 <= NumBeats, Solutions(n) # {}
      PROVE  Solutions(n + 1) # {}
  <2>1. PICK s \in Solutions(n) : TRUE
    BY <1>2
  <2> DEFINE longer == [i \in 0 .. n + 1 |-> IF i = n + 1 THEN s[n] + f[n] ELSE s[i]]
  <2>2. n \in 0 .. n /\ n \in Beats
    BY <1>2
  <2>3. longer \in [0 .. n + 1 -> Int]
    BY <2>1, <2>2
  <2>4. longer[0] = 0 /\ \A i \in 1 .. n + 1 : longer[i] = longer[i - 1] + f[i - 1]
    BY <2>1, <2>2
  <2> QED  BY <2>3, <2>4
<1>3. Solutions(NumBeats) # {}
  <2> HIDE DEF Solutions
  <2>1. 0 \in S /\ \A n \in Nat : n \in S => n + 1 \in S
    BY <1>1, <1>2
  <2>2. NumBeats \in S
    <3> HIDE DEF S
    <3> QED  BY <2>1, Induction
  <2> QED  BY <2>2
<1>4. PICK s \in Solutions(NumBeats) : TRUE
  <2> HIDE DEF Solutions
  <2> QED  BY <1>3
<1>5. s = [i \in 0 .. NumBeats |-> IF i = 0 THEN 0 ELSE s[i - 1] + f[i - 1]]
  BY <1>4
<1> QED  BY <1>5

\* Hence Sum adds up f, one beat after the other.
LEMMA SumSteps ==
    ASSUME NEW f \in [Beats -> Int]
    PROVE  /\ Sum(f, 0) = 0
           /\ \A n \in Beats : Sum(f, n + 1) = Sum(f, n) + f[n]
           /\ \A n \in 0 .. NumBeats : Sum(f, n) \in Int
<1> DEFINE sum[i \in 0 .. NumBeats] == IF i = 0 THEN 0 ELSE sum[i - 1] + f[i - 1]
            S == {n \in Nat : n <= NumBeats => Sum(f, n) \in Int}
<1>1. sum = [i \in 0 .. NumBeats |-> IF i = 0 THEN 0 ELSE sum[i - 1] + f[i - 1]]
  <2> HIDE DEF Beats
  <2> QED  BY SumExists
<1>2. \A n : Sum(f, n) = sum[n]
  BY DEF Sum
<1> HIDE DEF sum
<1>0. \A i \in 0 .. NumBeats : sum[i] = IF i = 0 THEN 0 ELSE sum[i - 1] + f[i - 1]
  <2> DEFINE I == 0 .. NumBeats
  <2> HIDE DEF I
  <2> QED  BY <1>1
<1>3. Sum(f, 0) = 0
  <2>1. 0 \in 0 .. NumBeats
    OBVIOUS
  <2> QED  BY <1>0, <1>2, <2>1
<1>4. ASSUME NEW n \in Beats PROVE Sum(f, n + 1) = Sum(f, n) + f[n]
  <2>1. n + 1 \in 0 .. NumBeats /\ n + 1 # 0 /\ (n + 1) - 1 = n
    OBVIOUS
  <2>3. sum[n + 1] = sum[n] + f[n]
    BY <2>1, <1>0
  <2> QED  BY <1>2, <2>3
<1>5. 0 \in S
  BY <1>3
<1>6. ASSUME NEW n \in Nat, n \in S PROVE n + 1 \in S
  <2>1. SUFFICES ASSUME n + 1 <= NumBeats PROVE Sum(f, n + 1) \in Int
    OBVIOUS
  <2>2. n \in Beats /\ Sum(f, n) \in Int
    BY <1>6, <2>1
  <2> QED  BY <1>4, <2>2
<1>7. Nat \subseteq S
  <2> HIDE DEF S
  <2> QED  BY <1>5, <1>6, Induction
<1> QED  BY <1>3, <1>4, <1>7

\* Sum only looks at the beats that are there.
LEMMA SumAgrees ==
    ASSUME NEW f \in [Beats -> Int], NEW g \in [Beats -> Int],
           NEW m \in 0 .. NumBeats, \A i \in 0 .. m - 1 : f[i] = g[i]
    PROVE  Sum(f, m) = Sum(g, m)
<1> DEFINE S == {n \in Nat : n <= m => Sum(f, n) = Sum(g, n)}
<1>1. 0 \in S
  BY SumSteps, 0 \in Nat
<1>2. ASSUME NEW n \in Nat, n \in S PROVE n + 1 \in S
  <2>1. SUFFICES ASSUME n + 1 <= m PROVE Sum(f, n + 1) = Sum(g, n + 1)
    OBVIOUS
  <2>2. n \in Beats /\ f[n] = g[n] /\ Sum(f, n) = Sum(g, n)
    BY <1>2, <2>1
  <2>3. Sum(f, n + 1) = Sum(f, n) + f[n] /\ Sum(g, n + 1) = Sum(g, n) + g[n]
    BY <2>2, SumSteps
  <2> QED  BY <2>2, <2>3
<1>3. m \in S
  <2>1. m \in Nat
    OBVIOUS
  <2> HIDE DEF S
  <2> QED  BY <1>1, <1>2, <2>1, Induction
<1> QED  BY <1>3


\* Bytes add up to no more than 255 for each.
LEMMA SumBound ==
    ASSUME NEW f \in [Beats -> 0 .. 255], NEW n \in 0 .. NumBeats
    PROVE  Sum(f, n) \in 0 .. 255 * n
<1> DEFINE S == {m \in Nat : m <= NumBeats => Sum(f, m) \in 0 .. 255 * m}
<1>1. f \in [Beats -> Int]
  <2>1. 0 .. 255 \subseteq Int
    OBVIOUS
  <2> QED  BY <2>1
<1>2. 0 \in S
  BY <1>1, SumSteps
<1>3. ASSUME NEW m \in Nat, m \in S PROVE m + 1 \in S
  <2>1. SUFFICES ASSUME m + 1 <= NumBeats PROVE Sum(f, m + 1) \in 0 .. 255 * (m + 1)
    OBVIOUS
  <2>2. m \in Beats /\ Sum(f, m) \in 0 .. 255 * m /\ f[m] \in 0 .. 255
    BY <1>3, <2>1
  <2>3. Sum(f, m + 1) = Sum(f, m) + f[m]
    BY <1>1, <2>2, SumSteps
  <2>4. \A a \in 0 .. 255 * m, b \in 0 .. 255 : a + b \in 0 .. 255 * (m + 1)
    OBVIOUS
  <2>5. PICK a \in 0 .. 255 * m, b \in 0 .. 255 : a = Sum(f, m) /\ b = f[m]
    BY <2>2
  <2>6. a + b \in 0 .. 255 * (m + 1) /\ Sum(f, m + 1) = a + b
    BY <2>3, <2>4, <2>5
  <2> QED  BY <2>6
<1>4. n \in S
  <2>1. n \in Nat
    OBVIOUS
  <2> HIDE DEF S
  <2> QED  BY <1>2, <1>3, <2>1, Induction
<1> QED  BY <1>4

\* The largest of the first n beats.
Tops(max, bank, n) == /\ \E i \in 0 .. n - 1 : bank[i] = max
                      /\ \A i \in 0 .. n - 1 : bank[i] <= max

\* The largest of all the beats is the maximum.
LEMMA TopsMax ==
    ASSUME NEW bank \in [Beats -> Beat], NEW max \in Beat, Tops(max, bank, NumBeats)
    PROVE  MaxOf(bank) = max
<1> DEFINE S == {bank[i] : i \in Beats}
<1>1. S \subseteq Int /\ max \in S /\ \A y \in S : max >= y
  BY DEF Tops
<1> HIDE DEF S
<1>2. \A x \in S : (\A y \in S : x >= y) => x = max
  BY <1>1
<1>3. Max(S) = max
  BY <1>1, <1>2 DEF Max
<1> QED  BY <1>3 DEF S, MaxOf

\* A beat stored behind n others, all of them or none counted so far.
LEMMA TopsStored ==
    ASSUME NEW bank \in [Beats -> Beat], NEW n \in Beats, NEW x \in Beat, NEW max \in Beat,
           n > 0 => Tops(max, bank, n)
    PROVE  Tops(IF n = 0 THEN x ELSE Larger(x, max), [bank EXCEPT ![n] = x], n + 1)
<1> DEFINE stored == [bank EXCEPT ![n] = x]
           top == IF n = 0 THEN x ELSE Larger(x, max)
<1>1. stored[n] = x /\ \A i \in 0 .. n - 1 : stored[i] = bank[i]
  OBVIOUS
<1>2. x \in Int /\ max \in Int
  OBVIOUS
<1>0. \A i \in 0 .. n - 1 : stored[i] \in Int
  <2>1. Beat \subseteq Int /\ stored \in [Beats -> Beat]
    OBVIOUS
  <2>2. \A i \in 0 .. n - 1 : i \in Beats
    OBVIOUS
  <2> HIDE DEF stored
  <2> QED  BY <2>1, <2>2
<1> HIDE DEF stored
<1>3. n = 0 => Tops(top, stored, n + 1)
  BY <1>1, <1>2 DEF Tops
<1>4. ASSUME n > 0 PROVE Tops(top, stored, n + 1)
  <2>1. top \in {x, max} /\ top >= x /\ top >= max /\ top \in Int
    BY <1>2, <1>4 DEF Larger
  <2>2. Tops(max, stored, n)
    BY <1>1, <1>4 DEF Tops
  <2>3. \A i \in 0 .. n : stored[i] <= top
    <3>1. \A i \in 0 .. n : i \in 0 .. n - 1 \/ i = n
      OBVIOUS
    <3>2. \A i \in 0 .. n - 1 : stored[i] <= max
      BY <2>2 DEF Tops
    <3> HIDE DEF top
    <3> QED  BY <1>0, <1>1, <1>2, <2>1, <3>1, <3>2
  <2>4. \E i \in 0 .. n : stored[i] = top
    <3>1. PICK i \in 0 .. n - 1 : stored[i] = max
      BY <2>2 DEF Tops
    <3>2. i \in 0 .. n /\ n \in 0 .. n
      OBVIOUS
    <3> QED  BY <1>1, <2>1, <3>1, <3>2
  <2>5. (n + 1) - 1 = n
    OBVIOUS
  <2> HIDE DEF top
  <2> QED  BY <2>3, <2>4, <2>5 DEF Tops
<1> QED  BY <1>3, <1>4 DEF stored, top

\* The ROM gives a byte for whatever beats a bank holds.
LEMMA ExponentialsType ==
    ASSUME NEW bank \in [Beats -> Beat], MaxOf(bank) \in Beat
    PROVE  Exponentials(bank) \in [Beats -> 0 .. 255]
<1>1. ASSUME NEW x \in Beat, NEW max \in Beat PROVE Exp(Difference(x, max)) \in 0 .. 255
  <2>1. x \in -128 .. 127 /\ max \in -128 .. 127
    BY SoftmaxAssumption
  <2>2. Difference(x, max) \in -128 .. 127
    BY <2>1 DEF Difference
  <2>3. \A d \in -128 .. 127 : Exp(d) \in 0 .. 255
    BY SoftmaxAssumption
  <2> QED  BY <2>2, <2>3
<1> QED  BY <1>1 DEF Exponentials

\* The banks between the divide stage and the sum stage are summed and not given.
Summed(b) == \/ b = div_ptr /\ div_active
             \/ b = After(div_ptr) /\ sum_ptr = After(After(div_ptr))
Summing(b) == sum_active /\ b = sum_ptr

\* The running values are those of the beats seen so far, the latched ones those
\* of the whole packet.
StatInv ==
    /\ SumRests
    /\ prod_beat_count > 0 => Tops(prod_max, buf_data[write_ptr], prod_beat_count)
    /\ \A b \in Banks : Summed(b) \/ Summing(b) => Tops(buf_max[b], buf_data[b], NumBeats)
    /\ sum_active /\ sum_beat_count > 0 =>
           sum_exp_acc = Sum(Exponentials(buf_data[sum_ptr]), sum_beat_count)
    /\ \A b \in Banks : Summed(b) =>
           buf_sum_exp[b] = Sum(Exponentials(buf_data[b]), NumBeats)

\* What the code's constants give: packets of more than one beat, and a sum wide
\* enough for all of them.
WideEnough == NumBeats > 1 /\ 255 * NumBeats < 2^SumWidth

\* Which banks are in use after a cycle, and that none of them is written in it.
LEMMA BanksMove ==
    ASSUME IInv, IInv', SumRests,
           NEW prod_handshake \in BOOLEAN, NEW div_handshake \in BOOLEAN,
           prod_handshake => ready_out,
           div_handshake => div_active,
           Control(prod_handshake, div_handshake)
    PROVE  LET prod_done == prod_handshake /\ prod_beat_count = NumBeats - 1
               sum_done == sum_active /\ sum_beat_count = NumBeats - 1
           IN /\ \A b \in Banks : Summed(b)' => Summed(b) \/ (sum_done /\ b = sum_ptr)
              /\ \A b \in Banks : Summing(b)' =>
                     \/ Summing(b) /\ ~sum_done
                     \/ prod_done /\ b = write_ptr
              /\ \A b \in Banks : prod_handshake => ~(Summed(b) /\ b = write_ptr)
              /\ sum_active => sum_ptr # write_ptr
              /\ ~sum_done => sum_ptr' = sum_ptr
<1> DEFINE prod_done == prod_handshake /\ prod_beat_count = NumBeats - 1
           sum_done == sum_active /\ sum_beat_count = NumBeats - 1
           div_done == div_handshake /\ div_beat_count = NumBeats - 1
<1>1. /\ write_ptr' = IF prod_done THEN After(write_ptr) ELSE write_ptr
      /\ sum_ptr' = IF sum_done THEN After(sum_ptr) ELSE sum_ptr
      /\ div_ptr' = IF div_done THEN After(div_ptr) ELSE div_ptr
  BY DEF Control
<1>2. /\ write_ptr \in {0, 1, 2} /\ sum_ptr \in {0, 1, 2} /\ div_ptr \in {0, 1, 2}
      /\ tokens_in_flight \in {0, 1, 2, 3}
  BY DEF IInv, TypeOK
<1>3. /\ sum_active <=> sum_ptr # write_ptr
      /\ div_active <=> div_ptr # sum_ptr
      /\ sum_active => write_ptr = After(sum_ptr)
      /\ sum_active' <=> sum_ptr' # write_ptr'
      /\ div_active' <=> div_ptr' # sum_ptr'
      /\ sum_active' => write_ptr' = After(sum_ptr')
  BY DEF IInv, SumKeepsUp, sum_active, div_active
<1>4. prod_handshake => /\ tokens_in_flight # 3
                        /\ tokens_in_flight = 0 => ~div_active /\ ~sum_active
                        /\ tokens_in_flight = (write_ptr - div_ptr) % 3
  <2>1. SUFFICES ASSUME tokens_in_flight # 3
                 PROVE  /\ tokens_in_flight = 0 => ~div_active /\ ~sum_active
                        /\ tokens_in_flight = (write_ptr - div_ptr) % 3
    BY <1>2 DEF ready_out
  <2>2. tokens_in_flight % 3 = tokens_in_flight
    BY <1>2, <2>1
  <2> QED  BY <2>2 DEF IInv, TokensAgree
<1>5. div_done => div_active
  OBVIOUS
<1> HIDE DEF prod_done, sum_done, div_done
<1>6. sum_done => sum_active
  BY DEF sum_done
<1>7. prod_done => prod_handshake
  BY DEF prod_done
<1>8. ASSUME NEW b \in Banks, Summed(b)' PROVE Summed(b) \/ (sum_done /\ b = sum_ptr)
  BY <1>1, <1>2, <1>3, <1>5, <1>6, <1>8 DEF Summed, After
<1>9. ASSUME NEW b \in Banks, Summing(b)'
      PROVE  (Summing(b) /\ ~sum_done) \/ (prod_done /\ b = write_ptr)
  BY <1>1, <1>2, <1>3, <1>6, <1>9 DEF Summing, After
<1>10. ASSUME NEW b \in Banks, prod_handshake, Summed(b), b = write_ptr PROVE FALSE
  <2>1. (write_ptr - div_ptr) % 3 = 0 => write_ptr = div_ptr
    BY <1>2
  <2>2. CASE tokens_in_flight = 0
    BY <1>2, <1>3, <1>4, <1>10, <2>1, <2>2 DEF Summed, After
  <2>3. CASE tokens_in_flight # 0
    <3>1. write_ptr # div_ptr
      BY <1>2, <1>4, <1>10, <2>3
    <3> QED  BY <1>2, <1>3, <1>10, <3>1 DEF Summed, After
  <2> QED  BY <2>2, <2>3
<1> QED  BY <1>1, <1>3, <1>8, <1>9, <1>10 DEF sum_done, prod_done

\* A cycle keeps running and latched values in step with the banks.
LEMMA ClockStatInv ==
    ASSUME WideEnough, IInv, StatInv, NEW valid_in \in BOOLEAN, NEW ready_in \in BOOLEAN,
           NEW data_in \in Beat, Clock(valid_in, data_in, ready_in)
    PROVE  StatInv'
<1> DEFINE prod_handshake == valid_in /\ ready_out
           prod_done == prod_handshake /\ prod_beat_count = NumBeats - 1
           sum_done == sum_active /\ sum_beat_count = NumBeats - 1
           next_prod_max == Larger(data_in, prod_max)
           n == prod_beat_count
           old == buf_data[write_ptr]
           stored == [old EXCEPT ![n] = data_in]
           s == sum_beat_count
           exps == Exponentials(buf_data[sum_ptr])
           sum_beat_sum == Exp(Difference(buf_data[sum_ptr][s], buf_max[sum_ptr]))
           next_sum_exp == (sum_exp_acc + sum_beat_sum) % 2^SumWidth
<1>1. /\ IInv'
      /\ n \in Beats /\ s \in Beats /\ old \in [Beats -> Beat] /\ prod_max \in Beat
      /\ write_ptr \in Banks /\ sum_ptr \in Banks
      /\ buf_max \in [Banks -> Beat] /\ buf_data \in [Banks -> [Beats -> Beat]]
      /\ NumBeats > 1
  BY NextIInv DEF Next, IInv, TypeOK, WideEnough
<1>2. /\ prod_max' = Restarted(prod_max, data_in, next_prod_max, prod_handshake, n)
      /\ sum_exp_acc' = Restarted(sum_exp_acc, sum_beat_sum, next_sum_exp, sum_active, s)
      /\ buf_max' = Latch(buf_max, write_ptr, next_prod_max, prod_done)
      /\ buf_sum_exp' = Latch(buf_sum_exp, sum_ptr, next_sum_exp, sum_done)
      /\ prod_beat_count' = NextCount(n, prod_handshake)
      /\ sum_beat_count' = NextCount(s, sum_active)
      /\ write_ptr' = IF prod_done THEN After(write_ptr) ELSE write_ptr
  BY DEF Clock
<1>3. \A b \in Banks : buf_data'[b] = IF prod_handshake /\ b = write_ptr
                                      THEN stored ELSE buf_data[b]
  BY DEF Clock, IInv, TypeOK
<1>4. Control(prod_handshake, div_active /\ ready_in)
  BY ClockControl
<1>5. /\ \A b \in Banks : Summed(b)' => Summed(b) \/ (sum_done /\ b = sum_ptr)
      /\ \A b \in Banks : Summing(b)' => \/ Summing(b) /\ ~sum_done
                                         \/ prod_done /\ b = write_ptr
      /\ \A b \in Banks : prod_handshake => ~(Summed(b) /\ b = write_ptr)
      /\ sum_active => sum_ptr # write_ptr
      /\ ~sum_done => sum_ptr' = sum_ptr
  <2>1. prod_handshake \in BOOLEAN /\ (div_active /\ ready_in) \in BOOLEAN
        /\ (prod_handshake => ready_out)
    BY DEF ready_out, div_active
  <2> QED  BY <1>1, <1>4, BanksMove DEF StatInv, ready_out, div_active
<1>6. Tops(IF n = 0 THEN data_in ELSE next_prod_max, stored, n + 1)
  <2>1. n > 0 => Tops(prod_max, old, n)
    BY DEF StatInv
  <2> QED  BY <1>1, <2>1, TopsStored
<1>7. sum_active =>
          /\ exps \in [Beats -> 0 .. 255]
          /\ (IF s = 0 THEN sum_beat_sum ELSE next_sum_exp) = Sum(exps, s + 1)
  <2>1. SUFFICES ASSUME sum_active
                 PROVE  /\ exps \in [Beats -> 0 .. 255]
                        /\ (IF s = 0 THEN sum_beat_sum ELSE next_sum_exp)
                               = Sum(exps, s + 1)
    OBVIOUS
  <2>2. Tops(buf_max[sum_ptr], buf_data[sum_ptr], NumBeats)
    BY <1>1, <2>1 DEF StatInv, Summing
  <2>3. MaxOf(buf_data[sum_ptr]) = buf_max[sum_ptr]
    BY <1>1, <2>2, TopsMax
  <2>4. exps \in [Beats -> 0 .. 255]
    <3>1. PICK bank \in [Beats -> Beat] : bank = buf_data[sum_ptr]
      BY <1>1
    <3>2. MaxOf(bank) \in Beat
      BY <1>1, <2>3, <3>1
    <3> QED  BY <3>1, <3>2, ExponentialsType
  <2>5. exps[s] = sum_beat_sum
    BY <1>1, <2>3 DEF Exponentials
  <2>6. s > 0 => sum_exp_acc = Sum(exps, s)
    BY <2>1 DEF StatInv
  <2> HIDE DEF exps, sum_beat_sum
  <2>7. PICK e \in 0 .. 255 : e = exps[s]
    BY <1>1, <2>4
  <2>8. /\ exps \in [Beats -> Int]
        /\ Sum(exps, s + 1) = Sum(exps, s) + e
        /\ Sum(exps, 0) = 0
    <3>1. exps \in [Beats -> Int]
      <4>1. 0 .. 255 \subseteq Int
        OBVIOUS
      <4> QED  BY <2>4, <4>1
    <3> QED  BY <1>1, <2>7, <3>1, SumSteps
  <2>9. CASE s = 0
    BY <2>4, <2>5, <2>7, <2>8, <2>9
  <2>10. CASE s # 0
    <3>1. s + 1 \in 0 .. NumBeats /\ s > 0
      BY <1>1, <2>10
    <3>2. PICK total : total = Sum(exps, s + 1)
      OBVIOUS
    <3>3. total \in 0 .. 255 * (s + 1)
      BY <2>4, <3>1, <3>2, SumBound
    <3>4. sum_exp_acc + sum_beat_sum = total
      BY <2>5, <2>6, <2>7, <2>8, <3>1, <3>2
    <3>5. PICK w \in Nat : w = 2^SumWidth
      BY SoftmaxAssumption
    <3>6. 255 * (s + 1) < w
      BY <1>1, <3>1, <3>5 DEF WideEnough
    <3>7. total \in Nat /\ total < w
      BY <1>1, <3>3, <3>6
    <3>8. total % w = total
      BY <3>5, <3>7
    <3> QED  BY <2>4, <2>10, <3>2, <3>4, <3>5, <3>8
  <2> QED  BY <2>9, <2>10
<1> HIDE DEF next_prod_max, stored, exps, sum_beat_sum, next_sum_exp
<1>8. (prod_beat_count > 0 => Tops(prod_max, buf_data[write_ptr], prod_beat_count))'
  <2>1. CASE prod_done
    BY <1>2, <2>1 DEF NextCount
  <2>2. CASE prod_handshake /\ ~prod_done
    <3>1. prod_beat_count' = n + 1 /\ write_ptr' = write_ptr
      BY <1>2, <2>2 DEF NextCount
    <3>2. prod_max' = IF n = 0 THEN data_in ELSE next_prod_max
      BY <1>2, <2>2 DEF Restarted
    <3>3. buf_data'[write_ptr] = stored
      BY <1>1, <1>3, <2>2
    <3> QED  BY <1>6, <3>1, <3>2, <3>3
  <2>3. CASE ~prod_handshake
    <3>1. prod_beat_count' = n /\ write_ptr' = write_ptr /\ prod_max' = prod_max
      BY <1>2, <2>3 DEF NextCount, Restarted
    <3>2. buf_data'[write_ptr] = old
      BY <1>1, <1>3, <2>3
    <3> QED  BY <3>1, <3>2 DEF StatInv
  <2> QED  BY <2>1, <2>2, <2>3
<1>9. ASSUME NEW b \in Banks, (Summed(b) \/ Summing(b))'
      PROVE  Tops(buf_max[b], buf_data[b], NumBeats)'
  <2>1. CASE prod_done /\ b = write_ptr
    <3>1. buf_max'[b] = next_prod_max /\ n # 0 /\ n + 1 = NumBeats
      BY <1>1, <1>2, <2>1 DEF Latch
    <3>2. buf_data'[b] = stored
      BY <1>3, <2>1
    <3> QED  BY <1>6, <3>1, <3>2
  <2>2. CASE ~(prod_done /\ b = write_ptr)
    <3>1. /\ Summed(b) \/ Summing(b)
          /\ ~(prod_handshake /\ b = write_ptr)
      BY <1>5, <1>9, <2>2 DEF Summing
    <3>2. buf_data'[b] = buf_data[b] /\ buf_max'[b] = buf_max[b]
      BY <1>1, <1>2, <1>3, <2>2, <3>1 DEF Latch
    <3> QED  BY <3>1, <3>2 DEF StatInv
  <2> QED  BY <2>1, <2>2
<1>10. sum_active => buf_data'[sum_ptr] = buf_data[sum_ptr]
  BY <1>1, <1>3, <1>5
<1>11. (sum_active /\ sum_beat_count > 0 =>
           sum_exp_acc = Sum(Exponentials(buf_data[sum_ptr]), sum_beat_count))'
  <2>1. SUFFICES ASSUME sum_beat_count' > 0
                 PROVE  sum_exp_acc' = Sum(Exponentials(buf_data'[sum_ptr']), sum_beat_count')
    OBVIOUS
  <2>2. sum_active /\ ~sum_done /\ sum_beat_count' = s + 1
    BY <1>1, <1>2, <2>1 DEF NextCount, StatInv, SumRests
  <2>3. sum_exp_acc' = IF s = 0 THEN sum_beat_sum ELSE next_sum_exp
    BY <1>2, <2>2 DEF Restarted
  <2>4. buf_data'[sum_ptr'] = buf_data[sum_ptr]
    BY <1>5, <1>10, <2>2
  <2> QED  BY <1>7, <2>2, <2>3, <2>4 DEF exps
<1>12. ASSUME NEW b \in Banks, Summed(b)'
       PROVE  (buf_sum_exp[b] = Sum(Exponentials(buf_data[b]), NumBeats))'
  <2>1. CASE sum_done /\ b = sum_ptr
    <3>1. buf_sum_exp'[b] = next_sum_exp /\ s # 0 /\ s + 1 = NumBeats
      BY <1>1, <1>2, <2>1 DEF Latch, IInv, TypeOK
    <3>2. buf_data'[b] = buf_data[sum_ptr]
      BY <1>10, <2>1
    <3> QED  BY <1>7, <2>1, <3>1, <3>2 DEF exps
  <2>2. CASE ~(sum_done /\ b = sum_ptr)
    <3>1. Summed(b) /\ ~(prod_handshake /\ b = write_ptr)
      BY <1>5, <1>12, <2>2
    <3>2. buf_data'[b] = buf_data[b] /\ buf_sum_exp'[b] = buf_sum_exp[b]
      BY <1>1, <1>2, <1>3, <2>2, <3>1 DEF Latch, IInv, TypeOK
    <3> QED  BY <3>1, <3>2 DEF StatInv
  <2> QED  BY <2>1, <2>2
<1>13. SumRests'
  BY <1>4, LeadStep, TypeControl DEF IInv, StatInv, ready_out, div_active
<1> QED  BY <1>8, <1>9, <1>11, <1>12, <1>13 DEF StatInv

\* The bank on offer is one of those summed.
LEMMA StatInvImplies == IInv /\ StatInv => StatisticsOfOwnPacket
<1> SUFFICES ASSUME IInv, StatInv, div_active
             PROVE  /\ buf_max[div_ptr] = MaxOf(buf_data[div_ptr])
                    /\ buf_sum_exp[div_ptr]
                           = Sum(Exponentials(buf_data[div_ptr]), NumBeats)
  BY DEF StatisticsOfOwnPacket
<1>1. div_ptr \in Banks /\ buf_data[div_ptr] \in [Beats -> Beat] /\ buf_max[div_ptr] \in Beat
  BY DEF IInv, TypeOK
<1>2. Summed(div_ptr)
  BY DEF Summed
<1>3. Tops(buf_max[div_ptr], buf_data[div_ptr], NumBeats)
  BY <1>1, <1>2 DEF StatInv
<1>4. MaxOf(buf_data[div_ptr]) = buf_max[div_ptr]
  BY <1>1, <1>3, TopsMax
<1> QED  BY <1>1, <1>2, <1>4 DEF StatInv

\* Every beat on offer is divided by the maximum and the sum of all of its own
\* packet, for every packet of more than one beat and every sum register wide
\* enough for 255 in each beat, and the sum never wraps.
THEOREM StatisticsCorrect ==
    ASSUME NumBeats > 1, 255 * NumBeats < 2^SumWidth
    PROVE  Spec => []StatisticsOfOwnPacket
<1>1. Init => StatInv
  BY DEF Init, StatInv, SumRests, Summed, Summing, After, sum_active, div_active
<1>2. IInv /\ StatInv /\ [Next]_vars => StatInv'
  <2>1. ASSUME IInv, StatInv, Next PROVE StatInv'
    BY <2>1, ClockStatInv DEF Next, WideEnough
  <2>2. ASSUME StatInv, UNCHANGED vars PROVE StatInv'
    BY <2>2 DEF StatInv, SumRests, Summed, Summing, sum_active, div_active,
                vars, pointers, counters, stats
  <2> QED  BY <2>1, <2>2
<1> QED  BY <1>1, <1>2, AlwaysIInv, StatInvImplies, PTL DEF Spec

-----------------------------------------------------------------------------
(* The core in a stitched network, where its state is three counts.        *)

VARIABLES taken,   \* beats accepted, counted beside the core
          given,   \* beats passed on
          summed   \* beats the sum stage has read back
counted == <<vars, taken, given, summed>>

CountedInit == Init /\ taken = 0 /\ given = 0 /\ summed = 0
CountedClock(valid_in, data_in, ready_in) ==
    /\ Clock(valid_in, data_in, ready_in)
    /\ taken' = IF valid_in /\ ready_out THEN taken + 1 ELSE taken
    /\ given' = IF valid_out /\ ready_in THEN given + 1 ELSE given
    /\ summed' = IF sum_active THEN summed + 1 ELSE summed
CountedNext == \E valid_in, ready_in \in BOOLEAN, data_in \in Beat :
                   CountedClock(valid_in, data_in, ready_in)
CountedSpec == CountedInit /\ [][CountedNext]_counted

\* The network of this core and no other.
Node == INSTANCE StitchedNetwork WITH
            IPs <- {"softmax"}, Edges <- {}, Kind <- [s \in {"softmax"} |-> "softmax"],
            Depth <- <<>>, MaxBeats <- 0,
            taken <- [s \in {"softmax"} |-> taken],
            given <- [s \in {"softmax"} |-> given],
            summed <- [s \in {"softmax"} |-> summed]

\* What the network reads off the counts is what the registers drive.
DrivesNodeSignals == /\ valid_out = Node!Offers("softmax")
                     /\ ready_out = Node!Accepts("softmax")
                     /\ sum_active = Node!SumActive("softmax")

\* A count of beats is p packets and b beats of the next, kept in a beat counter
\* and in the bank pointer of a stage, which counts packets modulo three.
Counts(n, p, b, ptr) == n = NumBeats * p + b /\ ptr = p % 3

CountsAgree ==
    \E p, m, c \in Nat : /\ Counts(taken, p, prod_beat_count, write_ptr)
                         /\ Counts(summed, m, sum_beat_count, sum_ptr)
                         /\ Counts(given, c, div_beat_count, div_ptr)
                         /\ tokens_in_flight = p - c

\* The one way to read a count.
LEMMA Quotient ==
    ASSUME NEW n \in Nat, NEW p \in Nat, NEW b \in Beats, NEW ptr, Counts(n, p, b, ptr)
    PROVE  n \div NumBeats = p
<1>1. PICK q \in Nat, r \in Beats :
          q = n \div NumBeats /\ r = n % NumBeats /\ n = NumBeats * q + r
  <2>1. /\ n \div NumBeats \in Nat /\ n % NumBeats \in Beats
        /\ n = NumBeats * (n \div NumBeats) + (n % NumBeats)
    OBVIOUS
  <2>.  QED  BY <2>1
<1>2. PICK e \in Int : e = q - p
  OBVIOUS
<1>3. NumBeats * e = b - r
  BY <1>1, <1>2 DEF Counts
<1>4. /\ e >= 1 => NumBeats * e >= NumBeats
      /\ e <= -1 => NumBeats * e <= -NumBeats
  OBVIOUS
<1>5. e = 0
  BY <1>2, <1>3, <1>4
<1>.  QED  BY <1>1, <1>2, <1>5

LEMMA CountsSignals ==
    ASSUME ControlOK, CountsAgree, taken \in Nat, given \in Nat, summed \in Nat
    PROVE  DrivesNodeSignals
<1>1. PICK p, m, c \in Nat : /\ Counts(taken, p, prod_beat_count, write_ptr)
                             /\ Counts(summed, m, sum_beat_count, sum_ptr)
                             /\ Counts(given, c, div_beat_count, div_ptr)
                             /\ tokens_in_flight = p - c
  BY DEF CountsAgree
<1>2. /\ taken \div NumBeats = p /\ summed \div NumBeats = m
      /\ given \div NumBeats = c
  BY <1>1, Quotient DEF ControlOK
<1>3. Node!TokensInFlight("softmax") = tokens_in_flight
  BY <1>1, <1>2 DEF Node!TokensInFlight, Node!Packets
<1>4. /\ Node!SumActive("softmax") = sum_active
      /\ Node!DivActive("softmax") = div_active
  <2>1. write_ptr = p % 3 /\ sum_ptr = m % 3 /\ div_ptr = c % 3
    BY <1>1 DEF Counts
  <2>.  QED  BY <1>2, <2>1 DEF Node!SumActive, Node!DivActive, Node!Packets,
                               sum_active, div_active
<1>5. ready_out = (Node!TokensInFlight("softmax") < 3)
  BY <1>3 DEF ready_out
<1>.  QED  BY <1>4, <1>5 DEF DrivesNodeSignals, Node!Offers, Node!Accepts,
                             valid_out

\* One stage in one cycle: its count, and its counter and pointer with it.
StageMoves(n, p, b, ptr, handshake, m, q, c, nxt) ==
    LET done == handshake /\ b = NumBeats - 1
    IN /\ n \in Nat /\ p \in Nat /\ b \in Beats /\ ptr \in Banks
       /\ handshake \in BOOLEAN
       /\ m = IF handshake THEN n + 1 ELSE n
       /\ q = IF done THEN p + 1 ELSE p
       /\ c = NextCount(b, handshake)
       /\ nxt = IF done THEN After(ptr) ELSE ptr

LEMMA CountStep ==
    ASSUME NEW n, NEW p, NEW b, NEW ptr, NEW handshake, NEW m, NEW q, NEW c,
           NEW nxt, Counts(n, p, b, ptr),
           StageMoves(n, p, b, ptr, handshake, m, q, c, nxt)
    PROVE  Counts(m, q, c, nxt) /\ q \in Nat
<1>.  USE DEF StageMoves
<1>1. CASE handshake /\ b = NumBeats - 1
  <2>1. m = NumBeats * q + c
    BY <1>1 DEF Counts, NextCount
  <2>2. nxt = q % 3
    BY <1>1 DEF Counts, After
  <2>3. q \in Nat
    BY <1>1
  <2>.  QED  BY <2>1, <2>2, <2>3 DEF Counts
<1>2. CASE handshake /\ b # NumBeats - 1
  BY <1>2 DEF Counts, NextCount
<1>3. CASE ~handshake
  BY <1>3 DEF Counts, NextCount
<1>.  QED  BY <1>1, <1>2, <1>3 DEF StageMoves

LEMMA CountedStep ==
    ASSUME ControlOK, CountsAgree, taken \in Nat, given \in Nat, summed \in Nat,
           NEW valid_in \in BOOLEAN, NEW ready_in \in BOOLEAN,
           NEW data_in \in Beat, CountedClock(valid_in, data_in, ready_in)
    PROVE  CountsAgree' /\ taken' \in Nat /\ given' \in Nat /\ summed' \in Nat
<1>1. PICK p, m, c \in Nat : /\ Counts(taken, p, prod_beat_count, write_ptr)
                             /\ Counts(summed, m, sum_beat_count, sum_ptr)
                             /\ Counts(given, c, div_beat_count, div_ptr)
                             /\ tokens_in_flight = p - c
  BY DEF CountsAgree
<1>2. PICK prod_handshake, sum_handshake, div_handshake \in BOOLEAN :
          /\ prod_handshake = (valid_in /\ ready_out)
          /\ sum_handshake = sum_active
          /\ div_handshake = (div_active /\ ready_in)
  BY DEF ready_out, sum_active, div_active
<1>3. PICK prod_done, sum_done, div_done \in BOOLEAN :
          /\ prod_done = (prod_handshake /\ prod_beat_count = NumBeats - 1)
          /\ sum_done = (sum_handshake /\ sum_beat_count = NumBeats - 1)
          /\ div_done = (div_handshake /\ div_beat_count = NumBeats - 1)
  OBVIOUS
<1>4. PICK p2, m2, c2 : /\ p2 = IF prod_done THEN p + 1 ELSE p
                        /\ m2 = IF sum_done THEN m + 1 ELSE m
                        /\ c2 = IF div_done THEN c + 1 ELSE c
  OBVIOUS
<1>5. /\ prod_beat_count \in Beats /\ write_ptr \in Banks
      /\ sum_beat_count \in Beats /\ sum_ptr \in Banks
      /\ div_beat_count \in Beats /\ div_ptr \in Banks
  BY DEF ControlOK
<1>6. /\ taken' = IF prod_handshake THEN taken + 1 ELSE taken
      /\ summed' = IF sum_handshake THEN summed + 1 ELSE summed
      /\ given' = IF div_handshake THEN given + 1 ELSE given
  BY <1>2 DEF CountedClock, valid_out
<1>7. Control(valid_in /\ ready_out, div_active /\ ready_in)
  BY ClockControl DEF CountedClock
<1>8. /\ prod_beat_count' = NextCount(prod_beat_count, prod_handshake)
      /\ sum_beat_count' = NextCount(sum_beat_count, sum_handshake)
      /\ div_beat_count' = NextCount(div_beat_count, div_handshake)
      /\ write_ptr' = IF prod_done THEN After(write_ptr) ELSE write_ptr
      /\ sum_ptr' = IF sum_done THEN After(sum_ptr) ELSE sum_ptr
      /\ div_ptr' = IF div_done THEN After(div_ptr) ELSE div_ptr
      /\ tokens_in_flight' = NextTokens(prod_done, div_done)
  BY <1>2, <1>3, <1>7 DEF Control
<1>9. Counts(taken', p2, prod_beat_count', write_ptr') /\ p2 \in Nat
  <2>1. StageMoves(taken, p, prod_beat_count, write_ptr, prod_handshake,
                   taken', p2, prod_beat_count', write_ptr')
    BY <1>3, <1>4, <1>5, <1>6, <1>8 DEF StageMoves
  <2>.  QED  BY <1>1, <2>1, CountStep
<1>10. Counts(summed', m2, sum_beat_count', sum_ptr') /\ m2 \in Nat
  <2>1. StageMoves(summed, m, sum_beat_count, sum_ptr, sum_handshake,
                   summed', m2, sum_beat_count', sum_ptr')
    BY <1>3, <1>4, <1>5, <1>6, <1>8 DEF StageMoves
  <2>.  QED  BY <1>1, <2>1, CountStep
<1>11. Counts(given', c2, div_beat_count', div_ptr') /\ c2 \in Nat
  <2>1. StageMoves(given, c, div_beat_count, div_ptr, div_handshake,
                   given', c2, div_beat_count', div_ptr')
    BY <1>3, <1>4, <1>5, <1>6, <1>8 DEF StageMoves
  <2>.  QED  BY <1>1, <2>1, CountStep
<1>12. tokens_in_flight' = p2 - c2
  BY <1>1, <1>4, <1>8 DEF NextTokens
<1>.  QED  BY <1>6, <1>9, <1>10, <1>11, <1>12 DEF CountsAgree

CountedInv == /\ IInv /\ CountsAgree
              /\ taken \in Nat /\ given \in Nat /\ summed \in Nat

LEMMA AlwaysCounted == CountedSpec => []CountedInv
<1>1. CountedInit => CountedInv
  <2>.  SUFFICES ASSUME CountedInit PROVE CountedInv
    OBVIOUS
  <2>1. IInv /\ taken = 0 /\ given = 0 /\ summed = 0
    BY InitIInv DEF CountedInit
  <2>2. /\ Counts(taken, 0, prod_beat_count, write_ptr)
        /\ Counts(summed, 0, sum_beat_count, sum_ptr)
        /\ Counts(given, 0, div_beat_count, div_ptr)
        /\ tokens_in_flight = 0 - 0
    BY DEF CountedInit, Init, Counts
  <2>.  QED  BY <2>1, <2>2 DEF CountedInv, CountsAgree
<1>2. ASSUME CountedInv, CountedNext PROVE CountedInv'
  <2>1. PICK valid_in, ready_in \in BOOLEAN, data_in \in Beat :
            CountedClock(valid_in, data_in, ready_in)
    BY <1>2 DEF CountedNext
  <2>2. Next
    BY <2>1 DEF CountedClock, Next
  <2>3. IInv' /\ ControlOK
    BY <1>2, <2>2, NextIInv, TypeControl DEF CountedInv, IInv
  <2>.  QED  BY <1>2, <2>1, <2>3, CountedStep DEF CountedInv
<1>3. ASSUME CountedInv, UNCHANGED counted PROVE CountedInv'
  <2>1. UNCHANGED vars
    BY <1>3 DEF counted
  <2>2. CountsAgree' /\ taken' \in Nat /\ given' \in Nat /\ summed' \in Nat
    BY <1>3 DEF counted, vars, pointers, counters, CountedInv, CountsAgree, Counts
  <2>.  QED  BY <1>3, <2>1, <2>2, NextIInv DEF CountedInv
<1>.  QED  BY <1>1, <1>2, <1>3, PTL DEF CountedSpec

\* The network sees each stage of a softmax as the two pointers it compares, read
\* off the counts of whole packets: that is what the registers hold, the lock-up
\* included.
THEOREM NodeSignalsCorrect == CountedSpec => []DrivesNodeSignals
<1>1. CountedInv => DrivesNodeSignals
  BY CountsSignals, TypeControl DEF CountedInv, IInv
<1>.  QED  BY <1>1, AlwaysCounted, PTL

\* The node with any source and any sink.
NodeClock == \E offering, accepting \in SUBSET {"softmax"} :
                 Node!Clock(offering, accepting)
ImplementsNode == Node!Init /\ [][NodeClock]_Node!vars

\* What the network's wires carry when the core is the whole network.
LEMMA NodeWires ==
    ASSUME NEW offering \in SUBSET {"softmax"}, NEW accepting \in SUBSET {"softmax"}
    PROVE  LET valid == Node!ValidOut(offering)
               ready == Node!ReadyOut(valid, accepting)
           IN /\ valid["softmax"] = Node!Offers("softmax")
              /\ ready["softmax"] = Node!Accepts("softmax")
              /\ Node!ValidIn("softmax", valid, offering) <=> "softmax" \in offering
              /\ Node!ReadyIn("softmax", valid, ready, accepting)
                     <=> "softmax" \in accepting
<1>.  DEFINE valid == Node!ValidOut(offering)
             ready == Node!ReadyOut(valid, accepting)
<1>1. valid = [s \in {"softmax"} |-> Node!Offers(s)]
  BY DEF Node!ValidOut
<1>2. ready = [s \in {"softmax"} |-> Node!Accepts(s)]
  BY DEF Node!ReadyOut
<1>3. Node!Up("softmax") = {} /\ Node!Down("softmax") = {}
  BY DEF Node!Up, Node!Down
<1>.  HIDE DEF valid, ready
<1>4. /\ Node!ValidIn("softmax", valid, offering) <=> "softmax" \in offering
      /\ Node!ReadyIn("softmax", valid, ready, accepting) <=> "softmax" \in accepting
  BY <1>3 DEF Node!ValidIn, Node!ReadyIn
<1>.  QED  BY <1>1, <1>2, <1>4 DEF valid, ready

LEMMA NodeStep ==
    ASSUME DrivesNodeSignals, NEW valid_in \in BOOLEAN, NEW ready_in \in BOOLEAN,
           NEW data_in \in Beat, CountedClock(valid_in, data_in, ready_in)
    PROVE  NodeClock
<1>.  DEFINE offering == IF valid_in THEN {"softmax"} ELSE {}
             accepting == IF ready_in THEN {"softmax"} ELSE {}
             valid == Node!ValidOut(offering)
             ready == Node!ReadyOut(valid, accepting)
<1>1. offering \in SUBSET {"softmax"} /\ accepting \in SUBSET {"softmax"}
  OBVIOUS
<1>2. ("softmax" \in offering <=> valid_in) /\ ("softmax" \in accepting <=> ready_in)
  OBVIOUS
<1>.  HIDE DEF offering, accepting
<1>3. /\ valid["softmax"] = Node!Offers("softmax")
      /\ ready["softmax"] = Node!Accepts("softmax")
      /\ Node!ValidIn("softmax", valid, offering) <=> "softmax" \in offering
      /\ Node!ReadyIn("softmax", valid, ready, accepting) <=> "softmax" \in accepting
  BY <1>1, NodeWires
<1>.  HIDE DEF valid, ready
<1>4. /\ taken' = IF Node!ValidIn("softmax", valid, offering) /\ ready["softmax"]
                  THEN taken + 1 ELSE taken
      /\ given' = IF valid["softmax"] /\ Node!ReadyIn("softmax", valid, ready, accepting)
                  THEN given + 1 ELSE given
      /\ summed' = IF Node!SumActive("softmax") THEN summed + 1 ELSE summed
  BY <1>2, <1>3 DEF DrivesNodeSignals, CountedClock
<1>5. Node!Clock(offering, accepting)
  BY <1>4 DEF Node!Clock, valid, ready
<1>.  QED  BY <1>1, <1>5 DEF NodeClock

\* Cycle for cycle, the core is the node that stands for it in the network.
THEOREM SoftmaxImplementsNode == CountedSpec => ImplementsNode
<1>1. CountedInit => Node!Init
  BY DEF CountedInit, Node!Init
<1>2. ASSUME CountedInv, CountedNext PROVE NodeClock
  BY <1>2, CountsSignals, TypeControl, NodeStep DEF CountedInv, IInv, CountedNext
<1>3. ASSUME UNCHANGED counted PROVE UNCHANGED Node!vars
  BY <1>3 DEF counted, Node!vars
<1>.  QED  BY <1>1, <1>2, <1>3, AlwaysCounted, PTL DEF CountedSpec, ImplementsNode
=============================================================================
