-------------------------- MODULE FIFOCoreProofs ---------------------------
(***************************************************************************)
(* For every depth, pointer width and set of beats, the circular memory is *)
(* a bounded FIFO queue.                                                   *)
(***************************************************************************)
EXTENDS FIFOCore, SequenceTheorems, TLAPS

\* All the ring arithmetic needs of the widths: the memory holds Depth beats.
LEMMA Sizes == /\ Depth \in Nat \ {0}
               /\ Slots \in Nat \ {0, 1}
               /\ Depth <= Slots
               /\ Zero \in Data
BY FIFOAssumption DEF Slots

USE Sizes DEF Addresses

IInv == TypeOK /\ PointersAgree

-----------------------------------------------------------------------------
(* The inductive invariant.                                                *)

LEMMA InitIInv == Init => IInv
BY DEF Init, IInv, TypeOK, PointersAgree, Slot

\* A cycle keeps the three registers in agreement whichever ports fire.
LEMMA ClockIInv ==
    ASSUME IInv, NEW valid_in \in BOOLEAN, NEW ready_in \in BOOLEAN,
           NEW data_in \in Data, Clock(valid_in, data_in, ready_in)
    PROVE  IInv'
<1> DEFINE write_en == valid_in /\ ready_out
           read_en  == valid_out /\ ready_in
<1> USE DEF IInv
<1>1. TypeOK'
  BY DEF TypeOK, Clock, NextCount, Advance, ready_out, valid_out
<1>2. PointersAgree'
  <2>1. CASE write_en /\ read_en
    <3>1. head' = Advance(head) /\ tail' = Advance(tail) /\ count' = count
      BY <2>1 DEF Clock, NextCount
    <3>2. count \in 1 .. Depth /\ count < Depth
      BY <2>1 DEF TypeOK, ready_out, valid_out
    <3> QED  BY <3>1, <3>2 DEF TypeOK, PointersAgree, Slot, Advance
  <2>2. CASE write_en /\ ~read_en
    <3>1. head' = Advance(head) /\ tail' = tail /\ count' = count + 1
      BY <2>2 DEF Clock, NextCount
    <3>2. count \in 0 .. Depth /\ count < Depth
      BY <2>2 DEF TypeOK, ready_out
    <3> QED  BY <3>1, <3>2 DEF TypeOK, PointersAgree, Slot, Advance
  <2>3. CASE ~write_en /\ read_en
    <3>1. head' = head /\ tail' = Advance(tail) /\ count' = count - 1
      BY <2>3 DEF Clock, NextCount
    <3>2. count \in 1 .. Depth
      BY <2>3 DEF TypeOK, valid_out
    <3> QED  BY <3>1, <3>2 DEF TypeOK, PointersAgree, Slot, Advance
  <2>4. CASE ~write_en /\ ~read_en
    <3>1. head' = head /\ tail' = tail /\ count' = count
      BY <2>4 DEF Clock, NextCount
    <3> QED  BY <3>1 DEF PointersAgree, Slot
  <2> QED  BY <2>1, <2>2, <2>3, <2>4
<1> QED  BY <1>1, <1>2

LEMMA NextIInv == IInv /\ [Next]_vars => IInv'
<1>1. ASSUME IInv, Next PROVE IInv'
  BY <1>1, ClockIInv DEF Next
<1>2. ASSUME IInv, UNCHANGED vars PROVE IInv'
  BY <1>2 DEF IInv, TypeOK, PointersAgree, Slot, vars
<1> QED  BY <1>1, <1>2

LEMMA AlwaysIInv == Spec => []IInv
BY InitIInv, NextIInv, PTL DEF Spec

\* The registers and the memory keep their ranges.
THEOREM TypeCorrect == Spec => []TypeOK
BY AlwaysIInv, PTL DEF IInv

\* head, tail and count never disagree about what the memory holds.
THEOREM PointersCorrect == Spec => []PointersAgree
BY AlwaysIInv, PTL DEF IInv

-----------------------------------------------------------------------------
(* What leaves, and in what order.                                         *)

\* A beat that is offered and not taken stays on the bus: the slot at tail is
\* written by no cycle, for head never meets tail in a cycle that writes.
LEMMA HeldStep ==
    ASSUME IInv, [Next]_vars, valid_out, tail' = tail
    PROVE  valid_out' /\ data_out' = data_out
<1> USE DEF IInv
<1>1. CASE UNCHANGED vars
  BY <1>1 DEF vars, valid_out, data_out
<1>2. ASSUME NEW valid_in \in BOOLEAN, NEW ready_in \in BOOLEAN,
             NEW data_in \in Data, Clock(valid_in, data_in, ready_in)
      PROVE  valid_out' /\ data_out' = data_out
  <2>1. ~ready_in
    BY <1>2 DEF Clock, TypeOK, Advance
  <2>2. valid_out'
    BY <1>2, <2>1 DEF Clock, NextCount, TypeOK, valid_out
  <2>3. mem'[tail] = mem[tail]
    <3>1. CASE valid_in /\ ready_out
      <4>1. head # tail
        BY <3>1 DEF TypeOK, PointersAgree, Slot, valid_out, ready_out
      <4> QED  BY <1>2, <3>1, <4>1 DEF Clock, TypeOK
    <3>2. CASE ~(valid_in /\ ready_out)
      BY <1>2, <3>2 DEF Clock
    <3> QED  BY <3>1, <3>2
  <2> QED  BY <2>2, <2>3 DEF data_out
<1> QED  BY <1>1, <1>2 DEF Next

THEOREM HeldCorrect == Spec => HeldUntilTaken
<1>1. IInv /\ [Next]_vars
        => [valid_out /\ tail' = tail => valid_out' /\ data_out' = data_out]_vars
  BY HeldStep
<1> QED  BY <1>1, AlwaysIInv, PTL DEF Spec, HeldUntilTaken

\* What a ring of n words holds is a sequence of n beats.
LEMMA RingSeq ==
    ASSUME NEW words \in [Addresses -> Data], NEW ptr \in Addresses,
           NEW n \in 0 .. Depth
    PROVE  /\ Ring(words, ptr, n) \in Seq(Data)
           /\ Len(Ring(words, ptr, n)) = n
           /\ \A i \in 1 .. n : Ring(words, ptr, n)[i] = words[Slot(ptr, i - 1)]
<1>1. \A i \in 1 .. n : Slot(ptr, i - 1) \in Addresses
  BY DEF Slot
<1>2. Ring(words, ptr, n) \in [1 .. n -> Data]
  BY <1>1 DEF Ring
<1> QED  BY <1>2 DEF Ring

\* Moving the origin one slot on drops the oldest beat.
LEMMA RingGet ==
    ASSUME NEW words \in [Addresses -> Data], NEW ptr \in Addresses,
           NEW n \in 1 .. Depth
    PROVE  /\ Ring(words, ptr, n) # <<>>
           /\ Ring(words, Advance(ptr), n - 1) = Tail(Ring(words, ptr, n))
<1> DEFINE before == Ring(words, ptr, n)
           after  == Ring(words, Advance(ptr), n - 1)
<1>1. /\ before \in Seq(Data) /\ Len(before) = n
      /\ \A i \in 1 .. n : before[i] = words[Slot(ptr, i - 1)]
  <2>1. n \in 0 .. Depth
    OBVIOUS
  <2> QED  BY <2>1, RingSeq
<1>2. Advance(ptr) \in Addresses /\ n - 1 \in 0 .. Depth
  BY DEF Advance
<1>3. /\ after \in Seq(Data) /\ Len(after) = n - 1
      /\ \A i \in 1 .. n - 1 : after[i] = words[Slot(Advance(ptr), i - 1)]
  BY <1>2, RingSeq
<1> HIDE DEF before, after
<1>4. before # <<>>
  BY <1>1
<1>5. /\ Tail(before) \in Seq(Data) /\ Len(Tail(before)) = n - 1
      /\ \A i \in 1 .. n - 1 : Tail(before)[i] = before[i + 1]
  BY <1>1, <1>4, HeadTailProperties
<1>6. ASSUME NEW i \in 1 .. n - 1 PROVE after[i] = Tail(before)[i]
  <2>1. Slot(Advance(ptr), i - 1) = Slot(ptr, i)
    BY DEF Slot, Advance
  <2>2. i + 1 \in 1 .. n /\ (i + 1) - 1 = i
    OBVIOUS
  <2> QED  BY <1>1, <1>3, <1>5, <2>1, <2>2
<1>7. after = Tail(before)
  BY <1>3, <1>5, <1>6, SeqEqual
<1> QED  BY <1>4, <1>7 DEF before, after

\* A word written at the free slot past the newest beat is appended, and
\* disturbs no beat already held.
LEMMA RingPut ==
    ASSUME NEW words \in [Addresses -> Data], NEW ptr \in Addresses,
           NEW n \in 0 .. Depth, n < Depth, NEW d \in Data
    PROVE  Ring([words EXCEPT ![Slot(ptr, n)] = d], ptr, n + 1)
               = Append(Ring(words, ptr, n), d)
<1> DEFINE written == [words EXCEPT ![Slot(ptr, n)] = d]
           before  == Ring(words, ptr, n)
           after   == Ring(written, ptr, n + 1)
<1>1. /\ before \in Seq(Data) /\ Len(before) = n
      /\ \A i \in 1 .. n : before[i] = words[Slot(ptr, i - 1)]
  BY RingSeq
<1>2. /\ Slot(ptr, n) \in Addresses
      /\ written \in [Addresses -> Data]
      /\ n + 1 \in 0 .. Depth
  BY DEF Slot
<1>3. /\ after \in Seq(Data) /\ Len(after) = n + 1
      /\ \A i \in 1 .. n + 1 : after[i] = written[Slot(ptr, i - 1)]
  BY <1>2, RingSeq
<1>4. ASSUME NEW i \in 1 .. n
      PROVE  written[Slot(ptr, i - 1)] = words[Slot(ptr, i - 1)]
  <2>1. /\ Slot(ptr, i - 1) # Slot(ptr, n)
        /\ Slot(ptr, i - 1) \in Addresses
    BY DEF Slot
  <2> QED  BY <1>2, <2>1
<1>5. written[Slot(ptr, n)] = d
  BY <1>2
<1> HIDE DEF before, after, written
<1>6. /\ Append(before, d) \in Seq(Data) /\ Len(Append(before, d)) = n + 1
      /\ \A i \in 1 .. n : Append(before, d)[i] = before[i]
      /\ Append(before, d)[n + 1] = d
  BY <1>1, AppendProperties
<1>7. ASSUME NEW i \in 1 .. n + 1 PROVE after[i] = Append(before, d)[i]
  <2>1. CASE i \in 1 .. n
    BY <1>1, <1>3, <1>4, <1>6, <2>1
  <2>2. CASE i = n + 1
    <3>1. after[n + 1] = written[Slot(ptr, n)]
      <4>1. n + 1 \in 1 .. n + 1 /\ (n + 1) - 1 = n
        OBVIOUS
      <4> QED  BY <1>3, <4>1
    <3> QED  BY <1>5, <1>6, <2>2, <3>1
  <2>3. i \in 1 .. n \/ i = n + 1
    OBVIOUS
  <2> QED  BY <2>1, <2>2, <2>3
<1>8. after = Append(before, d)
  BY <1>3, <1>6, <1>7, SeqEqual
<1> QED  BY <1>8 DEF before, after, written

\* Every cycle that fires a port is one step of the abstract queue.
LEMMA ClockImplements ==
    ASSUME IInv, NEW valid_in \in BOOLEAN, NEW ready_in \in BOOLEAN,
           NEW data_in \in Data, Clock(valid_in, data_in, ready_in)
    PROVE  Queue!Next \/ Contents' = Contents
<1> DEFINE write_en == valid_in /\ ready_out
           read_en  == valid_out /\ ready_in
           written  == [mem EXCEPT ![Slot(tail, count)] = data_in]
<1>1. /\ mem \in [Addresses -> Data] /\ tail \in Addresses
      /\ count \in 0 .. Depth /\ head = Slot(tail, count)
      /\ Contents' = Ring(mem', tail', count')
      /\ Contents \in Seq(Data) /\ Len(Contents) = count
  BY RingSeq DEF IInv, TypeOK, PointersAgree, Contents
<1>2. CASE write_en /\ read_en
  <2>1. /\ mem' = written /\ tail' = Advance(tail) /\ count' = count
        /\ count \in 1 .. Depth /\ count < Depth
    BY <1>1, <1>2 DEF Clock, NextCount, ready_out, valid_out
  <2>2. /\ written \in [Addresses -> Data]
        /\ count + 1 \in 1 .. Depth
        /\ (count + 1) - 1 = count
    BY <1>1, <2>1 DEF Slot
  <2>3. Ring(written, tail, count + 1) = Append(Contents, data_in)
    BY <1>1, <2>1, RingPut DEF Contents
  <2>4. Contents' = Tail(Append(Contents, data_in))
    <3> HIDE DEF written
    <3>1. Ring(written, Advance(tail), (count + 1) - 1)
              = Tail(Ring(written, tail, count + 1))
      BY <1>1, <2>2, RingGet
    <3> QED  BY <1>1, <2>1, <2>2, <2>3, <3>1
  <2>5. Contents # <<>>
    BY <1>1, <2>1
  <2>6. Tail(Append(Contents, data_in)) = Append(Tail(Contents), data_in)
    BY <1>1, <2>5, HeadTailAppend
  <2> QED  BY <1>1, <2>1, <2>4, <2>5, <2>6 DEF Queue!Next, Queue!Pass
<1>3. CASE write_en /\ ~read_en
  <2>1. mem' = written /\ tail' = tail /\ count' = count + 1 /\ count < Depth
    BY <1>1, <1>3 DEF Clock, NextCount, ready_out
  <2>2. Contents' = Append(Contents, data_in)
    BY <1>1, <2>1, RingPut DEF Contents
  <2> QED  BY <1>1, <2>1, <2>2 DEF Queue!Next, Queue!Put
<1>4. CASE ~write_en /\ read_en
  <2>1. /\ mem' = mem /\ tail' = Advance(tail) /\ count' = count - 1
        /\ count \in 1 .. Depth
    BY <1>1, <1>4 DEF Clock, NextCount, valid_out
  <2>2. Contents' = Tail(Contents) /\ Contents # <<>>
    BY <1>1, <2>1, RingGet DEF Contents
  <2> QED  BY <2>2 DEF Queue!Next, Queue!Get
<1>5. CASE ~write_en /\ ~read_en
  <2>1. UNCHANGED vars
    BY <1>5 DEF Clock, NextCount, vars
  <2> QED  BY <2>1 DEF vars, Contents
<1> QED  BY <1>2, <1>3, <1>4, <1>5

\* The FIFO core implements the bounded FIFO queue: no beat is lost,
\* duplicated or overtaken, for any depth and any pattern of stalls.
THEOREM FIFOImplementsQueue == Spec => ImplementsFIFO
<1>1. Init => Queue!Init
  BY DEF Init, Queue!Init, Contents, Ring
<1>2. IInv /\ [Next]_vars => [Queue!Next]_Contents
  <2>1. ASSUME IInv, Next PROVE Queue!Next \/ Contents' = Contents
    BY <2>1, ClockImplements DEF Next
  <2>2. ASSUME UNCHANGED vars PROVE Contents' = Contents
    BY <2>2 DEF vars, Contents
  <2> QED  BY <2>1, <2>2
<1> QED  BY <1>1, <1>2, AlwaysIInv, PTL DEF Spec, ImplementsFIFO, Queue!Spec

-----------------------------------------------------------------------------
(* The core in a stitched network, where its state is two counts.          *)

VARIABLES taken,  \* beats accepted, counted beside the core
          given   \* beats passed on
counted == <<vars, taken, given>>

CountedInit == Init /\ taken = 0 /\ given = 0
CountedClock(valid_in, data_in, ready_in) ==
    /\ Clock(valid_in, data_in, ready_in)
    /\ taken' = IF valid_in /\ ready_out THEN taken + 1 ELSE taken
    /\ given' = IF valid_out /\ ready_in THEN given + 1 ELSE given
CountedNext == \E valid_in, ready_in \in BOOLEAN, data_in \in Data :
                   CountedClock(valid_in, data_in, ready_in)
CountedSpec == CountedInit /\ [][CountedNext]_counted

\* The network of this core and no other.
Node == INSTANCE StitchedNetwork WITH
            IPs <- {"fifo"}, Edges <- {}, Kind <- [s \in {"fifo"} |-> "fifo"],
            Depth <- [s \in {"fifo"} |-> Depth], NumBeats <- 1, MaxBeats <- 0,
            taken <- [s \in {"fifo"} |-> taken],
            given <- [s \in {"fifo"} |-> given],
            summed <- [s \in {"fifo"} |-> 0]

\* What the network reads off the counts is what the registers drive.
DrivesNodeSignals == /\ valid_out = Node!Offers("fifo")
                     /\ ready_out = Node!Accepts("fifo")

CountedInv == IInv /\ taken \in Nat /\ given \in Nat /\ count = taken - given

LEMMA CountsSignals == ASSUME CountedInv PROVE DrivesNodeSignals
BY DEF CountedInv, IInv, TypeOK, DrivesNodeSignals, Node!Offers, Node!Accepts,
       valid_out, ready_out

LEMMA AlwaysCounted == CountedSpec => []CountedInv
<1>1. CountedInit => CountedInv
  BY InitIInv DEF CountedInit, CountedInv, Init
<1>2. ASSUME CountedInv, CountedNext PROVE CountedInv'
  <2>1. IInv'
    BY <1>2, NextIInv DEF CountedInv, CountedNext, CountedClock, Next
  <2>2. taken' \in Nat /\ given' \in Nat /\ count' = taken' - given'
    BY <1>2 DEF CountedInv, IInv, TypeOK, CountedNext, CountedClock, Clock,
                NextCount
  <2>.  QED  BY <2>1, <2>2 DEF CountedInv
<1>3. ASSUME CountedInv, UNCHANGED counted PROVE CountedInv'
  <2>1. UNCHANGED vars
    BY <1>3 DEF counted
  <2>.  QED  BY <1>3, <2>1, NextIInv DEF CountedInv, counted, vars
<1>.  QED  BY <1>1, <1>2, <1>3, PTL DEF CountedSpec

\* The stitched network may take the count of what is in the FIFO for the FIFO:
\* in every cycle it finds the signals there that the registers drive.
THEOREM NodeSignalsCorrect == CountedSpec => []DrivesNodeSignals
<1>1. CountedInv => DrivesNodeSignals
  BY CountsSignals
<1>.  QED  BY <1>1, AlwaysCounted, PTL

\* The node with any source and any sink.
NodeClock == \E offering, accepting \in SUBSET {"fifo"} :
                 Node!Clock(offering, accepting)
ImplementsNode == Node!Init /\ [][NodeClock]_Node!vars

\* What the network's wires carry when the core is the whole network.
LEMMA NodeWires ==
    ASSUME NEW offering \in SUBSET {"fifo"}, NEW accepting \in SUBSET {"fifo"}
    PROVE  LET valid == Node!ValidOut(offering)
               ready == Node!ReadyOut(valid, accepting)
           IN /\ valid["fifo"] = Node!Offers("fifo")
              /\ ready["fifo"] = Node!Accepts("fifo")
              /\ Node!ValidIn("fifo", valid, offering) <=> "fifo" \in offering
              /\ Node!ReadyIn("fifo", valid, ready, accepting)
                     <=> "fifo" \in accepting
<1>.  DEFINE valid == Node!ValidOut(offering)
             ready == Node!ReadyOut(valid, accepting)
<1>1. valid = [s \in {"fifo"} |-> Node!Offers(s)]
  BY DEF Node!ValidOut
<1>2. ready = [s \in {"fifo"} |-> Node!Accepts(s)]
  BY DEF Node!ReadyOut
<1>3. Node!Up("fifo") = {} /\ Node!Down("fifo") = {}
  BY DEF Node!Up, Node!Down
<1>.  HIDE DEF valid, ready
<1>4. /\ Node!ValidIn("fifo", valid, offering) <=> "fifo" \in offering
      /\ Node!ReadyIn("fifo", valid, ready, accepting) <=> "fifo" \in accepting
  BY <1>3 DEF Node!ValidIn, Node!ReadyIn
<1>.  QED  BY <1>1, <1>2, <1>4 DEF valid, ready

LEMMA NodeStep ==
    ASSUME DrivesNodeSignals, NEW valid_in \in BOOLEAN, NEW ready_in \in BOOLEAN,
           NEW data_in \in Data, CountedClock(valid_in, data_in, ready_in)
    PROVE  NodeClock
<1>.  DEFINE offering == IF valid_in THEN {"fifo"} ELSE {}
             accepting == IF ready_in THEN {"fifo"} ELSE {}
             valid == Node!ValidOut(offering)
             ready == Node!ReadyOut(valid, accepting)
<1>1. offering \in SUBSET {"fifo"} /\ accepting \in SUBSET {"fifo"}
  OBVIOUS
<1>2. ("fifo" \in offering <=> valid_in) /\ ("fifo" \in accepting <=> ready_in)
  OBVIOUS
<1>.  HIDE DEF offering, accepting
<1>3. /\ valid["fifo"] = Node!Offers("fifo")
      /\ ready["fifo"] = Node!Accepts("fifo")
      /\ Node!ValidIn("fifo", valid, offering) <=> "fifo" \in offering
      /\ Node!ReadyIn("fifo", valid, ready, accepting) <=> "fifo" \in accepting
  BY <1>1, NodeWires
<1>.  HIDE DEF valid, ready
<1>4. /\ taken' = IF Node!ValidIn("fifo", valid, offering) /\ ready["fifo"]
                  THEN taken + 1 ELSE taken
      /\ given' = IF valid["fifo"] /\ Node!ReadyIn("fifo", valid, ready, accepting)
                  THEN given + 1 ELSE given
  BY <1>2, <1>3 DEF DrivesNodeSignals, CountedClock
<1>5. Node!Clock(offering, accepting)
  BY <1>4 DEF Node!Clock, valid, ready
<1>.  QED  BY <1>1, <1>5 DEF NodeClock

\* Cycle for cycle, the FIFO is the node that stands for it in the network.
THEOREM FIFOImplementsNode == CountedSpec => ImplementsNode
<1>1. CountedInit => Node!Init
  BY DEF CountedInit, Node!Init
<1>2. ASSUME CountedInv, CountedNext PROVE NodeClock
  BY <1>2, CountsSignals, NodeStep DEF CountedNext
<1>3. ASSUME UNCHANGED counted PROVE UNCHANGED Node!vars
  BY <1>3 DEF counted, Node!vars
<1>.  QED  BY <1>1, <1>2, <1>3, AlwaysCounted, PTL DEF CountedSpec, ImplementsNode
=============================================================================
