------------------------ MODULE TemporalGEMMProofs -------------------------
(***************************************************************************)
(* For every number of tiles and every accumulator width: the counters and *)
(* accumulators keep their ranges, no phase leaves a counter behind, a     *)
(* stalled sink never loses a tile to the next packet, and only a packet   *)
(* cut short emits tiles it did not reach.                                 *)
(***************************************************************************)
EXTENDS MCTemporalGEMM, TLAPS

IInv == TypeOK /\ CountersRest

USE GEMMAssumption DEF Tiles, Last

LEMMA Mod == ASSUME NEW n \in Int, NEW w \in Nat, w > 0 PROVE n % w \in 0 .. w - 1
OBVIOUS

\* A register holds what it is assigned, cut to its width.
LEMMA WrapInRange == ASSUME NEW x \in Int PROVE Wrap(x) \in Accs
<1>1. (x + HalfRange) % (2 * HalfRange) \in 0 .. 2 * HalfRange - 1
  BY Mod
<1>.  QED  BY <1>1 DEF Wrap, Accs

LEMMA UpdatedInRange ==
    ASSUME accum \in [Tiles -> Accs], tile_counter \in Tiles,
           NEW mac \in Mac, NEW accum_in \in BOOLEAN
    PROVE  Updated(mac, accum_in) \in [Tiles -> Accs]
<1>1. accum[tile_counter] + mac \in Int /\ mac \in Int
  BY DEF Accs
<1>2. Wrap(accum[tile_counter] + mac) \in Accs /\ Wrap(mac) \in Accs
  BY <1>1, WrapInRange
<1>.  QED  BY <1>2 DEF Updated

LEMMA InitIInv == Init => IInv
BY DEF Init, IInv, TypeOK, CountersRest, Accs

LEMMA ClockIInv ==
    ASSUME IInv, NEW valid_in \in BOOLEAN, NEW weight_valid_in \in BOOLEAN,
           NEW mac \in Mac, NEW accum_in \in BOOLEAN, NEW emit_in \in BOOLEAN,
           NEW ready_in \in BOOLEAN,
           Clock(valid_in, weight_valid_in, mac, accum_in, emit_in, ready_in)
    PROVE  IInv'
<1>1. accum' \in [Tiles -> Accs]
  BY UpdatedInRange DEF Clock, IInv, TypeOK
<1>2. CASE state = "ACCUMULATE"
  <2>1. emit_counter' = emit_counter /\ emit_counter = 0
    BY <1>2 DEF Clock, valid_out, IInv, CountersRest
  <2>2. state' \in {"ACCUMULATE", "EMIT"} /\ tile_counter' \in Tiles
    BY <1>2 DEF Clock, valid_out, ready_out, NextTile, IInv, TypeOK
  <2>3. state' = "EMIT" => tile_counter' = 0
    BY <1>2 DEF Clock, valid_out, ready_out, NextTile
  <2>.  QED  BY <1>1, <2>1, <2>2, <2>3 DEF IInv, TypeOK, CountersRest
<1>3. CASE state = "EMIT"
  <2>1. tile_counter' = tile_counter /\ tile_counter = 0
    BY <1>3 DEF Clock, ready_out, NextTile, IInv, CountersRest
  <2>2. state' \in {"ACCUMULATE", "EMIT"} /\ emit_counter' \in Tiles
    BY <1>3 DEF Clock, valid_out, ready_out, IInv, TypeOK
  <2>3. state' # "EMIT" => emit_counter' = 0
    BY <1>3 DEF Clock, valid_out, ready_out
  <2>.  QED  BY <1>1, <2>1, <2>2, <2>3 DEF IInv, TypeOK, CountersRest
<1>.  QED  BY <1>2, <1>3 DEF IInv, TypeOK

LEMMA NextIInv == IInv /\ [Next]_vars => IInv'
<1>. SUFFICES ASSUME IInv, [Next]_vars PROVE IInv'
  OBVIOUS
<1>1. CASE UNCHANGED vars
  BY <1>1 DEF vars, IInv, TypeOK, CountersRest
<1>2. CASE Next
  BY <1>2, ClockIInv DEF Next
<1>.  QED  BY <1>1, <1>2

LEMMA AlwaysIInv == Spec => []IInv
BY InitIInv, NextIInv, PTL DEF Spec

\* Counters and accumulators keep their ranges, whatever is multiplied.
THEOREM TypeCorrect == Spec => []TypeOK
BY AlwaysIInv, PTL DEF IInv

\* Every packet starts at its first tile and every emission at its first tile.
THEOREM CountersCorrect == Spec => []CountersRest
BY AlwaysIInv, PTL DEF IInv

Drained == \A t \in Tiles :
               valid_out /\ t >= emit_counter => accum'[t] = accum[t]

\* A tile not yet taken is what it was when its packet ended.
THEOREM DrainedCorrect == Spec => DrainedBeforeOverwritten
<1>1. [Next]_vars => [Drained]_vars
  BY DEF Next, Clock, Drained, valid_out, ready_out
<1>.  QED  BY <1>1, PTL DEF Spec, DrainedBeforeOverwritten, Drained

-----------------------------------------------------------------------------
\* The tiles a packet has reached are those below the counter until it ends, and
\* then all of them unless emit_in ended it.
Reach == IF state = "ACCUMULATE" THEN reached = 0 .. tile_counter - 1
         ELSE ~cut => reached = Tiles

\* A cycle carries the record over, from the last tile of a packet to the first
\* of the next included.
LEMMA CycleReach ==
    ASSUME IInv, Reach, NEW ready_in \in BOOLEAN, Cycle(ready_in)
    PROVE  Reach'
<1>1. PICK valid_in \in BOOLEAN, weight_valid_in \in BOOLEAN,
           accum_in \in BOOLEAN, emit_in \in BOOLEAN, mac \in Mac :
        LET handshake == valid_in /\ weight_valid_in /\ ready_out
        IN /\ Clock(valid_in, weight_valid_in, mac, accum_in, emit_in, ready_in)
           /\ reached' = IF handshake THEN reached \cup {tile_counter}
                         ELSE IF valid_out /\ state' # state THEN {} ELSE reached
           /\ cut' = IF handshake THEN emit_in /\ tile_counter # Last ELSE cut
  BY DEF Cycle
<1>2. CASE state = "ACCUMULATE" /\ valid_in /\ weight_valid_in
  <2>1. /\ reached' = (0 .. tile_counter - 1) \cup {tile_counter}
        /\ cut' = (emit_in /\ tile_counter # Last)
    BY <1>1, <1>2 DEF Reach, ready_out
  <2>2. (0 .. tile_counter - 1) \cup {tile_counter} = 0 .. tile_counter
    BY DEF IInv, TypeOK
  <2>3. CASE emit_in \/ tile_counter = Last
    <3>1. state' = "EMIT"
      BY <1>1, <1>2, <2>3 DEF Clock, ready_out
    <3>2. ~cut' => tile_counter = Last
      BY <2>1, <2>3
    <3>.  QED  BY <2>1, <2>2, <3>1, <3>2 DEF Reach
  <2>4. CASE ~(emit_in \/ tile_counter = Last)
    <3>1. state' = "ACCUMULATE" /\ tile_counter' = tile_counter + 1
      BY <1>1, <1>2, <2>4 DEF Clock, ready_out, valid_out, NextTile
    <3>2. tile_counter' - 1 = tile_counter
      BY <3>1 DEF IInv, TypeOK
    <3>.  QED  BY <2>1, <2>2, <3>1, <3>2 DEF Reach
  <2>.  QED  BY <2>3, <2>4
<1>3. CASE state = "ACCUMULATE" /\ ~(valid_in /\ weight_valid_in)
  BY <1>1, <1>3 DEF Reach, Clock, ready_out, valid_out, NextTile
<1>4. CASE state = "EMIT"
  <2>1. tile_counter' = 0 /\ cut' = cut
    BY <1>1, <1>4 DEF Clock, ready_out, NextTile, IInv, CountersRest
  <2>2. CASE state' = state
    BY <1>1, <1>4, <2>1, <2>2 DEF Reach, ready_out
  <2>3. CASE state' # state
    <3>1. state' = "ACCUMULATE" /\ reached' = {}
      BY <1>1, <1>4, <2>3 DEF Clock, ready_out, valid_out
    <3>2. 0 .. 0 - 1 = {}
      OBVIOUS
    <3>.  QED  BY <2>1, <3>1, <3>2 DEF Reach
  <2>.  QED  BY <2>2, <2>3
<1>.  QED  BY <1>2, <1>3, <1>4 DEF IInv, TypeOK

LEMMA MCNextReach == IInv /\ Reach /\ [MCNext]_mcvars => IInv' /\ Reach'
<1>. SUFFICES ASSUME IInv, Reach, [MCNext]_mcvars PROVE IInv' /\ Reach'
  OBVIOUS
<1>1. [Next]_vars
  <2>1. ASSUME NEW ready_in \in BOOLEAN, Cycle(ready_in) PROVE Next
    <3>1. PICK valid_in, weight_valid_in, accum_in, emit_in \in BOOLEAN, mac \in Mac :
              Clock(valid_in, weight_valid_in, mac, accum_in, emit_in, ready_in)
      BY <2>1 DEF Cycle
    <3>.  QED  BY <3>1 DEF Next
  <2>.  QED  BY <2>1 DEF MCNext, mcvars
<1>2. CASE MCNext
  BY <1>1, <1>2, NextIInv, CycleReach DEF MCNext
<1>3. CASE UNCHANGED mcvars
  BY <1>1, <1>3, NextIInv DEF mcvars, vars, Reach
<1>.  QED  BY <1>2, <1>3

\* A packet that ran to its end emits only its own tiles, for any number of
\* tiles, with beats and weights at any pace and any packet before it cut short.
THEOREM StaleCorrect == MCSpec => []OnlyCutPacketsAreStale
<1>1. MCInit => IInv /\ Reach
  BY InitIInv DEF MCInit, Init, Reach
<1>2. Reach => OnlyCutPacketsAreStale
  BY DEF Reach, OnlyCutPacketsAreStale, valid_out
<1>.  QED  BY <1>1, <1>2, MCNextReach, PTL DEF MCSpec

-----------------------------------------------------------------------------
(* The core in a stitched network, where its state is two counts: weights  *)
(* on offer with every beat, and no packet cut short.                      *)

VARIABLES taken,  \* beats accepted, counted beside the core
          given   \* tiles passed on
counted == <<vars, taken, given>>

CountedInit == Init /\ taken = 0 /\ given = 0
CountedClock(valid_in, mac, accum_in, ready_in) ==
    /\ Clock(valid_in, TRUE, mac, accum_in, FALSE, ready_in)
    /\ taken' = IF valid_in /\ ready_out THEN taken + 1 ELSE taken
    /\ given' = IF valid_out /\ ready_in THEN given + 1 ELSE given
CountedNext == \E valid_in, accum_in, ready_in \in BOOLEAN, mac \in Mac :
                   CountedClock(valid_in, mac, accum_in, ready_in)
CountedSpec == CountedInit /\ [][CountedNext]_counted

\* The network of this core and no other.
Node == INSTANCE StitchedNetwork WITH
            IPs <- {"tgemm"}, Edges <- {}, Kind <- [s \in {"tgemm"} |-> "tgemm"],
            Depth <- <<>>, NumBeats <- NumTiles, MaxBeats <- 0,
            taken <- [s \in {"tgemm"} |-> taken],
            given <- [s \in {"tgemm"} |-> given],
            summed <- [s \in {"tgemm"} |-> 0]

\* What the network reads off the counts is what the registers drive.
DrivesNodeSignals == /\ valid_out = Node!Offers("tgemm")
                     /\ ready_out = Node!Accepts("tgemm")

\* A count of beats is p packets and b beats of the next.
Counts(n, p, b) == n = NumTiles * p + b

\* In ACCUMULATE every packet begun has left; in EMIT one has not.
CountsAgree == \E p, c \in Nat : /\ Counts(taken, p, tile_counter)
                                 /\ Counts(given, c, emit_counter)
                                 /\ p = IF state = "EMIT" THEN c + 1 ELSE c

\* The one way to read a count.
LEMMA Quotient ==
    ASSUME NEW n \in Nat, NEW p \in Nat, NEW b \in Tiles, Counts(n, p, b)
    PROVE  n \div NumTiles = p /\ n % NumTiles = b
<1>1. PICK q \in Nat, r \in Tiles :
          q = n \div NumTiles /\ r = n % NumTiles /\ n = NumTiles * q + r
  <2>1. /\ n \div NumTiles \in Nat /\ n % NumTiles \in Tiles
        /\ n = NumTiles * (n \div NumTiles) + (n % NumTiles)
    OBVIOUS
  <2>.  QED  BY <2>1
<1>2. PICK e \in Int : e = q - p
  OBVIOUS
<1>3. NumTiles * e = b - r
  BY <1>1, <1>2 DEF Counts
<1>4. /\ e >= 1 => NumTiles * e >= NumTiles
      /\ e <= -1 => NumTiles * e <= -NumTiles
  OBVIOUS
<1>5. e = 0
  BY <1>2, <1>3, <1>4
<1>6. q = p /\ r = b
  BY <1>2, <1>3, <1>5
<1>.  QED  BY <1>1, <1>6

LEMMA CountsSignals ==
    ASSUME IInv, CountsAgree, taken \in Nat, given \in Nat
    PROVE  DrivesNodeSignals
<1>1. PICK p, c \in Nat : /\ Counts(taken, p, tile_counter)
                          /\ Counts(given, c, emit_counter)
                          /\ p = IF state = "EMIT" THEN c + 1 ELSE c
  BY DEF CountsAgree
<1>2. /\ taken \div NumTiles = p /\ taken % NumTiles = tile_counter
      /\ given \div NumTiles = c
  BY <1>1, Quotient DEF IInv, TypeOK
<1>3. Node!Emitting("tgemm") = (state = "EMIT")
  <2>1. CASE state = "EMIT"
    <3>1. tile_counter = 0
      BY <2>1 DEF IInv, CountersRest
    <3>2. taken # given
      BY <1>1, <1>2, <2>1
    <3>.  QED  BY <1>2, <2>1, <3>1, <3>2 DEF Node!Emitting
  <2>2. CASE state # "EMIT"
    <3>1. emit_counter = 0 /\ p = c
      BY <1>1, <2>2 DEF IInv, CountersRest
    <3>2. tile_counter = 0 => taken = given
      BY <1>1, <3>1 DEF Counts
    <3>.  QED  BY <1>2, <2>2, <3>2 DEF Node!Emitting
  <2>.  QED  BY <2>1, <2>2
<1>4. valid_out = Node!Emitting("tgemm")
  BY <1>3 DEF valid_out
<1>5. ready_out = ~Node!Emitting("tgemm")
  BY <1>3 DEF ready_out, IInv, TypeOK
<1>.  QED  BY <1>4, <1>5 DEF DrivesNodeSignals, Node!Offers, Node!Accepts

LEMMA CountedStep ==
    ASSUME IInv, CountsAgree, taken \in Nat, given \in Nat,
           NEW valid_in \in BOOLEAN, NEW accum_in \in BOOLEAN,
           NEW ready_in \in BOOLEAN, NEW mac \in Mac,
           CountedClock(valid_in, mac, accum_in, ready_in)
    PROVE  CountsAgree' /\ taken' \in Nat /\ given' \in Nat
<1>1. PICK p, c \in Nat : /\ Counts(taken, p, tile_counter)
                          /\ Counts(given, c, emit_counter)
                          /\ p = IF state = "EMIT" THEN c + 1 ELSE c
  BY DEF CountsAgree
<1>2. taken' \in Nat /\ given' \in Nat
  BY DEF CountedClock
<1>.  SUFFICES \E p2, c2 \in Nat : /\ Counts(taken', p2, tile_counter')
                                   /\ Counts(given', c2, emit_counter')
                                   /\ p2 = IF state' = "EMIT" THEN c2 + 1 ELSE c2
  BY <1>2 DEF CountsAgree, Counts
<1>3. CASE state = "ACCUMULATE"
  <2>1. /\ emit_counter' = emit_counter /\ given' = given
        /\ emit_counter = 0 /\ p = c
    BY <1>1, <1>3 DEF CountedClock, Clock, valid_out, IInv, CountersRest
  <2>2. CASE ~valid_in
    <3>1. taken' = taken /\ tile_counter' = tile_counter /\ state' = state
      BY <1>3, <2>2 DEF CountedClock, Clock, NextTile, valid_out
    <3>.  QED  BY <1>1, <2>1, <3>1
  <2>3. CASE valid_in /\ tile_counter = Last
    <3>1. taken' = taken + 1 /\ tile_counter' = 0 /\ state' = "EMIT"
      BY <1>3, <2>3 DEF CountedClock, Clock, NextTile, ready_out
    <3>2. Counts(taken', p + 1, tile_counter')
      BY <1>1, <2>3, <3>1 DEF Counts
    <3>.  QED  BY <1>1, <2>1, <3>1, <3>2
  <2>4. CASE valid_in /\ tile_counter # Last
    <3>1. taken' = taken + 1 /\ tile_counter' = tile_counter + 1 /\ state' = state
      BY <1>3, <2>4 DEF CountedClock, Clock, NextTile, ready_out, valid_out
    <3>2. Counts(taken', p, tile_counter')
      BY <1>1, <3>1 DEF Counts, IInv, TypeOK
    <3>.  QED  BY <1>1, <2>1, <3>1, <3>2
  <2>.  QED  BY <2>2, <2>3, <2>4
<1>4. CASE state = "EMIT"
  <2>1. /\ tile_counter' = tile_counter /\ taken' = taken
        /\ tile_counter = 0 /\ p = c + 1
    BY <1>1, <1>4 DEF CountedClock, Clock, NextTile, ready_out, IInv, CountersRest
  <2>2. CASE ~ready_in
    <3>1. given' = given /\ emit_counter' = emit_counter /\ state' = state
      BY <1>4, <2>2 DEF CountedClock, Clock, ready_out
    <3>.  QED  BY <1>1, <2>1, <3>1
  <2>3. CASE ready_in /\ emit_counter = Last
    <3>1. given' = given + 1 /\ emit_counter' = 0 /\ state' # "EMIT"
      BY <1>4, <2>3 DEF CountedClock, Clock, valid_out, ready_out
    <3>2. Counts(given', c + 1, emit_counter')
      BY <1>1, <2>3, <3>1 DEF Counts
    <3>.  QED  BY <1>1, <2>1, <3>1, <3>2
  <2>4. CASE ready_in /\ emit_counter # Last
    <3>1. given' = given + 1 /\ emit_counter' = emit_counter + 1 /\ state' = state
      BY <1>4, <2>4 DEF CountedClock, Clock, valid_out, ready_out
    <3>2. Counts(given', c, emit_counter')
      BY <1>1, <3>1 DEF Counts, IInv, TypeOK
    <3>.  QED  BY <1>1, <2>1, <3>1, <3>2
  <2>.  QED  BY <2>2, <2>3, <2>4
<1>.  QED  BY <1>3, <1>4 DEF IInv, TypeOK

CountedInv == IInv /\ CountsAgree /\ taken \in Nat /\ given \in Nat

LEMMA AlwaysCounted == CountedSpec => []CountedInv
<1>1. CountedInit => CountedInv
  <2>.  SUFFICES ASSUME CountedInit PROVE CountedInv
    OBVIOUS
  <2>1. IInv /\ taken = 0 /\ given = 0
    BY InitIInv DEF CountedInit
  <2>2. /\ Counts(taken, 0, tile_counter) /\ Counts(given, 0, emit_counter)
        /\ state # "EMIT"
    BY DEF CountedInit, Init, Counts
  <2>.  QED  BY <2>1, <2>2 DEF CountedInv, CountsAgree
<1>2. ASSUME CountedInv, CountedNext PROVE CountedInv'
  <2>1. PICK valid_in, accum_in, ready_in \in BOOLEAN, mac \in Mac :
            CountedClock(valid_in, mac, accum_in, ready_in)
    BY <1>2 DEF CountedNext
  <2>2. Next
    BY <2>1 DEF CountedClock, Next
  <2>3. IInv'
    BY <1>2, <2>2, NextIInv DEF CountedInv
  <2>.  QED  BY <1>2, <2>1, <2>3, CountedStep DEF CountedInv
<1>3. ASSUME CountedInv, UNCHANGED counted PROVE CountedInv'
  <2>1. UNCHANGED vars
    BY <1>3 DEF counted
  <2>2. CountsAgree' /\ taken' \in Nat /\ given' \in Nat
    BY <1>3 DEF counted, vars, CountedInv, CountsAgree, Counts
  <2>.  QED  BY <1>3, <2>1, <2>2, NextIInv DEF CountedInv
<1>.  QED  BY <1>1, <1>2, <1>3, PTL DEF CountedSpec

\* With its weights always on offer and no packet cut short, the state of the
\* core is what the network reads off the counts: it emits exactly when a
\* packet is in and not out.
THEOREM NodeSignalsCorrect == CountedSpec => []DrivesNodeSignals
<1>1. CountedInv => DrivesNodeSignals
  BY CountsSignals DEF CountedInv
<1>.  QED  BY <1>1, AlwaysCounted, PTL

\* The node with any source and any sink.
NodeClock == \E offering, accepting \in SUBSET {"tgemm"} :
                 Node!Clock(offering, accepting)
ImplementsNode == Node!Init /\ [][NodeClock]_Node!vars

\* What the network's wires carry when the core is the whole network.
LEMMA NodeWires ==
    ASSUME NEW offering \in SUBSET {"tgemm"}, NEW accepting \in SUBSET {"tgemm"}
    PROVE  LET valid == Node!ValidOut(offering)
               ready == Node!ReadyOut(valid, accepting)
           IN /\ valid["tgemm"] = Node!Offers("tgemm")
              /\ ready["tgemm"] = Node!Accepts("tgemm")
              /\ Node!ValidIn("tgemm", valid, offering) <=> "tgemm" \in offering
              /\ Node!ReadyIn("tgemm", valid, ready, accepting)
                     <=> "tgemm" \in accepting
<1>.  DEFINE valid == Node!ValidOut(offering)
             ready == Node!ReadyOut(valid, accepting)
<1>1. valid = [s \in {"tgemm"} |-> Node!Offers(s)]
  BY DEF Node!ValidOut
<1>2. ready = [s \in {"tgemm"} |-> Node!Accepts(s)]
  BY DEF Node!ReadyOut
<1>3. Node!Up("tgemm") = {} /\ Node!Down("tgemm") = {}
  BY DEF Node!Up, Node!Down
<1>.  HIDE DEF valid, ready
<1>4. /\ Node!ValidIn("tgemm", valid, offering) <=> "tgemm" \in offering
      /\ Node!ReadyIn("tgemm", valid, ready, accepting) <=> "tgemm" \in accepting
  BY <1>3 DEF Node!ValidIn, Node!ReadyIn
<1>.  QED  BY <1>1, <1>2, <1>4 DEF valid, ready

LEMMA NodeStep ==
    ASSUME DrivesNodeSignals, NEW valid_in \in BOOLEAN, NEW accum_in \in BOOLEAN,
           NEW ready_in \in BOOLEAN, NEW mac \in Mac,
           CountedClock(valid_in, mac, accum_in, ready_in)
    PROVE  NodeClock
<1>.  DEFINE offering == IF valid_in THEN {"tgemm"} ELSE {}
             accepting == IF ready_in THEN {"tgemm"} ELSE {}
             valid == Node!ValidOut(offering)
             ready == Node!ReadyOut(valid, accepting)
<1>1. offering \in SUBSET {"tgemm"} /\ accepting \in SUBSET {"tgemm"}
  OBVIOUS
<1>2. ("tgemm" \in offering <=> valid_in) /\ ("tgemm" \in accepting <=> ready_in)
  OBVIOUS
<1>.  HIDE DEF offering, accepting
<1>3. /\ valid["tgemm"] = Node!Offers("tgemm")
      /\ ready["tgemm"] = Node!Accepts("tgemm")
      /\ Node!ValidIn("tgemm", valid, offering) <=> "tgemm" \in offering
      /\ Node!ReadyIn("tgemm", valid, ready, accepting) <=> "tgemm" \in accepting
  BY <1>1, NodeWires
<1>.  HIDE DEF valid, ready
<1>4. /\ taken' = IF Node!ValidIn("tgemm", valid, offering) /\ ready["tgemm"]
                  THEN taken + 1 ELSE taken
      /\ given' = IF valid["tgemm"] /\ Node!ReadyIn("tgemm", valid, ready, accepting)
                  THEN given + 1 ELSE given
  BY <1>2, <1>3 DEF DrivesNodeSignals, CountedClock
<1>5. Node!Clock(offering, accepting)
  BY <1>4 DEF Node!Clock, valid, ready
<1>.  QED  BY <1>1, <1>5 DEF NodeClock

\* Cycle for cycle, the core is the node that stands for it in the network.
THEOREM GEMMImplementsNode == CountedSpec => ImplementsNode
<1>1. CountedInit => Node!Init
  BY DEF CountedInit, Node!Init
<1>2. ASSUME CountedInv, CountedNext PROVE NodeClock
  BY <1>2, CountsSignals, NodeStep DEF CountedInv, CountedNext
<1>3. ASSUME UNCHANGED counted PROVE UNCHANGED Node!vars
  BY <1>3 DEF counted, Node!vars
<1>.  QED  BY <1>1, <1>2, <1>3, AlwaysCounted, PTL DEF CountedSpec, ImplementsNode
=============================================================================
