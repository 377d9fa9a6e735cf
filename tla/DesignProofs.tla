---------------------------- MODULE DesignProofs ----------------------------
(***************************************************************************)
(* How a design is made: the cores that Stitcher.build wires together, and *)
(* the Autotuner's search for their tile factors.                          *)
(*                                                                         *)
(* For every graph of the six kinds of core, an edge whose source feeds    *)
(* nothing else loses no beat and repeats none, a join's edges included:   *)
(* source and destination agree in every cycle on whether a beat crosses.  *)
(* The proof rests on the wiring alone, whatever the cores do.             *)
(*                                                                         *)
(* And no core holds more than it has room for, or gives a packet it does  *)
(* not have all of.  This rests on the cores' handshakes, and on the wires *)
(* having values: the recursive definitions of valid and ready have a      *)
(* solution because the combinational cores can be ordered.                *)
(*                                                                         *)
(* In the transformer block the forks are in step too, for packets of any  *)
(* size and, under a sink that never stalls, for any number of sequences;  *)
(* its residual FIFOs have room whenever they are.  This rests on the pace *)
(* of the cores: who waits for whom, and for how long.                     *)
(*                                                                         *)
(* For every list of cores, every device and every table of measurements   *)
(* by which no core costs less for a factor above one, the search finds    *)
(* the best design.  This rests on the order of its loops, which decides   *)
(* what a call has left behind, and on totals that grow with the factors,  *)
(* as the estimates do.                                                    *)
(***************************************************************************)
EXTENDS MCTransformerBlock, Autotuner, FiniteSetTheorems, SequenceTheorems,
        WellFoundedInduction, TLAPS

\* A core that feeds nothing else has one destination.
LEMMA OnlyDestination ==
    ASSUME NEW s \in IPs, NEW d \in IPs,
           <<s, d>> \in Edges, Cardinality(Down(s)) = 1
    PROVE  Down(s) = {d}
<1>1. IsFiniteSet(Down(s))
  BY NetworkAssumption, FS_Subset DEF Down
<1>2. PICK x : Down(s) = {x}
  BY <1>1, FS_Singleton
<1>3. d \in Down(s)
  BY DEF Down
<1>.  QED  BY <1>2, <1>3

\* Whatever the cores drive, both ends of such an edge see the same handshake.
LEMMA SameHandshake ==
    ASSUME NEW s \in IPs, NEW d \in IPs,
           <<s, d>> \in Edges, Cardinality(Down(s)) = 1,
           NEW valid, NEW ready, NEW offering, NEW accepting
    PROVE  ValidIn(d, valid, offering) /\ ready[d]
               <=> valid[s] /\ ReadyIn(s, valid, ready, accepting)
<1>1. Down(s) = {d}
  BY OnlyDestination
<1>2. s \in Up(d) /\ Up(d) # {}
  BY DEF Up
<1>3. ValidIn(d, valid, offering) <=> \A u \in Up(d) : valid[u]
  BY <1>2 DEF ValidIn
<1>4. ReadyIn(s, valid, ready, accepting)
          <=> ready[d] /\ \A u \in Up(d) \ {s} : valid[u]
  BY <1>1 DEF ReadyIn
<1>.  QED  BY <1>2, <1>3, <1>4

CountsOK == taken \in [IPs -> Nat] /\ given \in [IPs -> Nat]

IInv == CountsOK /\ UnforkedInStep

LEMMA InitIInv == Init => IInv
BY NetworkAssumption DEF Init, IInv, CountsOK, UnforkedInStep, Unforked

LEMMA ClockIInv ==
    ASSUME IInv, NEW offering, NEW accepting, Clock(offering, accepting)
    PROVE  IInv'
<1>. DEFINE valid == ValidOut(offering)
            ready == ReadyOut(valid, accepting)
            takes(s) == ValidIn(s, valid, offering) /\ ready[s]
            gives(s) == valid[s] /\ ReadyIn(s, valid, ready, accepting)
<1>1. /\ taken' = [s \in IPs |-> IF takes(s) THEN taken[s] + 1 ELSE taken[s]]
      /\ given' = [s \in IPs |-> IF gives(s) THEN given[s] + 1 ELSE given[s]]
  BY DEF Clock
<1>2. \A s, d \in IPs : <<s, d>> \in Edges /\ Cardinality(Down(s)) = 1
                            => (takes(d) <=> gives(s))
  BY SameHandshake
<1>.  HIDE DEF takes, gives
<1>3. CountsOK'
  BY <1>1 DEF IInv, CountsOK
<1>4. UnforkedInStep'
  <2>1. SUFFICES ASSUME NEW e \in Unforked
                 PROVE  taken'[e[2]] = given'[e[1]]
    BY DEF UnforkedInStep
  <2>2. /\ e[1] \in IPs /\ e[2] \in IPs /\ e = <<e[1], e[2]>>
        /\ <<e[1], e[2]>> \in Edges /\ Cardinality(Down(e[1])) = 1
    BY NetworkAssumption DEF Unforked
  <2>3. taken[e[2]] = given[e[1]]
    BY DEF IInv, UnforkedInStep
  <2>4. takes(e[2]) <=> gives(e[1])
    BY <1>2, <2>2
  <2>.  QED  BY <1>1, <2>2, <2>3, <2>4
<1>.  QED  BY <1>3, <1>4 DEF IInv

LEMMA NextIInv == IInv /\ [Next]_vars => IInv'
<1>. SUFFICES ASSUME IInv, [Next]_vars PROVE IInv'
  OBVIOUS
<1>1. CASE UNCHANGED vars
  BY <1>1 DEF vars, IInv, CountsOK, UnforkedInStep, Unforked
<1>2. CASE Next
  BY <1>2, ClockIInv DEF Next
<1>.  QED  BY <1>1, <1>2

\* No beat is lost, repeated or skewed on an edge out of a core that feeds
\* nothing else.
THEOREM UnforkedCorrect == Spec => []UnforkedInStep
<1>.  QED  BY InitIInv, NextIInv, PTL DEF Spec, IInv

-----------------------------------------------------------------------------
\* A set of naturals that is not empty has a least element.
LEMMA Least ==
    ASSUME NEW S, S \subseteq Nat, S # {}
    PROVE  \E n \in S : \A m \in S : n <= m
<1> DEFINE below == {p \in Nat \X Nat : p[1] < p[2]}
<1>1. IsWellFoundedOn(below, Nat)
  BY NatLessThanWellFounded DEF OpToRel
<1>2. \E n \in S : \A m \in S : ~ (<<m, n>> \in below)
  <2> HIDE DEF below
  <2> QED  BY <1>1, WFMin
<1>3. PICK n \in S : \A m \in S : ~ (<<m, n>> \in below)
  BY <1>2
<1>4. ASSUME NEW m \in S PROVE n <= m
  <2>1. m \in Nat /\ n \in Nat
    OBVIOUS
  <2>2. m < n => <<m, n>> \in below
    BY <2>1
  <2> HIDE DEF below
  <2> QED  BY <1>3, <2>1, <2>2
<1> QED  BY <1>4

\* Induction: the least number outside of S has a predecessor in it.
LEMMA Induction ==
    ASSUME NEW S, 0 \in S, \A n \in Nat : n \in S => n + 1 \in S
    PROVE  Nat \subseteq S
<1>1. SUFFICES ASSUME Nat \ S # {} PROVE FALSE
  OBVIOUS
<1>2. PICK n \in Nat \ S : \A m \in Nat \ S : n <= m
  BY <1>1, Least
<1>3. n # 0 /\ n - 1 \in Nat /\ n - 1 \in S
  BY <1>2
<1> QED  BY <1>2, <1>3

\* Signals F that depend on signals of lower rank only.
Ranked(F, I, rank) ==
    \A v, w \in [I -> BOOLEAN], s \in I :
        (\A u \in I : rank[u] < rank[s] => v[u] = w[u]) => F[v][s] = F[w][s]

\* Such signals have values.
LEMMA Settles ==
    ASSUME NEW I, NEW m \in Nat, NEW rank \in [I -> 0 .. m],
           NEW F \in [[I -> BOOLEAN] -> [I -> BOOLEAN]], Ranked(F, I, rank)
    PROVE  \E v \in [I -> BOOLEAN] : v = F[v]
<1>. DEFINE V == [I -> BOOLEAN]
            Settled(n, v) == \A s \in I : rank[s] < n => v[s] = F[v][s]
            S == {n \in Nat : \E v \in V : Settled(n, v)}
<1>1. 0 \in S
  <2>1. [s \in I |-> TRUE] \in V
    OBVIOUS
  <2>2. \A s \in I : ~(rank[s] < 0)
    OBVIOUS
  <2>.  QED  BY <2>1, <2>2
<1>2. ASSUME NEW n \in Nat, n \in S PROVE n + 1 \in S
  <2>1. PICK v \in V : Settled(n, v)
    BY <1>2
  <2>2. PICK w \in V : w = F[v]
    BY <2>1
  <2>3. ASSUME NEW s \in I, rank[s] < n + 1 PROVE w[s] = F[w][s]
    <3>1. ASSUME NEW u \in I, rank[u] < rank[s] PROVE v[u] = w[u]
      <4>1. rank[u] < n
        BY <2>3, <3>1
      <4>.  QED  BY <2>1, <2>2, <4>1
    <3>2. F[v][s] = F[w][s]
      BY <2>1, <2>2, <3>1 DEF Ranked
    <3>.  QED  BY <2>2, <3>2
  <2>.  QED  BY <2>3
<1>3. m + 1 \in S
  <2>.  HIDE DEF S
  <2>.  QED  BY <1>1, <1>2, Induction
<1>4. PICK v \in V : Settled(m + 1, v)
  BY <1>3
<1>5. \A s \in I : v[s] = F[v][s]
  BY <1>4
<1>6. F[v] \in V
  OBVIOUS
<1>.  QED  BY <1>5, <1>6

\* The combinational cores of a graph have an order.
InOrder(C, rank) ==
    \A e \in Edges : e[1] \in C /\ e[2] \in C => rank[e[1]] < rank[e[2]]

LEMMA OrderedSubset ==
    ASSUME NEW n \in Nat, NEW C \in SUBSET Combinational, Cardinality(C) = n + 1,
           \A D \in SUBSET Combinational :
               Cardinality(D) = n => \E rank \in [D -> 0 .. n] : InOrder(D, rank)
    PROVE  \E rank \in [C -> 0 .. n + 1] : InOrder(C, rank)
<1>1. IsFiniteSet(C) /\ C # {}
  <2>1. IsFiniteSet(C)
    BY NetworkAssumption, FS_Subset DEF Combinational
  <2>2. C # {}
    BY FS_EmptySet
  <2>.  QED  BY <2>1, <2>2
<1>2. PICK s \in C : Up(s) \cap C = {}
  BY <1>1, LoopAssumption
<1>3. Cardinality(C \ {s}) = n
  BY <1>1, FS_RemoveElement
<1>4. PICK rank \in [C \ {s} -> 0 .. n] : InOrder(C \ {s}, rank)
  BY <1>3
<1>5. PICK next \in [C -> 0 .. n + 1] :
          \A u \in C : next[u] = IF u = s THEN 0 ELSE rank[u] + 1
  <2>1. [u \in C |-> IF u = s THEN 0 ELSE rank[u] + 1] \in [C -> 0 .. n + 1]
    OBVIOUS
  <2>.  QED  BY <2>1
<1>6. ASSUME NEW e \in Edges, e[1] \in C, e[2] \in C PROVE next[e[1]] < next[e[2]]
  <2>1. e = <<e[1], e[2]>> /\ e[1] \in IPs
    BY NetworkAssumption
  <2>2. e[2] # s
    BY <1>2, <1>6, <2>1 DEF Up
  <2>3. rank[e[2]] \in 0 .. n
    BY <1>6, <2>2
  <2>4. CASE e[1] = s
    BY <1>5, <1>6, <2>2, <2>3, <2>4
  <2>5. CASE e[1] # s
    <3>1. rank[e[1]] < rank[e[2]] /\ rank[e[1]] \in 0 .. n
      BY <1>4, <1>6, <2>2, <2>5 DEF InOrder
    <3>.  QED  BY <1>5, <1>6, <2>2, <2>3, <2>5, <3>1
  <2>.  QED  BY <2>4, <2>5
<1>.  QED  BY <1>6 DEF InOrder

LEMMA CombinationalOrder ==
    \E m \in Nat : \E rank \in [IPs -> 0 .. m] : InOrder(Combinational, rank)
<1>. DEFINE Ordered(n) == \A C \in SUBSET Combinational :
                Cardinality(C) = n => \E rank \in [C -> 0 .. n] : InOrder(C, rank)
            S == {n \in Nat : Ordered(n)}
<1>1. Ordered(0)
  <2>1. SUFFICES ASSUME NEW C \in SUBSET Combinational, Cardinality(C) = 0
                 PROVE  \E rank \in [C -> 0 .. 0] : InOrder(C, rank)
    OBVIOUS
  <2>2. C = {}
    <3>1. IsFiniteSet(C)
      BY NetworkAssumption, FS_Subset DEF Combinational
    <3>.  QED  BY <2>1, <3>1, FS_EmptySet
  <2>3. [u \in C |-> 0] \in [C -> 0 .. 0]
    OBVIOUS
  <2>.  QED  BY <2>2, <2>3 DEF InOrder
<1>2. ASSUME NEW n \in Nat, Ordered(n) PROVE Ordered(n + 1)
  BY <1>2, OrderedSubset
<1>3. 0 \in S /\ \A n \in Nat : n \in S => n + 1 \in S
  <2>.  HIDE DEF Ordered
  <2>.  QED  BY <1>1, <1>2
<1>4. IsFiniteSet(Combinational)
  BY NetworkAssumption, FS_Subset DEF Combinational
<1>5. PICK m \in Nat : m = Cardinality(Combinational)
  BY <1>4, FS_CardinalityType
<1>6. m \in S
  <2>.  HIDE DEF S
  <2>.  QED  BY <1>3, Induction
<1>7. PICK rank \in [Combinational -> 0 .. m] : InOrder(Combinational, rank)
  BY <1>5, <1>6
<1>8. PICK all \in [IPs -> 0 .. m] :
          \A s \in IPs : all[s] = IF s \in Combinational THEN rank[s] ELSE 0
  <2>1. [s \in IPs |-> IF s \in Combinational THEN rank[s] ELSE 0] \in [IPs -> 0 .. m]
    OBVIOUS
  <2>.  QED  BY <2>1
<1>9. InOrder(Combinational, all)
  BY <1>7, <1>8 DEF InOrder, Combinational
<1>.  QED  BY <1>9

\* What the recursive definition of the valid wires says of each.
LEMMA ValidWires ==
    ASSUME NEW offering
    PROVE  LET valid == ValidOut(offering)
           IN \A s \in IPs : valid[s] = IF Kind[s] = "activation"
                                        THEN ValidIn(s, valid, offering) ELSE Offers(s)
<1>. DEFINE Wire(s, v) == IF Kind[s] = "activation"
                          THEN ValidIn(s, v, offering) ELSE Offers(s)
            valid[s \in IPs] == Wire(s, valid)
<1>0. PICK m \in Nat : \E rank \in [IPs -> 0 .. m] : InOrder(Combinational, rank)
  BY CombinationalOrder
<1>1. PICK rank \in [IPs -> 0 .. m] :
          \A e \in Edges : e[1] \in Combinational /\ e[2] \in Combinational
                               => rank[e[1]] < rank[e[2]]
  BY <1>0 DEF InOrder
<1>2. ASSUME NEW s \in IPs, NEW v \in [IPs -> BOOLEAN] PROVE Wire(s, v) \in BOOLEAN
  <2>1. ValidIn(s, v, offering) \in BOOLEAN
    <3>1. (\A u \in Up(s) : v[u]) \in BOOLEAN
      OBVIOUS
    <3>2. (s \in offering) \in BOOLEAN
      OBVIOUS
    <3>.  QED  BY <3>1, <3>2, Zenon DEF ValidIn
  <2>2. Kind[s] # "activation" => Offers(s) \in BOOLEAN
    <3>1. CASE Kind[s] \in {"fifo", "alu"}
      BY <3>1 DEF Offers
    <3>2. CASE Kind[s] = "norm"
      BY <3>2 DEF Offers
    <3>3. CASE Kind[s] = "softmax"
      BY <3>3 DEF Offers, DivActive
    <3>4. CASE Kind[s] = "tgemm"
      BY <3>4 DEF Offers, Emitting
    <3>.  QED  BY <3>1, <3>2, <3>3, <3>4, NetworkAssumption DEF Kinds
  <2>.  QED  BY <2>1, <2>2
<1>3. PICK F : F = [v \in [IPs -> BOOLEAN] |-> [s \in IPs |-> Wire(s, v)]]
  OBVIOUS
<1>4. PICK below \in [IPs -> 0 .. m + 1] :
          \A s \in IPs : below[s] = IF Kind[s] = "activation" THEN rank[s] + 1 ELSE 0
  <2>1. [s \in IPs |-> IF Kind[s] = "activation" THEN rank[s] + 1 ELSE 0]
            \in [IPs -> 0 .. m + 1]
    OBVIOUS
  <2>.  QED  BY <2>1
<1>5. ASSUME NEW s \in IPs, NEW v, NEW w,
             \A u \in IPs : below[u] < below[s] => v[u] = w[u]
      PROVE  Wire(s, v) = Wire(s, w)
  <2>1. SUFFICES ASSUME Kind[s] = "activation"
                 PROVE  ValidIn(s, v, offering) = ValidIn(s, w, offering)
    OBVIOUS
  <2>2. ASSUME NEW u \in Up(s) PROVE v[u] = w[u]
    <3>1. u \in IPs /\ <<u, s>> \in Edges
      BY DEF Up
    <3>2. Kind[u] = "activation" => rank[u] < rank[s]
      BY <1>1, <2>1, <3>1 DEF Combinational
    <3>3. rank[u] \in 0 .. m /\ rank[s] \in 0 .. m
      BY <3>1
    <3>4. below[u] < below[s]
      BY <1>4, <2>1, <3>1, <3>2, <3>3
    <3>.  QED  BY <1>5, <3>1, <3>4
  <2>.  QED  BY <2>2 DEF ValidIn
<1>.  HIDE DEF Wire
<1>6. F \in [[IPs -> BOOLEAN] -> [IPs -> BOOLEAN]]
  BY <1>2, <1>3
<1>7. ASSUME NEW v \in [IPs -> BOOLEAN], NEW w \in [IPs -> BOOLEAN], NEW s \in IPs,
             \A u \in IPs : below[u] < below[s] => v[u] = w[u]
      PROVE  F[v][s] = F[w][s]
  BY <1>3, <1>5, <1>7
<1>8. \E v \in [IPs -> BOOLEAN] : v = F[v]
  <2>1. PICK k \in Nat : k = m + 1
    OBVIOUS
  <2>2. below \in [IPs -> 0 .. k]
    BY <2>1
  <2>3. Ranked(F, IPs, below)
    BY <1>7 DEF Ranked
  <2>.  QED  BY <1>6, <2>2, <2>3, Settles
<1>9. \E v : v = [s \in IPs |-> Wire(s, v)]
  BY <1>3, <1>8
<1>10. valid = [s \in IPs |-> Wire(s, valid)]
  BY <1>9
<1>11. ValidOut(offering) = valid
  BY DEF ValidOut, Wire
<1>.  HIDE DEF valid
<1>.  QED  BY <1>10, <1>11 DEF Wire

\* And of the ready wires.
LEMMA ReadyWires ==
    ASSUME NEW valid, NEW accepting
    PROVE  LET ready == ReadyOut(valid, accepting)
               passed(s) == ReadyIn(s, valid, ready, accepting)
           IN \A s \in IPs :
                  ready[s] = CASE Kind[s] = "activation" -> passed(s)
                               [] Kind[s] = "alu" -> ~Offers(s) \/ passed(s)
                               [] OTHER -> Accepts(s)
<1>. DEFINE Wire(s, r) == CASE Kind[s] = "activation" -> ReadyIn(s, valid, r, accepting)
                            [] Kind[s] = "alu" -> \/ ~Offers(s)
                                                  \/ ReadyIn(s, valid, r, accepting)
                            [] OTHER -> Accepts(s)
            ready[s \in IPs] == Wire(s, ready)
<1>0. PICK m \in Nat : \E rank \in [IPs -> 0 .. m] : InOrder(Combinational, rank)
  BY CombinationalOrder
<1>1. PICK rank \in [IPs -> 0 .. m] :
          \A e \in Edges : e[1] \in Combinational /\ e[2] \in Combinational
                               => rank[e[1]] < rank[e[2]]
  BY <1>0 DEF InOrder
<1>2. ASSUME NEW s \in IPs, NEW r \in [IPs -> BOOLEAN] PROVE Wire(s, r) \in BOOLEAN
  <2>1. ReadyIn(s, valid, r, accepting) \in BOOLEAN
    <3>1. /\ (s \in accepting) \in BOOLEAN
          /\ (/\ \A d \in Down(s) : r[d]
              /\ Cardinality(Down(s)) = 1
                     => \A d \in Down(s) : \A u \in Up(d) \ {s} : valid[u]) \in BOOLEAN
      OBVIOUS
    <3>.  QED  BY <3>1, Zenon DEF ReadyIn
  <2>2. s \notin Combinational => Accepts(s) \in BOOLEAN
    <3>1. CASE Kind[s] = "fifo"
      BY <3>1 DEF Accepts
    <3>2. CASE Kind[s] = "norm"
      BY <3>2 DEF Accepts
    <3>3. CASE Kind[s] = "softmax"
      BY <3>3 DEF Accepts
    <3>4. CASE Kind[s] = "tgemm"
      BY <3>4 DEF Accepts, Emitting
    <3>.  QED  BY <3>1, <3>2, <3>3, <3>4, NetworkAssumption DEF Kinds, Combinational
  <2>.  QED  BY <2>1, <2>2 DEF Combinational
<1>3. PICK F : F = [r \in [IPs -> BOOLEAN] |-> [s \in IPs |-> Wire(s, r)]]
  OBVIOUS
<1>4. PICK above \in [IPs -> 0 .. m + 1] :
          \A s \in IPs : above[s] = IF s \in Combinational THEN m - rank[s] + 1 ELSE 0
  <2>1. [s \in IPs |-> IF s \in Combinational THEN m - rank[s] + 1 ELSE 0]
            \in [IPs -> 0 .. m + 1]
    OBVIOUS
  <2>.  QED  BY <2>1
<1>5. ASSUME NEW s \in IPs, NEW r, NEW w,
             \A d \in IPs : above[d] < above[s] => r[d] = w[d]
      PROVE  Wire(s, r) = Wire(s, w)
  <2>1. SUFFICES ASSUME s \in Combinational
                 PROVE  ReadyIn(s, valid, r, accepting) = ReadyIn(s, valid, w, accepting)
    BY DEF Combinational
  <2>2. ASSUME NEW d \in Down(s) PROVE r[d] = w[d]
    <3>1. d \in IPs /\ <<s, d>> \in Edges
      BY DEF Down
    <3>2. d \in Combinational => rank[s] < rank[d]
      BY <1>1, <2>1, <3>1
    <3>3. rank[d] \in 0 .. m /\ rank[s] \in 0 .. m
      BY <3>1
    <3>4. above[d] < above[s]
      BY <1>4, <2>1, <3>1, <3>2, <3>3
    <3>.  QED  BY <1>5, <3>1, <3>4
  <2>.  QED  BY <2>2 DEF ReadyIn
<1>.  HIDE DEF Wire
<1>6. F \in [[IPs -> BOOLEAN] -> [IPs -> BOOLEAN]]
  BY <1>2, <1>3
<1>7. ASSUME NEW v \in [IPs -> BOOLEAN], NEW w \in [IPs -> BOOLEAN], NEW s \in IPs,
             \A u \in IPs : above[u] < above[s] => v[u] = w[u]
      PROVE  F[v][s] = F[w][s]
  BY <1>3, <1>5, <1>7
<1>8. \E v \in [IPs -> BOOLEAN] : v = F[v]
  <2>1. PICK k \in Nat : k = m + 1
    OBVIOUS
  <2>2. above \in [IPs -> 0 .. k]
    BY <2>1
  <2>3. Ranked(F, IPs, above)
    BY <1>7 DEF Ranked
  <2>.  QED  BY <1>6, <2>2, <2>3, Settles
<1>9. \E v : v = [s \in IPs |-> Wire(s, v)]
  BY <1>3, <1>8
<1>10. ready = [s \in IPs |-> Wire(s, ready)]
  BY <1>9
<1>11. ReadyOut(valid, accepting) = ready
  BY DEF ReadyOut, Wire
<1>.  HIDE DEF ready
<1>.  QED  BY <1>10, <1>11 DEF Wire

-----------------------------------------------------------------------------
\* A count of beats, in packets and beats of the next.
Beat(n) == n % NumBeats

LEMMA Counted ==
    ASSUME NEW n \in Nat
    PROVE  /\ Packets(n) \in Nat /\ Beat(n) \in 0 .. NumBeats - 1
           /\ n = NumBeats * Packets(n) + Beat(n)
<1>.  QED  BY NetworkAssumption DEF Packets, Beat

\* The one reading of it.
LEMMA ReadOff ==
    ASSUME NEW n \in Nat, NEW p \in Nat, NEW b \in 0 .. NumBeats - 1,
           n = NumBeats * p + b
    PROVE  Packets(n) = p /\ Beat(n) = b
<1>1. PICK q \in Nat, c \in 0 .. NumBeats - 1 :
          Packets(n) = q /\ Beat(n) = c /\ n = NumBeats * q + c
  BY Counted
<1>2. PICK e \in Int : e = q - p
  OBVIOUS
<1>3. NumBeats * e = b - c
  BY <1>1, <1>2, NetworkAssumption
<1>4. e >= 1 => NumBeats * e >= NumBeats
  BY NetworkAssumption
<1>5. e <= -1 => NumBeats * e <= -NumBeats
  BY NetworkAssumption
<1>6. e = 0
  BY <1>1, <1>3, <1>4, <1>5, NetworkAssumption
<1>.  QED  BY <1>1, <1>2, <1>3, <1>6, NetworkAssumption

\* What one beat more makes of a count.
LEMMA OneMore ==
    ASSUME NEW n \in Nat
    PROVE  IF Beat(n) = NumBeats - 1
           THEN Packets(n + 1) = Packets(n) + 1 /\ Beat(n + 1) = 0
           ELSE Packets(n + 1) = Packets(n) /\ Beat(n + 1) = Beat(n) + 1
<1>1. PICK q \in Nat, c \in 0 .. NumBeats - 1 :
          Packets(n) = q /\ Beat(n) = c /\ n = NumBeats * q + c
  BY Counted
<1>2. CASE c = NumBeats - 1
  <2>1. n + 1 = NumBeats * (q + 1) + 0
    BY <1>1, <1>2, NetworkAssumption
  <2>2. n + 1 \in Nat /\ q + 1 \in Nat /\ 0 \in 0 .. NumBeats - 1
    BY NetworkAssumption
  <2>.  QED  BY <1>1, <1>2, <2>1, <2>2, ReadOff
<1>3. CASE c # NumBeats - 1
  <2>1. n + 1 = NumBeats * q + (c + 1)
    BY <1>1, NetworkAssumption
  <2>2. n + 1 \in Nat /\ c + 1 \in 0 .. NumBeats - 1
    BY <1>3, NetworkAssumption
  <2>.  QED  BY <1>1, <1>3, <2>1, <2>2, ReadOff
<1>.  QED  BY <1>2, <1>3

-----------------------------------------------------------------------------
\* How far the counts of each multi-beat core may part: t taken, m summed and
\* g given.
NormHolds(t, g) ==
    /\ Packets(t) - Packets(g) \in 0 .. 2
    /\ Packets(g) = Packets(t) => Beat(g) = 0

\* The sum follows the producer by a packet at most, at the producer's pace, so
\* that its pointer never laps it.
SoftmaxHolds(t, m, g) ==
    /\ Packets(t) - Packets(g) \in 0 .. 3
    /\ \/ Packets(m) = Packets(t) /\ Beat(m) = 0
       \/ Packets(m) + 1 = Packets(t) /\ Beat(m) >= Beat(t)
    /\ Packets(g) <= Packets(m)
    /\ Packets(g) = Packets(m) => Beat(g) = 0

TGEMMHolds(t, g) ==
    \/ Packets(g) = Packets(t) /\ Beat(g) = 0
    \/ Packets(g) + 1 = Packets(t) /\ Beat(t) = 0

LEMMA NormClock ==
    ASSUME NEW t \in Nat, NEW g \in Nat, NormHolds(t, g),
           NEW t2, NEW g2,
           t2 = t \/ (t2 = t + 1 /\ Packets(t) - Packets(g) < 2),
           g2 = g \/ (g2 = g + 1 /\ Packets(t) - Packets(g) > 0)
    PROVE  NormHolds(t2, g2)
<1>1. /\ Packets(t) \in Nat /\ Beat(t) \in 0 .. NumBeats - 1
      /\ Packets(g) \in Nat /\ Beat(g) \in 0 .. NumBeats - 1
  BY Counted
<1>.  QED  BY <1>1, OneMore, NetworkAssumption DEF NormHolds

LEMMA SoftmaxClock ==
    ASSUME NEW t \in Nat, NEW m \in Nat, NEW g \in Nat, SoftmaxHolds(t, m, g),
           NEW t2, NEW m2, NEW g2,
           t2 = t \/ (t2 = t + 1 /\ Packets(t) - Packets(g) < 3),
           m2 = IF Packets(m) % 3 # Packets(t) % 3 THEN m + 1 ELSE m,
           g2 = g \/ (g2 = g + 1 /\ Packets(g) % 3 # Packets(m) % 3)
    PROVE  SoftmaxHolds(t2, m2, g2)
<1>1. /\ Packets(t) \in Nat /\ Beat(t) \in 0 .. NumBeats - 1
      /\ Packets(m) \in Nat /\ Beat(m) \in 0 .. NumBeats - 1
      /\ Packets(g) \in Nat /\ Beat(g) \in 0 .. NumBeats - 1
  BY Counted
<1>2. m2 = IF Packets(m) = Packets(t) THEN m ELSE m + 1
  BY <1>1 DEF SoftmaxHolds
<1>3. g2 = g \/ (g2 = g + 1 /\ Packets(g) < Packets(m))
  BY <1>1 DEF SoftmaxHolds
<1>4. Packets(t2) - Packets(g2) \in 0 .. 3
  BY <1>1, <1>3, OneMore, NetworkAssumption DEF SoftmaxHolds
<1>5. \/ Packets(m2) = Packets(t2) /\ Beat(m2) = 0
      \/ Packets(m2) + 1 = Packets(t2) /\ Beat(m2) >= Beat(t2)
  BY <1>1, <1>2, OneMore, NetworkAssumption DEF SoftmaxHolds
<1>6. /\ Packets(g2) <= Packets(m2)
      /\ Packets(g2) = Packets(m2) => Beat(g2) = 0
  BY <1>1, <1>2, <1>3, OneMore, NetworkAssumption DEF SoftmaxHolds
<1>.  QED  BY <1>4, <1>5, <1>6 DEF SoftmaxHolds

LEMMA TGEMMClock ==
    ASSUME NEW t \in Nat, NEW g \in Nat, TGEMMHolds(t, g),
           NEW t2, NEW g2,
           t2 = t \/ (t2 = t + 1 /\ ~(Beat(t) = 0 /\ t # g)),
           g2 = g \/ (g2 = g + 1 /\ Beat(t) = 0 /\ t # g)
    PROVE  TGEMMHolds(t2, g2)
<1>1. /\ Packets(t) \in Nat /\ Beat(t) \in 0 .. NumBeats - 1
      /\ Packets(g) \in Nat /\ Beat(g) \in 0 .. NumBeats - 1
  BY Counted
<1>2. t = g <=> Packets(t) = Packets(g) /\ Beat(t) = Beat(g)
  BY Counted
<1>.  QED  BY <1>1, <1>2, OneMore, NetworkAssumption DEF TGEMMHolds

-----------------------------------------------------------------------------
\* What one core has taken, summed and given.
NodeHolds(s) ==
    CASE Kind[s] = "fifo" -> taken[s] - given[s] \in 0 .. Depth[s]
      [] Kind[s] = "alu" -> taken[s] - given[s] \in 0 .. 1
      [] Kind[s] = "activation" -> taken[s] = given[s]
      [] Kind[s] = "norm" -> NormHolds(taken[s], given[s])
      [] Kind[s] = "softmax" -> SoftmaxHolds(taken[s], summed[s], given[s])
      [] Kind[s] = "tgemm" -> TGEMMHolds(taken[s], given[s])

NodesHold == /\ CountsOK
             /\ summed \in [IPs -> Nat]
             /\ \A s \in IPs : NodeHolds(s)

LEMMA InitNodes == Init => NodesHold
<1>. SUFFICES ASSUME Init PROVE NodesHold
  OBVIOUS
<1>1. /\ CountsOK
      /\ summed \in [IPs -> Nat]
      /\ \A s \in IPs : taken[s] = 0 /\ given[s] = 0 /\ summed[s] = 0
  BY DEF Init, CountsOK
<1>2. Packets(0) = 0 /\ Beat(0) = 0
  <2>1. 0 = NumBeats * 0 + 0 /\ 0 \in 0 .. NumBeats - 1
    BY NetworkAssumption
  <2>.  QED  BY <2>1, ReadOff
<1>3. ASSUME NEW s \in IPs PROVE NodeHolds(s)
  <2>1. /\ NormHolds(taken[s], given[s])
        /\ SoftmaxHolds(taken[s], summed[s], given[s])
        /\ TGEMMHolds(taken[s], given[s])
    BY <1>1, <1>2 DEF NormHolds, SoftmaxHolds, TGEMMHolds
  <2>2. Kind[s] = "fifo" => 0 \in 0 .. Depth[s]
    BY NetworkAssumption
  <2>3. Kind[s] \in Kinds
    BY NetworkAssumption
  <2>4. taken[s] - given[s] = 0 /\ taken[s] = given[s]
    BY <1>1
  <2>5. CASE Kind[s] = "fifo"
    BY <2>2, <2>4, <2>5 DEF NodeHolds
  <2>6. CASE Kind[s] = "alu"
    BY <2>4, <2>6 DEF NodeHolds
  <2>7. CASE Kind[s] = "activation"
    BY <2>4, <2>7 DEF NodeHolds
  <2>8. CASE Kind[s] \in {"norm", "softmax", "tgemm"}
    BY <2>1, <2>8 DEF NodeHolds
  <2>.  QED  BY <2>3, <2>5, <2>6, <2>7, <2>8 DEF Kinds
<1>.  QED  BY <1>1, <1>3 DEF NodesHold

\* A core that can take or give does so only as its own registers let it.
LEMMA ClockNodes ==
    ASSUME NodesHold,
           NEW offering, NEW accepting, Clock(offering, accepting)
    PROVE  NodesHold'
<1>. DEFINE valid == ValidOut(offering)
            ready == ReadyOut(valid, accepting)
            offered(s) == ValidIn(s, valid, offering)
            passed(s) == ReadyIn(s, valid, ready, accepting)
<1>1. /\ taken' = [s \in IPs |-> IF offered(s) /\ ready[s] THEN taken[s] + 1 ELSE taken[s]]
      /\ given' = [s \in IPs |-> IF valid[s] /\ passed(s) THEN given[s] + 1 ELSE given[s]]
      /\ summed' = [s \in IPs |-> IF Kind[s] = "softmax" /\ SumActive(s)
                                  THEN summed[s] + 1 ELSE summed[s]]
  BY DEF Clock
<1>2. \A s \in IPs : valid[s] = IF Kind[s] = "activation" THEN offered(s) ELSE Offers(s)
  BY ValidWires
<1>3. \A s \in IPs : ready[s] = CASE Kind[s] = "activation" -> passed(s)
                                  [] Kind[s] = "alu" -> ~Offers(s) \/ passed(s)
                                  [] OTHER -> Accepts(s)
  BY ReadyWires
<1>.  HIDE DEF valid, ready, offered, passed
<1>4. CountsOK' /\ summed' \in [IPs -> Nat]
  BY <1>1 DEF NodesHold, CountsOK
<1>5. ASSUME NEW s \in IPs PROVE NodeHolds(s)'
  <2>1. PICK t \in Nat, g \in Nat, m \in Nat :
            t = taken[s] /\ g = given[s] /\ m = summed[s]
    BY DEF NodesHold, CountsOK
  <2>2. PICK t2 \in Nat, g2 \in Nat, m2 \in Nat :
            t2 = taken'[s] /\ g2 = given'[s] /\ m2 = summed'[s]
    BY <1>4 DEF CountsOK
  <2>3. /\ t2 = IF offered(s) /\ ready[s] THEN t + 1 ELSE t
        /\ g2 = IF valid[s] /\ passed(s) THEN g + 1 ELSE g
        /\ m2 = IF Kind[s] = "softmax" /\ SumActive(s) THEN m + 1 ELSE m
    BY <1>1, <2>1, <2>2
  <2>4. NodeHolds(s)
    BY DEF NodesHold
  <2>5. CASE Kind[s] = "fifo"
    <3>1. t - g \in 0 .. Depth[s]
      BY <2>1, <2>4, <2>5 DEF NodeHolds
    <3>2. valid[s] => t # g
      BY <1>2, <2>1, <2>5 DEF Offers
    <3>3. ready[s] => t - g < Depth[s]
      BY <1>3, <2>1, <2>5 DEF Accepts
    <3>4. Depth[s] \in Nat
      BY <2>5, NetworkAssumption
    <3>5. t2 - g2 \in 0 .. Depth[s]
      BY <2>3, <3>1, <3>2, <3>3, <3>4
    <3>.  QED  BY <2>2, <2>5, <3>5 DEF NodeHolds
  <2>6. CASE Kind[s] = "alu"
    <3>1. t - g \in 0 .. 1
      BY <2>1, <2>4, <2>6 DEF NodeHolds
    <3>2. valid[s] <=> t # g
      BY <1>2, <2>1, <2>6 DEF Offers
    <3>3. ready[s] => t = g \/ passed(s)
      BY <1>3, <2>1, <2>6 DEF Offers
    <3>4. t2 - g2 \in 0 .. 1
      BY <2>3, <3>1, <3>2, <3>3
    <3>.  QED  BY <2>2, <2>6, <3>4 DEF NodeHolds
  <2>7. CASE Kind[s] = "activation"
    <3>1. t = g
      BY <2>1, <2>4, <2>7 DEF NodeHolds
    <3>2. (offered(s) /\ ready[s]) <=> (valid[s] /\ passed(s))
      BY <1>2, <1>3, <2>7
    <3>3. t2 = g2
      BY <2>3, <3>1, <3>2
    <3>.  QED  BY <2>2, <2>7, <3>3 DEF NodeHolds
  <2>8. CASE Kind[s] = "norm"
    <3>1. NormHolds(t, g)
      BY <2>1, <2>4, <2>8 DEF NodeHolds
    <3>2. valid[s] => Packets(t) - Packets(g) > 0
      BY <1>2, <2>1, <2>8 DEF Offers, TokensInFlight
    <3>3. ready[s] => Packets(t) - Packets(g) < 2
      BY <1>3, <2>1, <2>8 DEF Accepts, TokensInFlight
    <3>4. NormHolds(t2, g2)
      BY <2>3, <3>1, <3>2, <3>3, NormClock
    <3>.  QED  BY <2>2, <2>8, <3>4 DEF NodeHolds
  <2>9. CASE Kind[s] = "softmax"
    <3>1. SoftmaxHolds(t, m, g)
      BY <2>1, <2>4, <2>9 DEF NodeHolds
    <3>2. valid[s] => Packets(g) % 3 # Packets(m) % 3
      BY <1>2, <2>1, <2>9 DEF Offers, DivActive
    <3>3. ready[s] => Packets(t) - Packets(g) < 3
      BY <1>3, <2>1, <2>9 DEF Accepts, TokensInFlight
    <3>4. m2 = IF Packets(m) % 3 # Packets(t) % 3 THEN m + 1 ELSE m
      BY <2>1, <2>3, <2>9 DEF SumActive
    <3>5. SoftmaxHolds(t2, m2, g2)
      BY <2>3, <3>1, <3>2, <3>3, <3>4, SoftmaxClock
    <3>.  QED  BY <2>2, <2>9, <3>5 DEF NodeHolds
  <2>10. CASE Kind[s] = "tgemm"
    <3>1. TGEMMHolds(t, g)
      BY <2>1, <2>4, <2>10 DEF NodeHolds
    <3>2. Emitting(s) <=> Beat(t) = 0 /\ t # g
      BY <2>1 DEF Emitting, Beat
    <3>3. (valid[s] <=> Emitting(s)) /\ (ready[s] <=> ~Emitting(s))
      BY <1>2, <1>3, <2>10 DEF Offers, Accepts
    <3>4. TGEMMHolds(t2, g2)
      BY <2>3, <3>1, <3>2, <3>3, TGEMMClock
    <3>.  QED  BY <2>2, <2>10, <3>4 DEF NodeHolds
  <2>.  QED  BY <2>5, <2>6, <2>7, <2>8, <2>9, <2>10, NetworkAssumption DEF Kinds
<1>.  QED  BY <1>4, <1>5 DEF NodesHold

LEMMA NextNodes == NodesHold /\ [Next]_vars => NodesHold'
<1>. SUFFICES ASSUME NodesHold, [Next]_vars PROVE NodesHold'
  OBVIOUS
<1>1. CASE UNCHANGED vars
  BY <1>1 DEF vars, NodesHold, NodeHolds, CountsOK
<1>2. CASE Next
  BY <1>2, ClockNodes DEF Next
<1>.  QED  BY <1>1, <1>2

LEMMA PacketsAhead ==
    ASSUME NEW p \in Nat, NEW q \in Nat, p < q
    PROVE  NumBeats * p + NumBeats <= NumBeats * q
<1>1. PICK e \in Nat : q = p + 1 + e
  <2>1. q - p - 1 \in Nat /\ q = p + 1 + (q - p - 1)
    OBVIOUS
  <2>.  QED  BY <2>1
<1>2. NumBeats * q = NumBeats * p + NumBeats + NumBeats * e
  BY <1>1, NetworkAssumption
<1>3. NumBeats * e \in Nat /\ NumBeats * p \in Nat
  BY NetworkAssumption
<1>.  QED  BY <1>2, <1>3, NetworkAssumption

\* Counts that differ by whole packets are apart by whole packets' beats.
LEMMA WholePackets ==
    ASSUME NEW n \in Nat, NEW g \in Nat, Packets(g) <= Packets(n),
           Packets(g) = Packets(n) => Beat(g) = 0
    PROVE  g <= NumBeats * Packets(n)
<1>1. PICK q \in Nat, c \in 0 .. NumBeats - 1 :
          Packets(g) = q /\ Beat(g) = c /\ g = NumBeats * q + c
  BY Counted
<1>2. PICK p \in Nat : Packets(n) = p
  BY Counted
<1>3. NumBeats * q \in Nat /\ NumBeats * p \in Nat
  BY NetworkAssumption
<1>4. CASE q = p
  BY <1>1, <1>2, <1>3, <1>4
<1>5. CASE q < p
  BY <1>1, <1>2, <1>3, <1>5, PacketsAhead, NetworkAssumption
<1>.  QED  BY <1>1, <1>2, <1>4, <1>5

LEMMA TGEMMFits ==
    ASSUME NEW t \in Nat, NEW g \in Nat, TGEMMHolds(t, g)
    PROVE  t - g \in 0 .. NumBeats
<1>1. PICK p \in Nat, b \in 0 .. NumBeats - 1 :
          Packets(t) = p /\ Beat(t) = b /\ t = NumBeats * p + b
  BY Counted
<1>2. PICK q \in Nat, c \in 0 .. NumBeats - 1 :
          Packets(g) = q /\ Beat(g) = c /\ g = NumBeats * q + c
  BY Counted
<1>3. CASE q = p /\ c = 0
  BY <1>1, <1>2, <1>3, NetworkAssumption
<1>4. CASE q + 1 = p /\ b = 0
  <2>1. NumBeats * p = NumBeats * q + NumBeats
    BY <1>4, NetworkAssumption
  <2>2. NumBeats * q \in Nat
    BY NetworkAssumption
  <2>.  QED  BY <1>1, <1>2, <1>4, <2>1, <2>2, NetworkAssumption
<1>.  QED  BY <1>1, <1>2, <1>3, <1>4 DEF TGEMMHolds

LEMMA NodesHoldImplies == NodesHold => TypeOK /\ WholePacketsOnly
<1>. SUFFICES ASSUME NodesHold PROVE TypeOK /\ WholePacketsOnly
  OBVIOUS
<1>1. \A s \in IPs : taken[s] \in Nat /\ given[s] \in Nat /\ summed[s] \in Nat
  BY DEF NodesHold, CountsOK
<1>2. \A s \in IPs : NodeHolds(s)
  BY DEF NodesHold
<1>3. ASSUME NEW s \in IPs PROVE Fits(s)
  <2>1. Kind[s] = "tgemm" => taken[s] - given[s] \in 0 .. NumBeats
    BY <1>1, <1>2, TGEMMFits DEF NodeHolds
  <2>2. Kind[s] = "norm" => TokensInFlight(s) \in 0 .. 2
    BY <1>2 DEF NodeHolds, NormHolds, TokensInFlight
  <2>3. Kind[s] = "softmax" => TokensInFlight(s) \in 0 .. 3
    BY <1>2 DEF NodeHolds, SoftmaxHolds, TokensInFlight
  <2>.  QED  BY <1>2, <2>1, <2>2, <2>3, NetworkAssumption DEF NodeHolds, Fits, Kinds
<1>4. TypeOK
  BY <1>3 DEF TypeOK, NodesHold, CountsOK
<1>5. ASSUME NEW s \in IPs, Kind[s] = "softmax"
      PROVE  /\ given[s] <= NumBeats * Packets(summed[s])
             /\ summed[s] <= NumBeats * Packets(taken[s])
             /\ given[s] <= NumBeats * Packets(taken[s])
  <2>1. PICK t \in Nat, g \in Nat, m \in Nat :
            t = taken[s] /\ g = given[s] /\ m = summed[s]
    BY <1>1
  <2>2. SoftmaxHolds(t, m, g)
    BY <1>2, <1>5, <2>1 DEF NodeHolds
  <2>3. Packets(t) \in Nat /\ Packets(m) \in Nat /\ Packets(g) \in Nat
    BY Counted
  <2>4. g <= NumBeats * Packets(m)
    BY <2>2, WholePackets DEF SoftmaxHolds
  <2>5. m <= NumBeats * Packets(t)
    BY <2>2, <2>3, WholePackets DEF SoftmaxHolds
  <2>6. Packets(g) <= Packets(t) /\ (Packets(g) = Packets(t) => Beat(g) = 0)
    BY <2>2, <2>3 DEF SoftmaxHolds
  <2>7. g <= NumBeats * Packets(t)
    BY <2>6, WholePackets
  <2>.  QED  BY <2>1, <2>4, <2>5, <2>7
<1>6. ASSUME NEW s \in IPs, Kind[s] \in {"norm", "tgemm"}
      PROVE  given[s] <= NumBeats * Packets(taken[s])
  <2>1. PICK t \in Nat, g \in Nat : t = taken[s] /\ g = given[s]
    BY <1>1
  <2>2. NormHolds(t, g) \/ TGEMMHolds(t, g)
    BY <1>2, <1>6, <2>1 DEF NodeHolds
  <2>3. Packets(t) \in Nat /\ Packets(g) \in Nat
    BY Counted
  <2>4. Packets(g) <= Packets(t) /\ (Packets(g) = Packets(t) => Beat(g) = 0)
    BY <2>2, <2>3 DEF NormHolds, TGEMMHolds
  <2>.  QED  BY <2>1, <2>4, WholePackets
<1>7. WholePacketsOnly
  BY <1>5, <1>6 DEF WholePacketsOnly
<1>.  QED  BY <1>4, <1>7

\* No core of a graph ever holds more than it has
\* room for.
THEOREM NetworkTypeCorrect == Spec => []TypeOK
<1>.  QED  BY InitNodes, NextNodes, NodesHoldImplies, PTL DEF Spec

\* No multi-beat core gives a packet away before it has all of it.
THEOREM WholePacketsCorrect == Spec => []WholePacketsOnly
<1>.  QED  BY InitNodes, NextNodes, NodesHoldImplies, PTL DEF Spec

-----------------------------------------------------------------------------
(***************************************************************************)
(* The transformer block.  In step, its state is eleven counts of beats,   *)
(* each as far as the one before it or behind: q taken by the input FIFO,  *)
(* i given by it, n by norm1, g by tgemm1, m summed by the softmax, d      *)
(* given by it, h by tgemm2, u by alu1, w by norm2, k by tgemm3 and so by  *)
(* the activation, o by tgemm4.  Each core waits for whole packets and     *)
(* then passes a beat on in every cycle, so that the cores behind the      *)
(* input FIFO, which lets a beat through every second cycle, are done with *)
(* a packet before the next is there.  The definitions ending in Paced say *)
(* how far each part must be when the part before it goes on; each is      *)
(* inductive given the parts before it.                                    *)
(***************************************************************************)
\* A whole packet is in and not yet out.
Due(t, g) == Packets(g) < Packets(t)

\* norm1 and tgemm1, behind the input FIFO.
InputPaced(q, i, n, g) ==
    /\ q - i \in 0 .. 1
    /\ 2 * (i - n) + (q - i) + (n - g) <= 2 * NumBeats

\* The softmax, between tgemm1 and tgemm2.
SoftmaxPaced(n, g, m, d, h) ==
    /\ Packets(m) - Packets(d) \in 0 .. 1
    /\ Due(g, m) => /\ ~Due(n, g) /\ Beat(n) <= Beat(m)
                    /\ ~Due(m, d)
                    /\ Due(d, h) => Beat(m) <= Beat(h)
    /\ ~Due(g, m) /\ Due(m, d) => /\ ~Due(d, h)
                                  /\ Due(n, g) => Beat(g) <= Beat(d)

\* alu1, behind tgemm2.
ALUPaced(d, h, u) ==
    /\ h - u \in 0 .. 1
    /\ h # u => Beat(d) = 0 /\ (Due(d, h) => Beat(h) # 0)

\* norm2 and tgemm3, behind alu1.
NormPaced(d, h, u, w, k) ==
    /\ Due(u, w) => /\ ~Due(w, k)
                    /\ Packets(u) = Packets(w) + 1
                    /\ h = u
                    /\ IF Due(d, h) THEN Beat(h) = 0 /\ Beat(w) = NumBeats - 1
                                    ELSE Beat(d) <= Beat(w) + 1
    /\ ~Due(u, w) /\ Due(w, k) => IF Due(d, h) THEN Beat(h) <= Beat(k) + 1
                                  ELSE h # u => Beat(k) = NumBeats - 1

\* tgemm4, behind tgemm3.
OutputPaced(w, k, o) == Due(k, o) => ~Due(w, k) /\ Beat(w) <= Beat(o)

\* A cycle of each part, in which nothing behind it is in its way.
InputCycle(q, i, n, g, q2, i2, n2, g2) ==
    /\ q2 = q \/ (q2 = q + 1 /\ q = i)
    /\ i2 = IF q # i THEN i + 1 ELSE i
    /\ n2 = IF Due(i, n) /\ ~Due(n, g) THEN n + 1 ELSE n
    /\ g2 = IF Due(n, g) THEN g + 1 ELSE g

LEMMA InputClock ==
    ASSUME NEW q \in Nat, NEW i \in Nat, NEW n \in Nat, NEW g \in Nat,
           NormHolds(i, n), TGEMMHolds(n, g), InputPaced(q, i, n, g),
           NEW q2, NEW i2, NEW n2, NEW g2,
           InputCycle(q, i, n, g, q2, i2, n2, g2)
    PROVE  InputPaced(q2, i2, n2, g2)
<1>.  USE DEF InputCycle
<1>1. CASE Due(i, n) \/ Due(n, g)
  BY <1>1, NetworkAssumption DEF InputPaced
<1>2. CASE ~Due(i, n) /\ ~Due(n, g)
  <2>1. /\ Packets(i) = Packets(n) /\ Beat(n) = 0
        /\ Packets(n) = Packets(g) /\ Beat(g) = 0
    <3>1. Packets(i) \in Nat /\ Packets(n) \in Nat /\ Packets(g) \in Nat
      BY Counted
    <3>.  QED  BY <1>2, <3>1 DEF Due, NormHolds, TGEMMHolds
  <2>2. n = g /\ i - n = Beat(i)
    <3>1. PICK r \in Nat : r = NumBeats * Packets(n)
      BY Counted, NetworkAssumption
    <3>2. /\ i = r + Beat(i) /\ Beat(i) \in Nat
          /\ n = r /\ g = r
      BY <2>1, <3>1, Counted
    <3>.  QED  BY <3>2
  <2>3. Beat(i) \in 0 .. NumBeats - 1
    BY Counted
  <2>4. q2 - i2 \in 0 .. 1 /\ 2 * (i2 - n) + (q2 - i2) <= 2 * (i - n) + (q - i) + 1
    BY DEF InputPaced
  <2>5. n2 = n /\ g2 = g
    BY <1>2
  <2>6. q - i \in 0 .. 1
    BY DEF InputPaced
  <2>7. 2 * (i - n) + 2 <= 2 * NumBeats
    BY <2>2, <2>3, NetworkAssumption
  <2>.  QED  BY <2>2, <2>4, <2>5, <2>6, <2>7, NetworkAssumption DEF InputPaced
<1>.  QED  BY <1>1, <1>2

SoftmaxCycle(n, g, m, d, h, n2, g2, m2, d2, h2) ==
    /\ n2 = n \/ (n2 = n + 1 /\ ~Due(n, g))
    /\ g2 = IF Due(n, g) THEN g + 1 ELSE g
    /\ m2 = IF Due(g, m) THEN m + 1 ELSE m
    /\ d2 = IF Due(m, d) /\ ~Due(d, h) THEN d + 1 ELSE d
    /\ h2 = IF Due(d, h) THEN h + 1 ELSE h

LEMMA SoftmaxStagesClock ==
    ASSUME NEW n \in Nat, NEW g \in Nat, NEW m \in Nat, NEW d \in Nat, NEW h \in Nat,
           TGEMMHolds(n, g), SoftmaxHolds(g, m, d), TGEMMHolds(d, h),
           SoftmaxPaced(n, g, m, d, h),
           NEW n2, NEW g2, NEW m2, NEW d2, NEW h2,
           SoftmaxCycle(n, g, m, d, h, n2, g2, m2, d2, h2)
    PROVE  SoftmaxPaced(n2, g2, m2, d2, h2)
<1>.  USE DEF SoftmaxCycle
<1>1. /\ Packets(n) \in Nat /\ Beat(n) \in 0 .. NumBeats - 1
      /\ Packets(g) \in Nat /\ Beat(g) \in 0 .. NumBeats - 1
      /\ Packets(m) \in Nat /\ Beat(m) \in 0 .. NumBeats - 1
      /\ Packets(d) \in Nat /\ Beat(d) \in 0 .. NumBeats - 1
      /\ Packets(h) \in Nat /\ Beat(h) \in 0 .. NumBeats - 1
  BY Counted
<1>2. CASE Due(g, m)
  <2>1. /\ n2 = n \/ n2 = n + 1
        /\ g2 = g /\ m2 = m + 1 /\ d2 = d
        /\ h2 = IF Due(d, h) THEN h + 1 ELSE h
        /\ Packets(n) = Packets(g) /\ Beat(g) = 0 /\ Beat(n) <= Beat(m)
        /\ Packets(g) = Packets(m) + 1
        /\ Packets(d) = Packets(m) /\ Beat(d) = 0
        /\ Due(d, h) => Beat(m) <= Beat(h) /\ Packets(d) = Packets(h) + 1
        /\ ~Due(d, h) => Packets(d) = Packets(h)
    BY <1>1, <1>2 DEF SoftmaxPaced, SoftmaxHolds, TGEMMHolds, Due
  <2>2. CASE Beat(m) = NumBeats - 1
    <3>1. Packets(m2) = Packets(m) + 1 /\ Beat(m2) = 0
      BY <2>1, <2>2, OneMore
    <3>2. ~Due(d2, h2)
      BY <1>1, <2>1, <2>2, OneMore, NetworkAssumption DEF Due
    <3>.  QED  BY <1>1, <2>1, <3>1, <3>2 DEF SoftmaxPaced, Due
  <2>3. CASE Beat(m) # NumBeats - 1
    <3>1. Packets(m2) = Packets(m) /\ Beat(m2) = Beat(m) + 1
      BY <2>1, <2>3, OneMore
    <3>2. Packets(n2) = Packets(g) /\ Beat(n2) <= Beat(m) + 1
      BY <1>1, <2>1, <2>3, OneMore, NetworkAssumption
    <3>3. Due(d2, h2) => Beat(m) + 1 <= Beat(h2)
      BY <1>1, <2>1, OneMore, NetworkAssumption DEF Due
    <3>.  QED  BY <1>1, <2>1, <3>1, <3>2, <3>3 DEF SoftmaxPaced, Due
  <2>.  QED  BY <2>2, <2>3
<1>3. CASE ~Due(g, m) /\ Due(m, d)
  BY <1>1, <1>3, OneMore, NetworkAssumption
     DEF SoftmaxPaced, SoftmaxHolds, TGEMMHolds, Due
<1>4. CASE ~Due(g, m) /\ ~Due(m, d)
  BY <1>1, <1>4, OneMore, NetworkAssumption
     DEF SoftmaxPaced, SoftmaxHolds, TGEMMHolds, Due
<1>.  QED  BY <1>2, <1>3, <1>4

ALUCycle(d, h, u, d2, h2, u2) ==
    /\ d2 = d \/ (d2 = d + 1 /\ ~Due(d, h))
    /\ h2 = IF Due(d, h) THEN h + 1 ELSE h
    /\ u2 = IF h # u THEN u + 1 ELSE u

LEMMA ALUClock ==
    ASSUME NEW d \in Nat, NEW h \in Nat, NEW u \in Nat,
           TGEMMHolds(d, h), ALUPaced(d, h, u),
           NEW d2, NEW h2, NEW u2,
           ALUCycle(d, h, u, d2, h2, u2)
    PROVE  ALUPaced(d2, h2, u2)
<1>.  USE DEF ALUCycle
<1>1. /\ Packets(d) \in Nat /\ Beat(d) \in 0 .. NumBeats - 1
      /\ Packets(h) \in Nat /\ Beat(h) \in 0 .. NumBeats - 1
  BY Counted
<1>.  QED  BY <1>1, OneMore, NetworkAssumption DEF ALUPaced, TGEMMHolds, Due

NormCycle(d, h, u, w, k, d2, h2, u2, w2, k2) ==
    /\ d2 = d \/ (d2 = d + 1 /\ ~Due(d, h))
    /\ h2 = IF Due(d, h) THEN h + 1 ELSE h
    /\ u2 = IF h # u THEN u + 1 ELSE u
    /\ w2 = IF Due(u, w) /\ ~Due(w, k) THEN w + 1 ELSE w
    /\ k2 = IF Due(w, k) THEN k + 1 ELSE k

LEMMA NormStagesClock ==
    ASSUME NEW d \in Nat, NEW h \in Nat, NEW u \in Nat, NEW w \in Nat, NEW k \in Nat,
           TGEMMHolds(d, h), NormHolds(u, w), TGEMMHolds(w, k),
           ALUPaced(d, h, u), NormPaced(d, h, u, w, k),
           NEW d2, NEW h2, NEW u2, NEW w2, NEW k2,
           NormCycle(d, h, u, w, k, d2, h2, u2, w2, k2)
    PROVE  NormPaced(d2, h2, u2, w2, k2)
<1>.  USE DEF NormCycle
<1>1. /\ Packets(d) \in Nat /\ Beat(d) \in 0 .. NumBeats - 1
      /\ Packets(h) \in Nat /\ Beat(h) \in 0 .. NumBeats - 1
      /\ Packets(u) \in Nat /\ Beat(u) \in 0 .. NumBeats - 1
      /\ Packets(w) \in Nat /\ Beat(w) \in 0 .. NumBeats - 1
      /\ Packets(k) \in Nat /\ Beat(k) \in 0 .. NumBeats - 1
  BY Counted
<1>2. h = u \/ h = u + 1
  BY DEF ALUPaced
<1>3. CASE Due(u, w)
  BY <1>1, <1>2, <1>3, OneMore, NetworkAssumption
     DEF NormPaced, ALUPaced, NormHolds, TGEMMHolds, Due
<1>4. CASE ~Due(u, w) /\ Due(w, k)
  <2>1. /\ w2 = w /\ k2 = k + 1
        /\ Packets(u) = Packets(w) /\ Beat(w) = 0
        /\ Packets(w) = Packets(k) + 1
    BY <1>1, <1>4 DEF NormHolds, TGEMMHolds, Due
  <2>2. CASE Beat(k) = NumBeats - 1
    <3>1. ~Due(w2, k2)
      BY <1>1, <2>1, <2>2, OneMore DEF Due
    <3>2. CASE Due(u2, w2)
      <4>1. /\ Packets(u2) = Packets(w2) + 1 /\ Beat(u2) = 0
            /\ h = u + 1 /\ u2 = h
        BY <1>1, <1>2, <2>1, <3>2, OneMore DEF Due
      <4>2. ~Due(d, h) /\ Beat(d) = 0 /\ h2 = u2
        BY <4>1 DEF ALUPaced
      <4>3. Due(d2, h2) => NumBeats = 1
        BY <1>1, <4>2, OneMore, NetworkAssumption DEF Due
      <4>4. Beat(d2) <= 1
        BY <1>1, <4>2, OneMore, NetworkAssumption
      <4>.  QED  BY <1>1, <2>1, <3>1, <4>1, <4>2, <4>3, <4>4 DEF NormPaced
    <3>.  QED  BY <3>1, <3>2 DEF NormPaced
  <2>3. CASE Beat(k) # NumBeats - 1
    <3>1. Packets(k2) = Packets(k) /\ Beat(k2) = Beat(k) + 1
      BY <2>1, <2>3, OneMore
    <3>2. CASE Due(d, h)
      <4>1. h2 = h + 1 /\ d2 = d /\ Beat(h) <= Beat(k) + 1
        BY <1>4, <3>2 DEF NormPaced
      <4>2. ~Due(u2, w2)
        BY <1>1, <1>2, <2>1, <3>2, OneMore DEF Due, ALUPaced
      <4>3. IF Due(d2, h2) THEN Beat(h2) <= Beat(k2) + 1
                           ELSE Beat(k2) = NumBeats - 1
        BY <1>1, <2>3, <3>1, <3>2, <4>1, OneMore, NetworkAssumption
           DEF TGEMMHolds, Due
      <4>.  QED  BY <4>2, <4>3 DEF NormPaced
    <3>3. CASE ~Due(d, h)
      <4>1. h = u /\ h2 = h /\ u2 = u
        BY <1>4, <2>3, <3>3 DEF NormPaced
      <4>2. Beat(h) = 0
        BY <1>1, <3>3 DEF TGEMMHolds, Due
      <4>3. ~Due(u2, w2)
        BY <1>4, <2>1, <4>1
      <4>.  QED  BY <1>1, <3>1, <4>1, <4>2, <4>3 DEF NormPaced
    <3>.  QED  BY <3>2, <3>3
  <2>.  QED  BY <2>2, <2>3
<1>5. CASE ~Due(u, w) /\ ~Due(w, k)
  BY <1>1, <1>2, <1>5, OneMore, NetworkAssumption
     DEF NormPaced, ALUPaced, NormHolds, TGEMMHolds, Due
<1>.  QED  BY <1>3, <1>4, <1>5

OutputCycle(w, k, o, w2, k2, o2) ==
    /\ w2 = w \/ (w2 = w + 1 /\ ~Due(w, k))
    /\ k2 = IF Due(w, k) /\ ~Due(k, o) THEN k + 1 ELSE k
    /\ o2 = IF Due(k, o) THEN o + 1 ELSE o

LEMMA OutputClock ==
    ASSUME NEW w \in Nat, NEW k \in Nat, NEW o \in Nat,
           TGEMMHolds(w, k), TGEMMHolds(k, o), OutputPaced(w, k, o),
           NEW w2, NEW k2, NEW o2,
           OutputCycle(w, k, o, w2, k2, o2)
    PROVE  OutputPaced(w2, k2, o2)
<1>.  USE DEF OutputCycle
<1>1. /\ Packets(w) \in Nat /\ Beat(w) \in 0 .. NumBeats - 1
      /\ Packets(k) \in Nat /\ Beat(k) \in 0 .. NumBeats - 1
      /\ Packets(o) \in Nat /\ Beat(o) \in 0 .. NumBeats - 1
  BY Counted
<1>.  QED  BY <1>1, OneMore, NetworkAssumption DEF OutputPaced, TGEMMHolds, Due

LEMMA PacketsWithin ==
    ASSUME NEW c \in Nat, NEW t \in Nat, NEW g \in Nat, Packets(t) <= Packets(g) + c
    PROVE  t - g < NumBeats * c + NumBeats
<1>1. PICK p \in Nat, b \in 0 .. NumBeats - 1 :
          Packets(t) = p /\ Beat(t) = b /\ t = NumBeats * p + b
  BY Counted
<1>2. PICK r \in Nat, a \in 0 .. NumBeats - 1 :
          Packets(g) = r /\ Beat(g) = a /\ g = NumBeats * r + a
  BY Counted
<1>3. NumBeats * p <= NumBeats * r + NumBeats * c
  <2>1. PICK e \in Nat : r + c = p + e
    <3>1. r + c - p \in Nat /\ r + c = p + (r + c - p)
      BY <1>1, <1>2
    <3>.  QED  BY <3>1
  <2>2. NumBeats * (r + c) = NumBeats * p + NumBeats * e
    BY <1>1, <2>1, NetworkAssumption
  <2>3. NumBeats * (r + c) = NumBeats * r + NumBeats * c
    BY <1>2, NetworkAssumption
  <2>4. NumBeats * e \in Nat
    BY <2>1, NetworkAssumption
  <2>.  QED  BY <1>1, <1>2, <2>2, <2>3, <2>4, NetworkAssumption
<1>4. NumBeats * p \in Nat /\ NumBeats * r \in Nat /\ NumBeats * c \in Nat
  BY <1>1, <1>2, NetworkAssumption
<1>.  QED  BY <1>1, <1>2, <1>3, <1>4, NetworkAssumption

\* What a core can hold.
LEMMA NormSpan ==
    ASSUME NEW t \in Nat, NEW g \in Nat, NormHolds(t, g)
    PROVE  g <= t /\ t - g < 3 * NumBeats
<1>1. Packets(t) \in Nat /\ Packets(g) \in Nat /\ Beat(t) \in Nat
      /\ t = NumBeats * Packets(t) + Beat(t)
  BY Counted
<1>2. t - g < NumBeats * 2 + NumBeats
  BY <1>1, PacketsWithin DEF NormHolds
<1>3. g <= NumBeats * Packets(t)
  BY <1>1, WholePackets DEF NormHolds
<1>4. PICK x \in Nat : x = NumBeats * Packets(t)
  BY <1>1, NetworkAssumption
<1>.  QED  BY <1>1, <1>2, <1>3, <1>4, NetworkAssumption

LEMMA SoftmaxSpan ==
    ASSUME NEW t \in Nat, NEW m \in Nat, NEW g \in Nat, SoftmaxHolds(t, m, g)
    PROVE  g <= t /\ t - g < 4 * NumBeats
<1>1. Packets(t) \in Nat /\ Packets(g) \in Nat /\ Packets(m) \in Nat /\ Beat(t) \in Nat
      /\ t = NumBeats * Packets(t) + Beat(t)
  BY Counted
<1>2. t - g < NumBeats * 3 + NumBeats
  BY <1>1, PacketsWithin DEF SoftmaxHolds
<1>3. g <= NumBeats * Packets(t)
  BY <1>1, WholePackets DEF SoftmaxHolds
<1>4. PICK x \in Nat : x = NumBeats * Packets(t)
  BY <1>1, NetworkAssumption
<1>.  QED  BY <1>1, <1>2, <1>3, <1>4, NetworkAssumption

\* Behind its input FIFO norm1 never has to turn a beat away.
LEMMA InputRoom ==
    ASSUME NEW q \in Nat, NEW i \in Nat, NEW n \in Nat, NEW g \in Nat,
           NormHolds(i, n), g <= n, InputPaced(q, i, n, g)
    PROVE  Packets(i) - Packets(n) < 2
<1>1. Packets(i) \in Nat /\ Packets(n) \in Nat /\ Beat(n) \in 0 .. NumBeats - 1
      /\ n = NumBeats * Packets(n) + Beat(n)
      /\ Beat(i) \in Nat /\ i = NumBeats * Packets(i) + Beat(i)
  BY Counted
<1>2. SUFFICES ASSUME Packets(i) = Packets(n) + 2 PROVE FALSE
  BY <1>1 DEF NormHolds
<1>3. PICK x \in Nat : x = NumBeats * Packets(n)
  BY <1>1, NetworkAssumption
<1>4. NumBeats * Packets(i) = x + 2 * NumBeats
  BY <1>1, <1>2, <1>3, NetworkAssumption
<1>5. i - n > NumBeats
  BY <1>1, <1>3, <1>4, NetworkAssumption
<1>6. q - i \in 0 .. 1 /\ 2 * (i - n) + (q - i) + (n - g) <= 2 * NumBeats
  BY DEF InputPaced
<1>.  QED  BY <1>5, <1>6, NetworkAssumption

-----------------------------------------------------------------------------
\* The cores and wires of the block.
IsBlock == /\ IPs = BlockIPs
           /\ Edges = BlockEdges
           /\ Kind = BlockKind
           /\ Depth = BlockDepth

LEMMA BlockNames ==
    BlockIPs = {"input_fifo", "norm1", "tgemm1", "softmax", "tgemm2", "fifo1", "alu1",
                "norm2", "tgemm3", "activation", "tgemm4", "fifo2", "alu2"}
<1>.  QED  BY DEF BlockIPs, BlockKind

LEMMA BlockKinds ==
    ASSUME IsBlock
    PROVE  /\ \A s \in {"input_fifo", "fifo1", "fifo2"} : s \in IPs /\ Kind[s] = "fifo"
           /\ \A s \in {"norm1", "norm2"} : s \in IPs /\ Kind[s] = "norm"
           /\ \A s \in {"tgemm1", "tgemm2", "tgemm3", "tgemm4"} :
                  s \in IPs /\ Kind[s] = "tgemm"
           /\ \A s \in {"alu1", "alu2"} : s \in IPs /\ Kind[s] = "alu"
           /\ "softmax" \in IPs /\ Kind["softmax"] = "softmax"
           /\ "activation" \in IPs /\ Kind["activation"] = "activation"
           /\ Depth["input_fifo"] = 1
           /\ Depth["fifo1"] = 9 * NumBeats
           /\ Depth["fifo2"] = 6 * NumBeats
<1>1. /\ Depth["input_fifo"] = 1
      /\ Depth["fifo1"] = 9 * NumBeats
      /\ Depth["fifo2"] = 6 * NumBeats
  BY NetworkAssumption DEF IsBlock, BlockDepth
<1>.  QED  BY <1>1, BlockNames DEF IsBlock, BlockKind

LEMMA BlockDown ==
    ASSUME IsBlock
    PROVE  /\ Down("input_fifo") = {"fifo1", "norm1"}
           /\ Down("norm1") = {"tgemm1"}
           /\ Down("tgemm1") = {"softmax"}
           /\ Down("softmax") = {"tgemm2"}
           /\ Down("tgemm2") = {"alu1"}
           /\ Down("fifo1") = {"alu1"}
           /\ Down("alu1") = {"fifo2", "norm2"}
           /\ Down("norm2") = {"tgemm3"}
           /\ Down("tgemm3") = {"activation"}
           /\ Down("activation") = {"tgemm4"}
           /\ Down("tgemm4") = {"alu2"}
           /\ Down("fifo2") = {"alu2"}
           /\ Down("alu2") = {}
<1>.  QED  BY BlockNames DEF IsBlock, BlockEdges, Down

LEMMA BlockUp ==
    ASSUME IsBlock
    PROVE  /\ Up("input_fifo") = {}
           /\ Up("norm1") = {"input_fifo"}
           /\ Up("fifo1") = {"input_fifo"}
           /\ Up("tgemm1") = {"norm1"}
           /\ Up("softmax") = {"tgemm1"}
           /\ Up("tgemm2") = {"softmax"}
           /\ Up("alu1") = {"tgemm2", "fifo1"}
           /\ Up("norm2") = {"alu1"}
           /\ Up("fifo2") = {"alu1"}
           /\ Up("tgemm3") = {"norm2"}
           /\ Up("activation") = {"tgemm3"}
           /\ Up("tgemm4") = {"activation"}
           /\ Up("alu2") = {"tgemm4", "fifo2"}
<1>.  QED  BY BlockNames DEF IsBlock, BlockEdges, Up

\* When a core of the block passes a beat on: its destinations' registers
\* decide, since no chain of combinational cores is longer than two.
LEMMA BlockHandshakes ==
    ASSUME IsBlock, NEW offering, NEW accepting
    PROVE  LET valid == ValidOut(offering)
               ready == ReadyOut(valid, accepting)
               takes(s) == ValidIn(s, valid, offering) /\ ready[s]
               gives(s) == valid[s] /\ ReadyIn(s, valid, ready, accepting)
           IN /\ takes("input_fifo") <=> /\ "input_fifo" \in offering
                                         /\ Accepts("input_fifo")
              /\ \A d \in {"norm1", "fifo1"} :
                     takes(d) <=> Offers("input_fifo") /\ Accepts(d)
              /\ gives("input_fifo") <=> /\ Offers("input_fifo")
                                         /\ Accepts("norm1") /\ Accepts("fifo1")
              /\ gives("norm1") <=> Offers("norm1") /\ Accepts("tgemm1")
              /\ gives("tgemm1") <=> Offers("tgemm1") /\ Accepts("softmax")
              /\ gives("softmax") <=> Offers("softmax") /\ Accepts("tgemm2")
              /\ gives("tgemm2") <=>
                     /\ Offers("tgemm2") /\ Offers("fifo1")
                     /\ Offers("alu1") => Accepts("norm2") /\ Accepts("fifo2")
              /\ \A d \in {"norm2", "fifo2"} :
                     takes(d) <=> Offers("alu1") /\ Accepts(d)
              /\ gives("alu1") <=> /\ Offers("alu1")
                                   /\ Accepts("norm2") /\ Accepts("fifo2")
              /\ gives("norm2") <=> Offers("norm2") /\ Accepts("tgemm3")
              /\ gives("tgemm3") <=> Offers("tgemm3") /\ Accepts("tgemm4")
              /\ gives("tgemm4") <=>
                     /\ Offers("tgemm4") /\ Offers("fifo2")
                     /\ Offers("alu2") => "alu2" \in accepting
<1>. DEFINE valid == ValidOut(offering)
            ready == ReadyOut(valid, accepting)
            passed(s) == ReadyIn(s, valid, ready, accepting)
<1>1. \A s \in IPs : valid[s] = IF Kind[s] = "activation"
                                THEN ValidIn(s, valid, offering) ELSE Offers(s)
  BY ValidWires
<1>2. \A s \in IPs : ready[s] = CASE Kind[s] = "activation" -> passed(s)
                                  [] Kind[s] = "alu" -> ~Offers(s) \/ passed(s)
                                  [] OTHER -> Accepts(s)
  BY ReadyWires
<1>.  HIDE DEF valid, ready
<1>3. \A s \in IPs \ {"activation"} : valid[s] = Offers(s)
  BY <1>1, BlockNames DEF IsBlock, BlockKind
<1>4. \A s \in IPs \ {"activation", "alu1", "alu2"} : ready[s] = Accepts(s)
  BY <1>2, BlockNames DEF IsBlock, BlockKind
<1>5. ASSUME NEW s \in IPs, NEW d, Down(s) = {d}
      PROVE  passed(s) <=> ready[d] /\ \A u \in Up(d) \ {s} : valid[u]
  <2>1. Cardinality(Down(s)) = 1
    BY <1>5, FS_Singleton
  <2>.  QED  BY <1>5, <2>1 DEF ReadyIn
<1>6. ASSUME NEW s \in IPs, NEW d, NEW f, Down(s) = {d, f}, d # f
      PROVE  passed(s) <=> ready[d] /\ ready[f]
  <2>1. IsFiniteSet(Down(s))
    BY NetworkAssumption, FS_Subset DEF Down
  <2>2. Cardinality(Down(s)) = 1 => \E x : Down(s) = {x}
    BY <2>1, FS_Singleton
  <2>3. Cardinality(Down(s)) # 1
    BY <1>6, <2>2
  <2>.  QED  BY <1>6, <2>3 DEF ReadyIn
<1>7. ASSUME NEW s \in IPs, NEW u, Up(s) = {u}
      PROVE  ValidIn(s, valid, offering) <=> valid[u]
  BY <1>7 DEF ValidIn
<1>.  HIDE DEF passed
<1>8. /\ \A d \in {"norm1", "fifo1"} : ValidIn(d, valid, offering) <=> Offers("input_fifo")
      /\ \A d \in {"norm2", "fifo2"} : ValidIn(d, valid, offering) <=> Offers("alu1")
      /\ ValidIn("input_fifo", valid, offering) <=> "input_fifo" \in offering
  BY <1>3, <1>7, BlockKinds, BlockUp DEF ValidIn
<1>9. /\ passed("input_fifo") <=> Accepts("norm1") /\ Accepts("fifo1")
      /\ passed("alu1") <=> Accepts("norm2") /\ Accepts("fifo2")
  <2>1. /\ "input_fifo" \in IPs /\ Down("input_fifo") = {"fifo1", "norm1"}
        /\ "alu1" \in IPs /\ Down("alu1") = {"fifo2", "norm2"}
    BY BlockKinds, BlockDown
  <2>2. passed("input_fifo") <=> ready["fifo1"] /\ ready["norm1"]
    BY <1>6, <2>1
  <2>3. passed("alu1") <=> ready["fifo2"] /\ ready["norm2"]
    BY <1>6, <2>1
  <2>.  QED  BY <1>4, <2>2, <2>3, BlockKinds
<1>10. /\ passed("norm1") <=> Accepts("tgemm1")
       /\ passed("tgemm1") <=> Accepts("softmax")
       /\ passed("softmax") <=> Accepts("tgemm2")
       /\ passed("norm2") <=> Accepts("tgemm3")
       /\ passed("activation") <=> Accepts("tgemm4")
  BY <1>4, <1>5, BlockKinds, BlockDown, BlockUp
<1>11. ready["activation"] <=> passed("activation")
  BY <1>2, BlockKinds
<1>12. passed("tgemm3") <=> Accepts("tgemm4")
  BY <1>5, <1>10, <1>11, BlockKinds, BlockDown, BlockUp
<1>13. /\ ready["alu1"] <=> ~Offers("alu1") \/ passed("alu1")
       /\ ready["alu2"] <=> ~Offers("alu2") \/ passed("alu2")
  BY <1>2, BlockKinds
<1>14. passed("alu2") <=> "alu2" \in accepting
  BY BlockKinds, BlockDown DEF ReadyIn, passed
<1>15. /\ passed("tgemm2") <=> ready["alu1"] /\ Offers("fifo1")
       /\ passed("tgemm4") <=> ready["alu2"] /\ Offers("fifo2")
  BY <1>3, <1>5, BlockKinds, BlockDown, BlockUp
<1>16. \A d \in {"input_fifo", "norm1", "fifo1", "norm2", "fifo2"} : ready[d] = Accepts(d)
  BY <1>4, BlockKinds
<1>17. \A s \in {"input_fifo", "norm1", "tgemm1", "softmax", "tgemm2", "alu1",
                 "norm2", "tgemm3", "tgemm4"} : valid[s] = Offers(s)
  BY <1>3, BlockKinds
<1>.  QED  BY <1>8, <1>9, <1>10, <1>12, <1>13, <1>14, <1>15, <1>16, <1>17 DEF valid, ready, passed

\* The counts along the block, in step: each core's input is what the one
\* before it has given.
Counts(q, i, n, g, m, d, h, u, w, k, o) ==
    /\ taken["input_fifo"] = q /\ given["input_fifo"] = i
    /\ taken["norm1"] = i /\ given["norm1"] = n
    /\ taken["tgemm1"] = n /\ given["tgemm1"] = g
    /\ taken["softmax"] = g /\ summed["softmax"] = m /\ given["softmax"] = d
    /\ taken["tgemm2"] = d /\ given["tgemm2"] = h
    /\ taken["fifo1"] = i /\ given["fifo1"] = h
    /\ taken["alu1"] = h /\ given["alu1"] = u
    /\ taken["norm2"] = u /\ given["norm2"] = w
    /\ taken["tgemm3"] = w /\ given["tgemm3"] = k
    /\ taken["activation"] = k /\ given["activation"] = k
    /\ taken["tgemm4"] = k /\ given["tgemm4"] = o
    /\ taken["fifo2"] = u /\ given["fifo2"] = o
    /\ taken["alu2"] = o

LEMMA BlockInStep ==
    ASSUME IsBlock, NodesHold, EdgesInStep
    PROVE  \E q, i, n, g, m, d, h, u, w, k, o \in Nat :
               Counts(q, i, n, g, m, d, h, u, w, k, o)
<1>1. \A s \in BlockIPs : taken[s] \in Nat /\ given[s] \in Nat /\ summed[s] \in Nat
  BY DEF IsBlock, NodesHold, CountsOK
<1>2. PICK q, i, n, g, m, d, h, u, w, k, o \in Nat :
          /\ q = taken["input_fifo"] /\ i = given["input_fifo"] /\ n = given["norm1"]
          /\ g = given["tgemm1"] /\ m = summed["softmax"] /\ d = given["softmax"]
          /\ h = given["tgemm2"] /\ u = given["alu1"] /\ w = given["norm2"]
          /\ k = given["tgemm3"] /\ o = given["tgemm4"]
  BY <1>1, BlockNames
<1>3. taken["activation"] = given["activation"]
  BY BlockKinds DEF NodesHold, NodeHolds
<1>4. \A e \in BlockEdges : taken[e[2]] = given[e[1]]
  BY DEF EdgesInStep, IsBlock
<1>5. /\ taken["norm1"] = i /\ taken["fifo1"] = i
      /\ taken["tgemm1"] = n /\ taken["softmax"] = g /\ taken["tgemm2"] = d
      /\ taken["alu1"] = h /\ given["fifo1"] = h
  BY <1>2, <1>4 DEF BlockEdges
<1>6. /\ taken["norm2"] = u /\ taken["fifo2"] = u
      /\ taken["tgemm3"] = w /\ taken["activation"] = k /\ taken["tgemm4"] = k
      /\ taken["alu2"] = o /\ given["fifo2"] = o
  BY <1>2, <1>3, <1>4 DEF BlockEdges
<1>7. Counts(q, i, n, g, m, d, h, u, w, k, o)
  BY <1>2, <1>3, <1>5, <1>6 DEF Counts
<1>.  QED  BY <1>7

\* What the registers of a temporal GEMM show when it has a packet to give.
LEMMA TGEMMDue ==
    ASSUME NEW t \in Nat, NEW g \in Nat, TGEMMHolds(t, g)
    PROVE  Due(t, g) <=> Beat(t) = 0 /\ t # g
<1>1. Packets(t) \in Nat /\ Packets(g) \in Nat
  BY Counted
<1>2. t = g <=> Packets(t) = Packets(g) /\ Beat(t) = Beat(g)
  BY Counted
<1>.  QED  BY <1>1, <1>2 DEF TGEMMHolds, Due

\* What each core holds.
Held(q, i, n, g, m, d, h, u, w, k, o) ==
    /\ NormHolds(i, n) /\ NormHolds(u, w)
    /\ SoftmaxHolds(g, m, d)
    /\ TGEMMHolds(n, g) /\ TGEMMHolds(d, h)
    /\ TGEMMHolds(w, k) /\ TGEMMHolds(k, o)
    /\ h - u \in 0 .. 1 /\ q - i \in 0 .. 1

\* What each core offers and accepts, by the counts.
Registers(q, i, n, g, m, d, h, u, w, k, o) ==
    /\ Held(q, i, n, g, m, d, h, u, w, k, o)
    /\ Offers("input_fifo") <=> q # i
    /\ Accepts("input_fifo") <=> q = i
    /\ Offers("fifo1") <=> i # h
    /\ Accepts("fifo1") <=> i - h < 9 * NumBeats
    /\ Offers("fifo2") <=> u # o
    /\ Accepts("fifo2") <=> u - o < 6 * NumBeats
    /\ Offers("norm1") <=> Due(i, n)
    /\ Accepts("norm1") <=> Packets(i) - Packets(n) < 2
    /\ Offers("norm2") <=> Due(u, w)
    /\ Accepts("norm2") <=> Packets(u) - Packets(w) < 2
    /\ Offers("alu1") <=> h # u
    /\ Offers("tgemm1") <=> Due(n, g)
    /\ Accepts("tgemm1") <=> ~Due(n, g)
    /\ Offers("tgemm2") <=> Due(d, h)
    /\ Accepts("tgemm2") <=> ~Due(d, h)
    /\ Offers("tgemm3") <=> Due(w, k)
    /\ Accepts("tgemm3") <=> ~Due(w, k)
    /\ Offers("tgemm4") <=> Due(k, o)
    /\ Accepts("tgemm4") <=> ~Due(k, o)
    /\ Accepts("softmax") <=> Packets(g) - Packets(d) < 3
    /\ Offers("softmax") <=> Packets(d) % 3 # Packets(m) % 3
    /\ SumActive("softmax") <=> Due(g, m)

LEMMA BlockRegisters ==
    ASSUME IsBlock, NodesHold,
           NEW q \in Nat, NEW i \in Nat, NEW n \in Nat, NEW g \in Nat, NEW m \in Nat,
           NEW d \in Nat, NEW h \in Nat, NEW u \in Nat, NEW w \in Nat, NEW k \in Nat,
           NEW o \in Nat, Counts(q, i, n, g, m, d, h, u, w, k, o)
    PROVE  Registers(q, i, n, g, m, d, h, u, w, k, o)
<1>1. /\ NormHolds(i, n) /\ NormHolds(u, w)
      /\ SoftmaxHolds(g, m, d)
      /\ TGEMMHolds(n, g) /\ TGEMMHolds(d, h)
      /\ TGEMMHolds(w, k) /\ TGEMMHolds(k, o)
      /\ h - u \in 0 .. 1 /\ q - i \in 0 .. 1
  BY BlockKinds DEF NodesHold, NodeHolds, Counts
<1>2. /\ Packets(i) \in Nat /\ Packets(n) \in Nat
      /\ Packets(g) \in Nat /\ Packets(m) \in Nat
      /\ Packets(u) \in Nat /\ Packets(w) \in Nat
  BY Counted
<1>3. /\ Offers("input_fifo") <=> q # i
      /\ Accepts("input_fifo") <=> q = i
      /\ Offers("fifo1") <=> i # h
      /\ Accepts("fifo1") <=> i - h < 9 * NumBeats
      /\ Offers("fifo2") <=> u # o
      /\ Accepts("fifo2") <=> u - o < 6 * NumBeats
      /\ Offers("alu1") <=> h # u
  <2>1. q - i < 1 <=> q = i
    BY <1>1
  <2>.  QED  BY <2>1, BlockKinds DEF Offers, Accepts, Counts
<1>4. /\ Offers("norm1") <=> Due(i, n)
      /\ Accepts("norm1") <=> Packets(i) - Packets(n) < 2
      /\ Offers("norm2") <=> Due(u, w)
      /\ Accepts("norm2") <=> Packets(u) - Packets(w) < 2
  <2>1. /\ Packets(i) - Packets(n) > 0 <=> Due(i, n)
        /\ Packets(u) - Packets(w) > 0 <=> Due(u, w)
    BY <1>2 DEF Due
  <2>.  QED  BY <2>1, BlockKinds DEF Offers, Accepts, Counts, TokensInFlight
<1>5. /\ Emitting("tgemm1") <=> Due(n, g)
      /\ Emitting("tgemm2") <=> Due(d, h)
      /\ Emitting("tgemm3") <=> Due(w, k)
      /\ Emitting("tgemm4") <=> Due(k, o)
  BY <1>1, TGEMMDue DEF Emitting, Counts, Beat
<1>6. \A s \in {"tgemm1", "tgemm2", "tgemm3", "tgemm4"} :
          (Offers(s) <=> Emitting(s)) /\ (Accepts(s) <=> ~Emitting(s))
  BY BlockKinds DEF Offers, Accepts
<1>7. /\ Accepts("softmax") <=> Packets(g) - Packets(d) < 3
      /\ Offers("softmax") <=> Packets(d) % 3 # Packets(m) % 3
  BY BlockKinds DEF Offers, Accepts, DivActive, TokensInFlight, Counts
<1>8. SumActive("softmax") <=> Due(g, m)
  <2>1. SumActive("softmax") <=> Packets(m) % 3 # Packets(g) % 3
    BY DEF SumActive, Counts
  <2>2. Packets(m) = Packets(g) \/ Packets(m) + 1 = Packets(g)
    BY <1>1 DEF SoftmaxHolds
  <2>.  QED  BY <1>2, <2>1, <2>2 DEF Due
<1>.  QED  BY <1>1, <1>3, <1>4, <1>5, <1>6, <1>7, <1>8 DEF Held, Registers

\* The residual FIFOs have room for all that the cores beside them can hold.
Room(i, n, g, d, h, u, w, k, o) ==
    /\ h <= d /\ d <= g /\ g <= n /\ n <= i /\ i - h < 9 * NumBeats
    /\ o <= k /\ k <= w /\ w <= u /\ u - o < 6 * NumBeats

LEMMA ResidualRoom ==
    ASSUME NEW q \in Nat, NEW i \in Nat, NEW n \in Nat, NEW g \in Nat, NEW m \in Nat,
           NEW d \in Nat, NEW h \in Nat, NEW u \in Nat, NEW w \in Nat, NEW k \in Nat,
           NEW o \in Nat, Held(q, i, n, g, m, d, h, u, w, k, o)
    PROVE  Room(i, n, g, d, h, u, w, k, o)
<1>1. n <= i /\ i - n < 3 * NumBeats /\ w <= u /\ u - w < 3 * NumBeats
  BY NormSpan DEF Held
<1>2. d <= g /\ g - d < 4 * NumBeats
  BY SoftmaxSpan DEF Held
<1>3. /\ n - g \in 0 .. NumBeats /\ d - h \in 0 .. NumBeats
      /\ w - k \in 0 .. NumBeats /\ k - o \in 0 .. NumBeats
  BY TGEMMFits DEF Held
<1>.  QED  BY <1>1, <1>2, <1>3, NetworkAssumption DEF Room

\* Whatever the sources and the sink do, a block in step has room.
LEMMA InStepHasRoom == IsBlock /\ NodesHold /\ EdgesInStep => ResidualNeverFull
<1>. SUFFICES ASSUME IsBlock, NodesHold, EdgesInStep PROVE ResidualNeverFull
  OBVIOUS
<1>1. PICK q, i, n, g, m, d, h, u, w, k, o \in Nat :
          Counts(q, i, n, g, m, d, h, u, w, k, o)
  BY BlockInStep
<1>2. Registers(q, i, n, g, m, d, h, u, w, k, o)
  BY <1>1, BlockRegisters
<1>3. Room(i, n, g, d, h, u, w, k, o)
  BY <1>1, <1>2, ResidualRoom DEF Registers
<1>.  QED  BY <1>2, <1>3 DEF Registers, Room, ResidualNeverFull

\* The pace of the block, whose sink is free of stalls or not.  One that stalls
\* does not reach back beyond tgemm4 before the second packet is at norm2, and
\* after that the sequences are not enough to fill norm2.
Paced(free, q, i, n, g, m, d, h, u, w, k, o) ==
    /\ InputPaced(q, i, n, g)
    /\ SoftmaxPaced(n, g, m, d, h)
    /\ ALUPaced(d, h, u)
    /\ free \/ Packets(w) < 2 => NormPaced(d, h, u, w, k)
    /\ free => OutputPaced(w, k, o)
    /\ ~free => q <= 4 * NumBeats

\* norm2 never has to turn a beat of alu1 away.
LEMMA NormRoom ==
    ASSUME NEW free \in BOOLEAN,
           NEW q \in Nat, NEW i \in Nat, NEW n \in Nat, NEW g \in Nat, NEW m \in Nat,
           NEW d \in Nat, NEW h \in Nat, NEW u \in Nat, NEW w \in Nat, NEW k \in Nat,
           NEW o \in Nat, Held(q, i, n, g, m, d, h, u, w, k, o),
           Paced(free, q, i, n, g, m, d, h, u, w, k, o), h # u
    PROVE  Packets(u) - Packets(w) < 2
<1>1. Packets(u) \in Nat /\ Packets(w) \in Nat /\ Beat(u) \in Nat
      /\ u = NumBeats * Packets(u) + Beat(u)
  BY Counted
<1>2. CASE free \/ Packets(w) < 2
  BY <1>1, <1>2 DEF Paced, NormPaced, Due
<1>3. CASE ~free /\ Packets(w) >= 2
  <2>1. q <= 4 * NumBeats /\ i <= q /\ u < h
    BY <1>3 DEF Paced, Held
  <2>2. h <= d /\ d <= g /\ g <= n /\ n <= i
    <3>1. Room(i, n, g, d, h, u, w, k, o)
      BY ResidualRoom
    <3>.  QED  BY <3>1 DEF Room
  <2>3. SUFFICES ASSUME Packets(u) >= 4 PROVE FALSE
    BY <1>1, <1>3
  <2>4. NumBeats * 3 + NumBeats <= NumBeats * Packets(u)
    BY <1>1, <2>3, PacketsAhead
  <2>5. PICK x \in Nat : x = NumBeats * Packets(u)
    BY <1>1, NetworkAssumption
  <2>.  QED  BY <1>1, <2>1, <2>2, <2>4, <2>5, NetworkAssumption
<1>.  QED  BY <1>1, <1>2, <1>3

\* Nor does tgemm4 turn one of tgemm3 away, before a sink can have stalled it.
LEMMA OutputRoom ==
    ASSUME NEW free \in BOOLEAN,
           NEW q \in Nat, NEW i \in Nat, NEW n \in Nat, NEW g \in Nat, NEW m \in Nat,
           NEW d \in Nat, NEW h \in Nat, NEW u \in Nat, NEW w \in Nat, NEW k \in Nat,
           NEW o \in Nat, Held(q, i, n, g, m, d, h, u, w, k, o),
           Paced(free, q, i, n, g, m, d, h, u, w, k, o),
           free \/ Packets(w) < 2, Due(w, k)
    PROVE  ~Due(k, o)
<1>1. Packets(w) \in Nat /\ Packets(k) \in Nat /\ Packets(o) \in Nat
  BY Counted
<1>2. CASE free
  BY <1>2 DEF Paced, OutputPaced
<1>3. CASE ~free
  BY <1>1, <1>3 DEF Held, TGEMMHolds, Due
<1>.  QED  BY <1>2, <1>3

\* One cycle of a block in pace.
BlockCycle(free, q, i, n, g, m, d, h, u, w, k, o,
           q2, i2, n2, g2, m2, d2, h2, u2, w2, k2, o2) ==
    /\ q2 = q \/ (q2 = q + 1 /\ q = i /\ (~free => q < 4 * NumBeats))
    /\ i2 = IF q # i THEN i + 1 ELSE i
    /\ n2 = IF Due(i, n) /\ ~Due(n, g) THEN n + 1 ELSE n
    /\ g2 = IF Due(n, g) THEN g + 1 ELSE g
    /\ m2 = IF Due(g, m) THEN m + 1 ELSE m
    /\ d2 = IF Due(m, d) /\ ~Due(d, h) THEN d + 1 ELSE d
    /\ h2 = IF Due(d, h) THEN h + 1 ELSE h
    /\ u2 = IF h # u THEN u + 1 ELSE u
    /\ w2 = IF Due(u, w) /\ ~Due(w, k) THEN w + 1 ELSE w
    /\ k2 = IF Due(w, k) /\ ~Due(k, o) THEN k + 1 ELSE k
    /\ free => o2 = IF Due(k, o) THEN o + 1 ELSE o

LEMMA PacedClock ==
    ASSUME NEW free \in BOOLEAN,
           NEW q \in Nat, NEW i \in Nat, NEW n \in Nat, NEW g \in Nat, NEW m \in Nat,
           NEW d \in Nat, NEW h \in Nat, NEW u \in Nat, NEW w \in Nat, NEW k \in Nat,
           NEW o \in Nat, Held(q, i, n, g, m, d, h, u, w, k, o),
           Paced(free, q, i, n, g, m, d, h, u, w, k, o),
           NEW q2, NEW i2, NEW n2, NEW g2, NEW m2, NEW d2, NEW h2, NEW u2, NEW w2,
           NEW k2, NEW o2,
           BlockCycle(free, q, i, n, g, m, d, h, u, w, k, o,
                      q2, i2, n2, g2, m2, d2, h2, u2, w2, k2, o2)
    PROVE  Paced(free, q2, i2, n2, g2, m2, d2, h2, u2, w2, k2, o2)
<1>.  USE DEF BlockCycle
<1>1. InputPaced(q2, i2, n2, g2)
  <2>1. InputCycle(q, i, n, g, q2, i2, n2, g2)
    BY DEF InputCycle
  <2>.  QED  BY <2>1, InputClock DEF Held, Paced
<1>2. SoftmaxPaced(n2, g2, m2, d2, h2)
  <2>1. SoftmaxCycle(n, g, m, d, h, n2, g2, m2, d2, h2)
    BY DEF SoftmaxCycle
  <2>.  QED  BY <2>1, SoftmaxStagesClock DEF Held, Paced
<1>3. ALUPaced(d2, h2, u2)
  <2>1. ALUCycle(d, h, u, d2, h2, u2)
    BY DEF ALUCycle
  <2>.  QED  BY <2>1, ALUClock DEF Held, Paced
<1>4. ASSUME free \/ Packets(w2) < 2 PROVE NormPaced(d2, h2, u2, w2, k2)
  <2>1. free \/ Packets(w) < 2
    <3>1. Packets(w) \in Nat /\ Packets(w2) \in Nat
      BY Counted
    <3>2. Packets(w) <= Packets(w2)
      BY <3>1, OneMore
    <3>.  QED  BY <1>4, <3>1, <3>2
  <2>2. k2 = IF Due(w, k) THEN k + 1 ELSE k
    BY <2>1, OutputRoom
  <2>3. NormPaced(d, h, u, w, k) /\ ALUPaced(d, h, u)
    BY <2>1 DEF Paced
  <2>4. NormCycle(d, h, u, w, k, d2, h2, u2, w2, k2)
    BY <2>2 DEF NormCycle
  <2>.  QED  BY <2>3, <2>4, NormStagesClock DEF Held
<1>5. ASSUME free PROVE OutputPaced(w2, k2, o2)
  <2>1. OutputCycle(w, k, o, w2, k2, o2)
    BY <1>5 DEF OutputCycle
  <2>.  QED  BY <1>5, <2>1, OutputClock DEF Held, Paced
<1>6. ASSUME ~free PROVE q2 <= 4 * NumBeats
  BY <1>6, NetworkAssumption DEF Paced
<1>.  QED  BY <1>1, <1>2, <1>3, <1>4, <1>5, <1>6 DEF Paced

InPace == Paced(streaming, taken["input_fifo"], given["input_fifo"], given["norm1"],
                given["tgemm1"], summed["softmax"], given["softmax"], given["tgemm2"],
                given["alu1"], given["norm2"], given["tgemm3"], given["tgemm4"])

BlockInv == NodesHold /\ EdgesInStep /\ streaming \in BOOLEAN /\ InPace

LEMMA InitBlock == IsBlock /\ MCInit => BlockInv
<1>. SUFFICES ASSUME IsBlock, MCInit PROVE BlockInv
  OBVIOUS
<1>1. NodesHold /\ streaming \in BOOLEAN
  BY InitNodes DEF MCInit
<1>2. \A s \in IPs : taken[s] = 0 /\ given[s] = 0 /\ summed[s] = 0
  BY DEF MCInit, Init
<1>3. EdgesInStep
  BY <1>2, NetworkAssumption DEF EdgesInStep
<1>4. Packets(0) = 0 /\ Beat(0) = 0
  <2>1. 0 = NumBeats * 0 + 0 /\ 0 \in 0 .. NumBeats - 1
    BY NetworkAssumption
  <2>.  QED  BY <2>1, ReadOff
<1>5. Paced(streaming, 0, 0, 0, 0, 0, 0, 0, 0, 0, 0, 0)
  BY <1>4, NetworkAssumption
     DEF Paced, InputPaced, SoftmaxPaced, ALUPaced, NormPaced, OutputPaced, Due
<1>6. InPace
  BY <1>2, <1>5, BlockKinds DEF InPace
<1>.  QED  BY <1>1, <1>3, <1>6 DEF BlockInv

\* In pace both branches of each fork accept, and the cycle is as above.
LEMMA BlockMoves ==
    ASSUME IsBlock, BlockInv,
           NEW offering \in SUBSET Offering, NEW accepting \in SUBSET Sinks,
           streaming => accepting = Sinks,
           Clock(offering, accepting),
           NEW q \in Nat, NEW i \in Nat, NEW n \in Nat, NEW g \in Nat, NEW m \in Nat,
           NEW d \in Nat, NEW h \in Nat, NEW u \in Nat, NEW w \in Nat, NEW k \in Nat,
           NEW o \in Nat, Counts(q, i, n, g, m, d, h, u, w, k, o)
    PROVE  /\ BlockCycle(streaming, q, i, n, g, m, d, h, u, w, k, o,
                         taken'["input_fifo"], given'["input_fifo"], given'["norm1"],
                         given'["tgemm1"], summed'["softmax"], given'["softmax"],
                         given'["tgemm2"], given'["alu1"], given'["norm2"],
                         given'["tgemm3"], given'["tgemm4"])
           /\ taken'["norm1"] = given'["input_fifo"]
           /\ taken'["fifo1"] = given'["input_fifo"]
           /\ taken'["norm2"] = given'["alu1"]
           /\ taken'["fifo2"] = given'["alu1"]
<1>. DEFINE valid == ValidOut(offering)
            ready == ReadyOut(valid, accepting)
            takes(s) == ValidIn(s, valid, offering) /\ ready[s]
            gives(s) == valid[s] /\ ReadyIn(s, valid, ready, accepting)
<1>1. /\ taken' = [s \in IPs |-> IF takes(s) THEN taken[s] + 1 ELSE taken[s]]
      /\ given' = [s \in IPs |-> IF gives(s) THEN given[s] + 1 ELSE given[s]]
      /\ summed' = [s \in IPs |-> IF Kind[s] = "softmax" /\ SumActive(s)
                                  THEN summed[s] + 1 ELSE summed[s]]
  BY DEF Clock
<1>2. /\ takes("input_fifo") <=> "input_fifo" \in offering /\ Accepts("input_fifo")
      /\ \A e \in {"norm1", "fifo1"} : takes(e) <=> Offers("input_fifo") /\ Accepts(e)
      /\ gives("input_fifo") <=> /\ Offers("input_fifo")
                                 /\ Accepts("norm1") /\ Accepts("fifo1")
      /\ gives("norm1") <=> Offers("norm1") /\ Accepts("tgemm1")
      /\ gives("tgemm1") <=> Offers("tgemm1") /\ Accepts("softmax")
      /\ gives("softmax") <=> Offers("softmax") /\ Accepts("tgemm2")
      /\ gives("tgemm2") <=>
             /\ Offers("tgemm2") /\ Offers("fifo1")
             /\ Offers("alu1") => Accepts("norm2") /\ Accepts("fifo2")
      /\ \A e \in {"norm2", "fifo2"} : takes(e) <=> Offers("alu1") /\ Accepts(e)
      /\ gives("alu1") <=> Offers("alu1") /\ Accepts("norm2") /\ Accepts("fifo2")
      /\ gives("norm2") <=> Offers("norm2") /\ Accepts("tgemm3")
      /\ gives("tgemm3") <=> Offers("tgemm3") /\ Accepts("tgemm4")
      /\ gives("tgemm4") <=> /\ Offers("tgemm4") /\ Offers("fifo2")
                             /\ Offers("alu2") => "alu2" \in accepting
  BY BlockHandshakes
<1>.  HIDE DEF takes, gives
<1>3. Registers(q, i, n, g, m, d, h, u, w, k, o)
  BY BlockRegisters DEF BlockInv
<1>4. Held(q, i, n, g, m, d, h, u, w, k, o)
  BY <1>3 DEF Registers
<1>5. Paced(streaming, q, i, n, g, m, d, h, u, w, k, o)
  BY DEF BlockInv, InPace, Counts
<1>6. Room(i, n, g, d, h, u, w, k, o)
  BY <1>4, ResidualRoom
<1>7. /\ Packets(i) \in Nat /\ Packets(n) \in Nat /\ Packets(g) \in Nat
      /\ Packets(m) \in Nat /\ Packets(d) \in Nat /\ Packets(h) \in Nat
      /\ Packets(k) \in Nat /\ Packets(o) \in Nat
  BY Counted
<1>8. Accepts("norm1") /\ Accepts("fifo1") /\ Accepts("fifo2")
  <2>1. Packets(i) - Packets(n) < 2
    BY <1>4, <1>5, <1>6, InputRoom DEF Held, Paced, Room
  <2>.  QED  BY <1>3, <1>6, <2>1 DEF Registers, Room
<1>9. h # u => Accepts("norm2")
  <2>1. h # u => Packets(u) - Packets(w) < 2
    BY <1>4, <1>5, NormRoom DEF BlockInv
  <2>.  QED  BY <1>3, <2>1 DEF Registers
<1>10. Accepts("softmax") /\ (Offers("softmax") <=> Due(m, d))
  <2>1. Packets(m) - Packets(d) \in 0 .. 1 /\ (Packets(m) = Packets(g) \/ Packets(m) + 1 = Packets(g))
    BY <1>4, <1>5 DEF Held, Paced, SoftmaxPaced, SoftmaxHolds
  <2>2. Packets(d) % 3 # Packets(m) % 3 <=> Due(m, d)
    BY <1>7, <2>1 DEF Due
  <2>3. Packets(g) - Packets(d) < 3
    BY <1>7, <2>1
  <2>.  QED  BY <1>3, <2>2, <2>3 DEF Registers
<1>11. Due(d, h) => Offers("fifo1")
  BY <1>3, <1>6, <1>7 DEF Due, Registers, Room
<1>12. Due(k, o) => Offers("fifo2")
  BY <1>3, <1>6, <1>7 DEF Due, Registers, Room
<1>13. streaming => "alu2" \in accepting
  BY BlockDown, BlockKinds DEF Sinks
<1>14. "input_fifo" \in offering /\ ~streaming => q < 4 * NumBeats
  BY DEF Offering, Offered, StalledBeats, Counts
<1>15. /\ gives("input_fifo") <=> q # i
       /\ \A e \in {"norm1", "fifo1"} : takes(e) <=> q # i
       /\ gives("norm1") <=> Due(i, n) /\ ~Due(n, g)
       /\ gives("tgemm1") <=> Due(n, g)
       /\ gives("softmax") <=> Due(m, d) /\ ~Due(d, h)
       /\ gives("tgemm2") <=> Due(d, h)
  BY <1>2, <1>3, <1>8, <1>9, <1>10, <1>11 DEF Registers
<1>16. /\ gives("alu1") <=> h # u
       /\ \A e \in {"norm2", "fifo2"} : takes(e) <=> h # u
       /\ gives("norm2") <=> Due(u, w) /\ ~Due(w, k)
       /\ gives("tgemm3") <=> Due(w, k) /\ ~Due(k, o)
       /\ streaming => (gives("tgemm4") <=> Due(k, o))
  BY <1>2, <1>3, <1>8, <1>9, <1>12, <1>13 DEF Registers
<1>17. takes("input_fifo") => q = i /\ (~streaming => q < 4 * NumBeats)
  BY <1>2, <1>3, <1>14 DEF Registers
<1>18. SumActive("softmax") <=> Due(g, m)
  BY <1>3 DEF Registers
<1>19. /\ taken'["input_fifo"] = IF takes("input_fifo") THEN q + 1 ELSE q
       /\ given'["input_fifo"] = IF q # i THEN i + 1 ELSE i
       /\ taken'["norm1"] = IF q # i THEN i + 1 ELSE i
       /\ taken'["fifo1"] = IF q # i THEN i + 1 ELSE i
       /\ given'["norm1"] = IF Due(i, n) /\ ~Due(n, g) THEN n + 1 ELSE n
       /\ given'["tgemm1"] = IF Due(n, g) THEN g + 1 ELSE g
       /\ summed'["softmax"] = IF Due(g, m) THEN m + 1 ELSE m
       /\ given'["softmax"] = IF Due(m, d) /\ ~Due(d, h) THEN d + 1 ELSE d
       /\ given'["tgemm2"] = IF Due(d, h) THEN h + 1 ELSE h
  BY <1>1, <1>15, <1>18, BlockKinds DEF Counts
<1>20. /\ given'["alu1"] = IF h # u THEN u + 1 ELSE u
       /\ taken'["norm2"] = IF h # u THEN u + 1 ELSE u
       /\ taken'["fifo2"] = IF h # u THEN u + 1 ELSE u
       /\ given'["norm2"] = IF Due(u, w) /\ ~Due(w, k) THEN w + 1 ELSE w
       /\ given'["tgemm3"] = IF Due(w, k) /\ ~Due(k, o) THEN k + 1 ELSE k
       /\ streaming => given'["tgemm4"] = IF Due(k, o) THEN o + 1 ELSE o
  BY <1>1, <1>16, BlockKinds DEF Counts
<1>.  QED  BY <1>17, <1>19, <1>20 DEF BlockCycle

\* The edges out of a core with two destinations.
ForkEdges == {<<"input_fifo", "fifo1">>, <<"input_fifo", "norm1">>,
              <<"alu1", "fifo2">>, <<"alu1", "norm2">>}

LEMMA BlockForks ==
    ASSUME IsBlock, NEW e \in Edges
    PROVE  e \in ForkEdges \/ e \in Unforked
<1>1. e \in ForkEdges \/ e[1] \in {"norm1", "tgemm1", "softmax", "tgemm2", "fifo1",
                                  "norm2", "tgemm3", "activation", "tgemm4", "fifo2"}
  BY DEF IsBlock, BlockEdges, ForkEdges
<1>2. \A s, d \in BlockIPs : Down(s) = {d} => Cardinality(Down(s)) = 1
  BY FS_Singleton
<1>3. \A s \in {"norm1", "tgemm1", "softmax", "tgemm2", "fifo1", "norm2", "tgemm3",
                "activation", "tgemm4", "fifo2"} : Cardinality(Down(s)) = 1
  BY <1>2, BlockDown, BlockNames
<1>.  QED  BY <1>1, <1>3 DEF Unforked

LEMMA BlockClock ==
    ASSUME IsBlock, BlockInv,
           NEW offering \in SUBSET Offering, NEW accepting \in SUBSET Sinks,
           streaming => accepting = Sinks,
           Cycle(offering, accepting)
    PROVE  BlockInv'
<1>1. Clock(offering, accepting) /\ streaming' = streaming
  BY DEF Cycle
<1>2. NodesHold'
  BY <1>1, ClockNodes DEF BlockInv
<1>3. UnforkedInStep'
  <2>1. IInv
    BY DEF BlockInv, NodesHold, IInv, EdgesInStep, UnforkedInStep, Unforked
  <2>.  QED  BY <1>1, <2>1, ClockIInv DEF IInv
<1>4. PICK q, i, n, g, m, d, h, u, w, k, o \in Nat :
          Counts(q, i, n, g, m, d, h, u, w, k, o)
  BY BlockInStep DEF BlockInv
<1>5. /\ BlockCycle(streaming, q, i, n, g, m, d, h, u, w, k, o,
                    taken'["input_fifo"], given'["input_fifo"], given'["norm1"],
                    given'["tgemm1"], summed'["softmax"], given'["softmax"],
                    given'["tgemm2"], given'["alu1"], given'["norm2"],
                    given'["tgemm3"], given'["tgemm4"])
      /\ taken'["norm1"] = given'["input_fifo"]
      /\ taken'["fifo1"] = given'["input_fifo"]
      /\ taken'["norm2"] = given'["alu1"]
      /\ taken'["fifo2"] = given'["alu1"]
  BY <1>1, <1>4, BlockMoves
<1>6. InPace'
  <2>1. Held(q, i, n, g, m, d, h, u, w, k, o)
    BY <1>4, BlockRegisters DEF BlockInv, Registers
  <2>2. Paced(streaming, q, i, n, g, m, d, h, u, w, k, o)
    BY <1>4 DEF BlockInv, InPace, Counts
  <2>3. streaming \in BOOLEAN
    BY DEF BlockInv
  <2>4. Paced(streaming, taken'["input_fifo"], given'["input_fifo"], given'["norm1"],
              given'["tgemm1"], summed'["softmax"], given'["softmax"],
              given'["tgemm2"], given'["alu1"], given'["norm2"],
              given'["tgemm3"], given'["tgemm4"])
    BY <1>4, <1>5, <2>1, <2>2, <2>3, PacedClock
  <2>.  QED  BY <1>1, <2>4 DEF InPace
<1>7. EdgesInStep'
  <2>1. SUFFICES ASSUME NEW e \in Edges PROVE taken'[e[2]] = given'[e[1]]
    BY DEF EdgesInStep
  <2>2. CASE e \in ForkEdges
    BY <1>5, <2>2 DEF ForkEdges
  <2>3. CASE e \in Unforked
    BY <1>3, <2>3 DEF UnforkedInStep
  <2>.  QED  BY <2>2, <2>3, BlockForks
<1>.  QED  BY <1>1, <1>2, <1>6, <1>7 DEF BlockInv

LEMMA NextBlock ==
    ASSUME IsBlock, BlockInv, [MCNext]_mcvars
    PROVE  BlockInv'
<1>1. CASE Streaming
  BY <1>1, BlockClock DEF Streaming
<1>2. CASE Stalling
  BY <1>2, BlockClock DEF Stalling
<1>3. CASE UNCHANGED mcvars
  <2>1. taken' = taken /\ given' = given /\ summed' = summed /\ streaming' = streaming
    BY <1>3 DEF mcvars, vars
  <2>2. NodesHold' /\ EdgesInStep'
    BY <2>1 DEF BlockInv, NodesHold, NodeHolds, CountsOK, EdgesInStep
  <2>3. InPace'
    BY <2>1 DEF BlockInv, InPace
  <2>.  QED  BY <2>1, <2>2, <2>3 DEF BlockInv
<1>.  QED  BY <1>1, <1>2, <1>3 DEF MCNext

\* No beat is lost or repeated at a fork of the block, for packets of any size:
\* what an ALU adds was one beat when the paths parted.  Under a sink that never
\* stalls this lasts for any number of sequences, and under one that does for
\* the first four.
THEOREM BlockStaysInStep ==
    ASSUME IsBlock
    PROVE  MCSpec => []EdgesInStep
<1>1. MCInit => BlockInv
  BY InitBlock
<1>2. BlockInv /\ [MCNext]_mcvars => BlockInv'
  BY NextBlock
<1>3. BlockInv => EdgesInStep
  BY DEF BlockInv
<1>.  QED  BY <1>1, <1>2, <1>3, PTL DEF MCSpec

\* In both regimes the residual FIFOs always have room, so that none of them is
\* ever what stops its source.
THEOREM ResidualsNeverFill ==
    ASSUME IsBlock
    PROVE  MCSpec => []ResidualNeverFull
<1>1. MCInit => BlockInv
  BY InitBlock
<1>2. BlockInv /\ [MCNext]_mcvars => BlockInv'
  BY NextBlock
<1>3. BlockInv => ResidualNeverFull
  BY InStepHasRoom DEF BlockInv, ResidualNeverFull
<1>.  QED  BY <1>1, <1>2, <1>3, PTL DEF MCSpec

\* Whatever sources and sink do, the depths that _compute_fifo_depths gives are
\* enough while the forks are in step: a residual FIFO that is full holds copies.
THEOREM DepthsSuffice ==
    ASSUME IsBlock
    PROVE  Spec => [](EdgesInStep => ResidualNeverFull)
<1>1. NodesHold => (EdgesInStep => ResidualNeverFull)
  BY InStepHasRoom
<1>.  QED  BY <1>1, InitNodes, NextNodes, PTL DEF Spec

LEMMA PacedSoftmaxOffers == IsBlock /\ BlockInv => SummedPacketsOffered
<1>. SUFFICES ASSUME IsBlock, BlockInv PROVE SummedPacketsOffered
  OBVIOUS
<1>1. PICK q, i, n, g, m, d, h, u, w, k, o \in Nat :
          Counts(q, i, n, g, m, d, h, u, w, k, o)
  BY BlockInStep DEF BlockInv
<1>2. Registers(q, i, n, g, m, d, h, u, w, k, o)
  BY <1>1, BlockRegisters DEF BlockInv
<1>3. Paced(streaming, q, i, n, g, m, d, h, u, w, k, o)
  BY <1>1 DEF BlockInv, InPace, Counts
<1>4. Packets(g) \in Nat /\ Packets(m) \in Nat /\ Packets(d) \in Nat
  BY <1>1, Counted
<1>5. /\ Packets(m) = Packets(g) \/ Packets(m) + 1 = Packets(g)
      /\ Packets(m) - Packets(d) \in 0 .. 1
      /\ SumActive("softmax") <=> Packets(m) < Packets(g)
  BY <1>2, <1>3 DEF Registers, Held, Paced, SoftmaxHolds, SoftmaxPaced, Due
<1>6. /\ TokensInFlight("softmax") = Packets(g) - Packets(d)
      /\ DivActive("softmax") <=> Packets(d) % 3 # Packets(m) % 3
  BY <1>1 DEF TokensInFlight, DivActive, Counts
<1>.  QED  BY <1>4, <1>5, <1>6 DEF SummedPacketsOffered

\* In both regimes the softmax has a summed packet to offer whenever it holds
\* packets and none waits for its sum, as its docstring says; so it cannot lock
\* up there.
THEOREM SoftmaxNeverStuck ==
    ASSUME IsBlock
    PROVE  MCSpec => []SummedPacketsOffered
<1>1. MCInit => BlockInv
  BY InitBlock
<1>2. BlockInv /\ [MCNext]_mcvars => BlockInv'
  BY NextBlock
<1>3. BlockInv => SummedPacketsOffered
  BY PacedSoftmaxOffers
<1>.  QED  BY <1>1, <1>2, <1>3, PTL DEF MCSpec

-----------------------------------------------------------------------------
Values == {1, 2, 4, 8, 16}

\* The values a factor can have, and the one each is followed by.
LEMMA Candidates ==
    /\ ToSet(_CANDIDATE_VALUES) = Values
    /\ Head(_CANDIDATE_VALUES) = 1 /\ Last(_CANDIDATE_VALUES) = 16
    /\ \A v \in Values \ {16} :
          NextValue(v) \in Values /\ \A w \in Values : w < NextValue(v) => w <= v
<1>1. DOMAIN _CANDIDATE_VALUES = 1 .. 5 /\ Len(_CANDIDATE_VALUES) = 5
  BY DEF _CANDIDATE_VALUES
<1>2. ToSet(_CANDIDATE_VALUES) = Values
  BY <1>1 DEF ToSet, _CANDIDATE_VALUES, Values
<1>3. Head(_CANDIDATE_VALUES) = 1 /\ Last(_CANDIDATE_VALUES) = 16
  BY <1>1 DEF Last, _CANDIDATE_VALUES
<1>4. ASSUME NEW v \in Values \ {16}
      PROVE  NextValue(v) \in Values /\ \A w \in Values : w < NextValue(v) => w <= v
  <2>1. PICK k \in 1 .. 5 : /\ k = CHOOSE l \in DOMAIN _CANDIDATE_VALUES :
                                       _CANDIDATE_VALUES[l] = v
                            /\ _CANDIDATE_VALUES[k] = v
    BY <1>1 DEF Values, _CANDIDATE_VALUES
  <2>2. k # 5
    BY <2>1 DEF _CANDIDATE_VALUES, Values
  <2>3. NextValue(v) = _CANDIDATE_VALUES[1 + k]
    BY <2>1 DEF NextValue
  <2>4. \/ k = 1 /\ v = 1 /\ NextValue(v) = 2
        \/ k = 2 /\ v = 2 /\ NextValue(v) = 4
        \/ k = 3 /\ v = 4 /\ NextValue(v) = 8
        \/ k = 4 /\ v = 8 /\ NextValue(v) = 16
    BY <2>1, <2>2, <2>3 DEF _CANDIDATE_VALUES
  <2>.  QED  BY <2>4 DEF Values
<1>.  QED  BY <1>2, <1>3, <1>4

\* A set of numbers up to n that is not empty has a greatest.
LEMMA Greatest ==
    ASSUME NEW n \in Nat, NEW S, S \subseteq 1 .. n, S # {}
    PROVE  Max(S) \in S /\ \A k \in S : k <= Max(S)
<1>. DEFINE T == {n - k : k \in S}
<1>1. T \subseteq Nat /\ T # {}
  <2>1. \A k \in S : k \in 1 .. n /\ n - k \in Nat
    OBVIOUS
  <2>.  QED  BY <2>1
<1>2. PICK t \in T : \A u \in T : t <= u
  BY <1>1, Least
<1>3. PICK m \in S : t = n - m
  OBVIOUS
<1>4. \A k \in S : m >= k
  BY <1>2, <1>3
<1>.  QED  BY <1>3, <1>4 DEF Max

-----------------------------------------------------------------------------
N == Len(param_specs)

\* Whole designs the search has left behind, in the order of its loops, and
\* those that this call would come to.
Passed(c) == \E k \in DOMAIN node : /\ \A j \in 1 .. k - 1 : c[j] = node[j]
                                    /\ c[k] < node[k]
Under(c) == \A j \in DOMAIN node : c[j] = node[j]

\* Where the loops go on from, they have left behind what this call would come
\* to, and nothing else; where none goes on they have left behind everything.
LEMMA LoopsGoOn ==
    ASSUME NEW m \in Nat, node \in Seq(Values), Len(node) <= m,
           NEW designs, GoOn(designs), NEW c \in [1 .. m -> Values]
    PROVE  IF Open = {} THEN phase' = "returned" /\ (Passed(c) \/ Under(c))
           ELSE /\ phase' = phase
                /\ node' \in Seq(Values) /\ Len(node') <= Len(node)
                /\ Passed(c)' => Passed(c) \/ Under(c)
<1>1. PICK n \in Nat : n = Len(node) /\ DOMAIN node = 1 .. n /\ n <= m
  OBVIOUS
<1>2. \A k \in 1 .. n : node[k] \in Values /\ c[k] \in Values
  BY <1>1
<1>3. Open = {k \in 1 .. n : node[k] # 16}
  BY <1>1, Candidates DEF Open
<1>4. ASSUME NEW k \in 1 .. n, \A j \in 1 .. k - 1 : c[j] = node[j], c[k] <= node[k],
             \A j \in k + 1 .. n : node[j] = 16
      PROVE  Passed(c) \/ Under(c)
  <2>1. SUFFICES ASSUME ~Under(c) PROVE Passed(c)
    OBVIOUS
  <2>2. \E j \in 1 .. n : c[j] # node[j]
    BY <1>1, <2>1 DEF Under
  <2>3. PICK j \in 1 .. n : c[j] # node[j] /\ \A i \in 1 .. j - 1 : c[i] = node[i]
    <3>1. PICK S : S = {i \in 1 .. n : c[i] # node[i]}
      OBVIOUS
    <3>2. S \subseteq Nat /\ S # {}
      BY <2>2, <3>1
    <3>3. PICK j \in S : \A i \in S : j <= i
      BY <3>2, Least
    <3>4. ASSUME NEW i \in 1 .. j - 1 PROVE c[i] = node[i]
      <4>1. i \in 1 .. n /\ ~(j <= i)
        BY <3>1
      <4>.  QED  BY <3>1, <3>3, <4>1
    <3>.  QED  BY <3>1, <3>4
  <2>4. j = k \/ j \in k + 1 .. n
    BY <1>4, <2>3
  <2>5. c[j] <= node[j]
    BY <1>2, <1>4, <2>4 DEF Values
  <2>6. c[j] < node[j]
    BY <1>2, <2>3, <2>5 DEF Values
  <2>.  QED  BY <1>1, <2>3, <2>6 DEF Passed
<1>5. CASE Open = {}
  <2>1. phase' = "returned"
    BY <1>5 DEF GoOn
  <2>2. \A k \in 1 .. n : node[k] = 16
    BY <1>3, <1>5
  <2>3. n = 0 => Under(c)
    BY <1>1 DEF Under
  <2>4. ASSUME n # 0 PROVE Passed(c) \/ Under(c)
    <3>1. 1 \in 1 .. n /\ c[1] <= node[1]
      BY <1>2, <2>2, <2>4 DEF Values
    <3>2. \A j \in 1 + 1 .. n : node[j] = 16
      BY <2>2
    <3>.  QED  BY <1>4, <3>1, <3>2
  <2>.  QED  BY <1>5, <2>1, <2>3, <2>4
<1>6. CASE Open # {}
  <2>1. PICK k \in Open : k = Max(Open) /\ \A j \in Open : j <= k
    BY <1>3, <1>6, Greatest
  <2>2. k \in 1 .. n /\ node[k] \in Values \ {16} /\ \A j \in k + 1 .. n : node[j] = 16
    <3>1. k \in 1 .. n /\ node[k] # 16
      BY <1>3, <2>1
    <3>2. ASSUME NEW j \in k + 1 .. n PROVE node[j] = 16
      <4>1. j \in 1 .. n /\ ~(j <= k)
        BY <3>1
      <4>.  QED  BY <1>3, <2>1, <4>1
    <3>.  QED  BY <1>2, <3>1, <3>2
  <2>3. PICK v \in Values : v = NextValue(node[k]) /\ \A w \in Values : w < v => w <= node[k]
    BY <2>2, Candidates
  <2>4. node' = Append(SubSeq(node, 1, k - 1), v) /\ phase' = phase
    BY <1>6, <2>1, <2>3 DEF GoOn
  <2>5. /\ SubSeq(node, 1, k - 1) \in Seq(Values)
        /\ Len(SubSeq(node, 1, k - 1)) = k - 1
        /\ \A j \in 1 .. k - 1 : SubSeq(node, 1, k - 1)[j] = node[j]
    BY <1>1, <2>2, SubSeqProperties
  <2>6. node' \in Seq(Values) /\ Len(node') = k
    BY <2>2, <2>4, <2>5
  <2>7. DOMAIN node' = 1 .. k /\ node'[k] = v /\ \A j \in 1 .. k - 1 : node'[j] = node[j]
    BY <2>2, <2>4, <2>5, <2>6
  <2>8. ASSUME Passed(c)' PROVE Passed(c) \/ Under(c)
    <3>1. PICK i \in 1 .. k : (\A j \in 1 .. i - 1 : c[j] = node'[j]) /\ c[i] < node'[i]
      BY <2>7, <2>8 DEF Passed
    <3>2. \A j \in 1 .. i - 1 : c[j] = node[j]
      BY <2>2, <2>7, <3>1
    <3>3. CASE i < k
      <4>1. c[i] < node[i]
        BY <2>2, <2>7, <3>1, <3>3
      <4>.  QED  BY <1>1, <2>2, <3>1, <3>2, <4>1 DEF Passed
    <3>4. CASE i = k
      <4>1. c[k] <= node[k]
        BY <1>2, <2>2, <2>3, <2>7, <3>1, <3>4
      <4>.  QED  BY <1>4, <2>2, <3>2, <3>4, <4>1
    <3>.  QED  BY <2>2, <3>1, <3>3, <3>4
  <2>.  QED  BY <1>1, <1>6, <2>2, <2>4, <2>6, <2>8
<1>.  QED  BY <1>5, <1>6

-----------------------------------------------------------------------------
\* What a design costs does not change while the tuner runs.
Fixture == <<spec, top_n, param_specs>>

LEMMA MetricsFixed ==
    ASSUME UNCHANGED Fixture, NEW c, NEW i
    PROVE  Metrics(c, i)' = Metrics(c, i) /\ Params(c, i)' = Params(c, i)
BY DEF Fixture, Metrics, Params, Assigned, ips

LEMMA UtilFixed ==
    ASSUME UNCHANGED Fixture, NEW c, NEW n, NEW d
    PROVE  UtilWithin(c, n, d)' = UtilWithin(c, n, d)
<1>1. \A i : Metrics(c, i)' = Metrics(c, i)
  BY MetricsFixed
<1>2. \A r : Total(c, r)' = Total(c, r)
  BY <1>1 DEF Fixture, Total, ips
<1>.  QED  BY <1>2 DEF Fixture, UtilWithin

LEMMA LatencyFixed ==
    ASSUME UNCHANGED Fixture, NEW c
    PROVE  Latency(c)' = Latency(c)
<1>1. \A i : Metrics(c, i)' = Metrics(c, i) /\ Params(c, i)' = Params(c, i)
  BY MetricsFixed
<1>2. \A i : Beats(c, i)' = Beats(c, i)
  BY <1>1 DEF Fixture, Beats, ips
<1>3. \A i : InitiationInterval(c, i)' = InitiationInterval(c, i)
  BY <1>1 DEF Fixture, InitiationInterval, ips
<1>4. \A i : Period(c, i)' = Period(c, i)
  BY <1>1 DEF Fixture, Period, ips
<1>5. Congestion(c)' = Congestion(c)
  BY UtilFixed DEF Congestion
<1>6. TotalLatency(c)' = TotalLatency(c)
  BY <1>2, <1>3, <1>4, <1>5 DEF Fixture, TotalLatency, ips
<1>7. TotalElements(c)' = TotalElements(c)
  <2>1. \A i : Elements(ips[i].type, Params(c, i))' = Elements(ips[i].type, Params(c, i))
    BY <1>1 DEF Fixture, Elements, Length, Get, ips
  <2>.  QED  BY <2>1 DEF Fixture, TotalElements, ips
<1>.  QED  BY <1>6, <1>7 DEF Latency

\* What the search relies on: latencies are numbers, and a design that fits has
\* been built up from partial ones that fit.
Sound ==
    /\ top_n \in Nat \ {0} /\ N \in Nat
    /\ \A c \in [1 .. N -> Values] : Latency(c) \in Nat
    /\ \A c \in Designs, p \in Seq(Values) :
           Len(p) <= N /\ (\A j \in DOMAIN p : c[j] = p[j]) => UtilWithin(p, 1, 1)

LEMMA SoundFixed ==
    ASSUME UNCHANGED Fixture
    PROVE  Designs' = Designs /\ N' = N /\ (Sound => Sound')
<1>1. N' = N
  BY DEF Fixture, N
<1>2. Designs' = Designs
  BY UtilFixed DEF Fixture, Designs
<1>3. ASSUME Sound PROVE Sound'
  BY <1>1, <1>2, <1>3, UtilFixed, LatencyFixed DEF Fixture, Sound
<1>.  QED  BY <1>1, <1>2, <1>3

LEMMA DesignsType == Designs = {c \in [1 .. N -> Values] : UtilWithin(c, 1, 1)}
BY Candidates DEF Designs, N

-----------------------------------------------------------------------------
HeapHolds ==
    /\ IsFiniteSet(top_designs) /\ Cardinality(top_designs) <= heap_counter
    /\ \A d \in top_designs : /\ d.counter \in Nat /\ d.counter < heap_counter
                              /\ d.config \in Designs
                              /\ d.latency = Latency(d.config)
    /\ \A d, e \in top_designs : d.counter = e.counter => d = e

\* What the search knows of a design it has left behind.
Settled(c) ==
    /\ best_latency <= Latency(c)
    /\ heap_counter <= top_n /\ Latency(c) <= best_latency + best_latency \div 2
           => \E d \in top_designs : d.config = c

SearchInv ==
    /\ best_latency \in {Latency(c) : c \in Designs} \union {Infinity}
    /\ heap_counter \in Nat
    /\ HeapHolds
    /\ phase = "searching" =>
           /\ node \in Seq(Values) /\ Len(node) <= N
           /\ \A c \in Designs : Passed(c) => Settled(c)
    /\ phase = "returned" =>
           /\ \A c \in Designs : Settled(c)
           /\ results = Sorted(top_designs)

LEMMA Emptied ==
    ASSUME best_latency = Infinity, heap_counter = 0, top_designs = {}, node = <<>>,
           N \in Nat, phase # "returned"
    PROVE  SearchInv
<1>1. HeapHolds
  BY FS_EmptySet DEF HeapHolds
<1>2. \A c : ~Passed(c)
  BY DEF Passed
<1>.  QED  BY <1>1, <1>2 DEF SearchInv

\* The loops go on, with every design under this call settled.
LEMMA GoneOn ==
    ASSUME Sound, SearchInv, phase = "searching", UNCHANGED Fixture,
           best_latency' \in {Latency(c) : c \in Designs} \union {Infinity},
           heap_counter' \in Nat, HeapHolds', GoOn(top_designs'),
           \A c \in Designs : Passed(c) \/ Under(c) => Settled(c)'
    PROVE  SearchInv'
<1>1. Designs' = Designs /\ N' = N /\ \A c : Latency(c)' = Latency(c)
  BY SoundFixed, LatencyFixed
<1>2. PICK m \in Nat : m = N
  BY DEF Sound
<1>3. node \in Seq(Values) /\ Len(node) <= m
  BY <1>2 DEF SearchInv
<1>4. \A c \in Designs : c \in [1 .. m -> Values]
  BY <1>2, DesignsType
<1>5. {Latency(c) : c \in Designs}' = {Latency(c) : c \in Designs}
  BY <1>1
<1>6. CASE Open = {}
  <2>1. \A c \in Designs : phase' = "returned" /\ (Passed(c) \/ Under(c))
    BY <1>3, <1>4, <1>6, LoopsGoOn
  <2>2. phase' = "returned" /\ results' = Sorted(top_designs')
    BY <1>6 DEF GoOn
  <2>3. \A c \in Designs : Settled(c)'
    BY <2>1
  <2>4. Sorted(top_designs)' = Sorted(top_designs')
    BY DEF Sorted, Before
  <2>.  QED  BY <1>1, <1>5, <2>2, <2>3, <2>4 DEF SearchInv
<1>7. CASE Open # {}
  <2>1. PICK c0 : c0 \in [1 .. m -> Values]
    <3>1. [k \in 1 .. m |-> 1] \in [1 .. m -> Values]
      BY DEF Values
    <3>.  QED  BY <3>1
  <2>2. phase' = phase /\ node' \in Seq(Values) /\ Len(node') <= Len(node)
    BY <1>3, <1>7, <2>1, LoopsGoOn
  <2>3. \A c \in Designs : Passed(c)' => Passed(c) \/ Under(c)
    BY <1>3, <1>4, <1>7, LoopsGoOn
  <2>4. Len(node') <= N'
    BY <1>1, <1>2, <1>3, <2>2
  <2>.  QED  BY <1>1, <1>5, <2>2, <2>3, <2>4 DEF SearchInv
<1>.  QED  BY <1>6, <1>7

\* Nothing is left behind by going down.
LEMMA DescendInv == ASSUME Sound, SearchInv, Descend PROVE SearchInv'
<1>1. UNCHANGED Fixture /\ phase = "searching" /\ phase' = phase
  BY DEF Descend, Fixture
<1>2. Designs' = Designs /\ N' = N /\ \A c : Latency(c)' = Latency(c)
  BY <1>1, SoundFixed, LatencyFixed
<1>3. HeapHolds'
  BY <1>2 DEF SearchInv, HeapHolds, Descend
<1>4. PICK n \in Nat : n = Len(node) /\ DOMAIN node = 1 .. n /\ node \in Seq(Values) /\ n < N
  BY <1>1 DEF Descend, Complete, SearchInv, Sound, N
<1>5. node' = Append(node, 1)
  BY Candidates DEF Descend
<1>6. 1 \in Values
  BY DEF Values
<1>7. /\ node' \in Seq(Values) /\ Len(node') = n + 1 /\ DOMAIN node' = 1 .. n + 1
      /\ node'[n + 1] = 1 /\ \A k \in 1 .. n : node'[k] = node[k]
  BY <1>4, <1>5, <1>6
<1>8. ASSUME NEW c \in Designs, Passed(c)' PROVE Settled(c)'
  <2>1. PICK k \in 1 .. n + 1 : (\A j \in 1 .. k - 1 : c[j] = node'[j]) /\ c[k] < node'[k]
    BY <1>7, <1>8 DEF Passed
  <2>2. k # n + 1
    <3>1. n + 1 \in 1 .. N
      BY <1>4 DEF Sound
    <3>2. c[n + 1] \in Values
      BY <3>1, DesignsType
    <3>.  QED  BY <1>7, <2>1, <3>2 DEF Values
  <2>3. Passed(c)
    BY <1>4, <1>7, <2>1, <2>2 DEF Passed
  <2>4. Settled(c)
    BY <1>1, <2>3 DEF SearchInv
  <2>.  QED  BY <1>2, <2>4 DEF Settled, Descend
<1>9. Len(node') <= N'
  BY <1>2, <1>4, <1>7 DEF Sound
<1>10. {Latency(c) : c \in Designs}' = {Latency(c) : c \in Designs}
  BY <1>2
<1>.  QED  BY <1>1, <1>2, <1>3, <1>7, <1>8, <1>9, <1>10 DEF SearchInv, Descend

\* A branch that is cut holds no design that fits.
LEMMA PruneInv == ASSUME Sound, SearchInv, Prune PROVE SearchInv'
<1>1. UNCHANGED Fixture /\ phase = "searching"
  BY DEF Prune, Fixture
<1>2. Designs' = Designs /\ N' = N /\ \A c : Latency(c)' = Latency(c)
  BY <1>1, SoundFixed, LatencyFixed
<1>3. HeapHolds'
  BY <1>2 DEF SearchInv, HeapHolds, Prune
<1>4. UNCHANGED <<best_latency, heap_counter, top_designs>> /\ GoOn(top_designs')
  BY DEF Prune
<1>5. ~UtilWithin(node, 1, 1)
  BY DEF Prune, _prune_by_util
<1>6. ASSUME NEW c \in Designs, Passed(c) \/ Under(c) PROVE Settled(c)'
  <2>1. ~Under(c)
    BY <1>1, <1>5 DEF Sound, SearchInv, Under
  <2>2. Settled(c)
    BY <1>1, <1>6, <2>1 DEF SearchInv
  <2>.  QED  BY <1>1, <1>2, <1>4, <2>2 DEF Fixture, Settled
<1>.  QED  BY <1>1, <1>3, <1>4, <1>6, GoneOn DEF SearchInv

\* A complete call comes to one design, the one it has assigned.
LEMMA OneUnder ==
    ASSUME Sound, SearchInv, phase = "searching", Complete
    PROVE  /\ node \in [1 .. N -> Values]
           /\ \A c \in Designs : Under(c) => c = node
<1>1. node \in Seq(Values) /\ Len(node) = N
  BY DEF SearchInv, Complete, N
<1>2. node \in [1 .. N -> Values]
  BY <1>1
<1>3. ASSUME NEW c \in Designs, Under(c) PROVE c = node
  <2>1. c \in [1 .. N -> Values]
    BY DesignsType
  <2>2. PICK d \in [1 .. N -> Values] : d = node /\ DOMAIN node = 1 .. N
    BY <1>2
  <2>3. \A j \in 1 .. N : c[j] = d[j]
    BY <1>3, <2>2 DEF Under
  <2>4. c = [j \in 1 .. N |-> c[j]] /\ d = [j \in 1 .. N |-> d[j]]
    BY <2>1, <2>2
  <2>.  QED  BY <2>2, <2>3, <2>4
<1>.  QED  BY <1>2, <1>3

LEMMA Halves ==
    ASSUME NEW a \in Nat, NEW b \in Nat, a <= b
    PROVE  a \div 2 <= b \div 2 /\ a \div 2 \in Nat /\ b \div 2 \in Nat
OBVIOUS

\* A design that is kept, or dropped as too slow, is settled; what was settled
\* stays so as the best latency falls.
LEMMA EvaluateInv == ASSUME Sound, SearchInv, EvaluateFull PROVE SearchInv'
<1>1. UNCHANGED Fixture /\ phase = "searching" /\ Complete /\ GoOn(top_designs')
  BY DEF EvaluateFull, Fixture
<1>2. Designs' = Designs /\ N' = N /\ \A c : Latency(c)' = Latency(c)
  BY <1>1, SoundFixed, LatencyFixed
<1>3. /\ node \in [1 .. N -> Values]
      /\ \A c \in Designs : Under(c) => c = node
  BY <1>1, OneUnder
<1>4. PICK l \in Nat : l = Latency(node)
  BY <1>3 DEF Sound
<1>5. PICK b \in Nat : b = best_latency
  BY TunerAssumption, DesignsType DEF SearchInv, Sound
<1>6. CASE ~UtilWithin(node, 1, 1) \/ TooSlow(l)
  <2>1. UNCHANGED <<best_latency, heap_counter, top_designs>>
    BY <1>4, <1>6 DEF EvaluateFull
  <2>2. HeapHolds'
    BY <1>2, <2>1 DEF SearchInv, HeapHolds
  <2>3. ASSUME NEW c \in Designs, Passed(c) \/ Under(c) PROVE Settled(c)'
    <3>1. CASE Passed(c)
      <4>1. Settled(c)
        BY <1>1, <3>1 DEF SearchInv
      <4>.  QED  BY <1>1, <1>2, <2>1, <4>1 DEF Fixture, Settled
    <3>2. CASE Under(c)
      <4>1. c = node /\ UtilWithin(node, 1, 1)
        BY <1>3, <3>2, DesignsType
      <4>2. TooSlow(l) /\ l > b + b \div 2 /\ b \div 2 \in Nat
        BY <1>5, <1>6, <4>1 DEF TooSlow
      <4>3. Latency(c)' = l /\ best_latency' = b
        BY <1>2, <1>4, <1>5, <2>1, <4>1
      <4>.  QED  BY <4>2, <4>3 DEF Settled
    <3>.  QED  BY <2>3, <3>1, <3>2
  <2>.  QED  BY <1>1, <2>1, <2>2, <2>3, GoneOn DEF SearchInv
<1>7. CASE UtilWithin(node, 1, 1) /\ ~TooSlow(l)
  <2>1. PICK pushed : pushed = top_designs \union
            {[latency |-> l, counter |-> heap_counter, config |-> node]}
    OBVIOUS
  <2>2. /\ best_latency' = Min({b, l}) /\ heap_counter' = heap_counter + 1
        /\ top_designs' = Popped(pushed)
    BY <1>4, <1>5, <1>7, <2>1 DEF EvaluateFull
  <2>3. /\ best_latency' \in {b, l} /\ best_latency' <= b /\ best_latency' <= l
    <3>1. \E x \in {b, l} : \A y \in {b, l} : x <= y
      OBVIOUS
    <3>2. PICK x \in {b, l} : x = Min({b, l}) /\ \A y \in {b, l} : x <= y
      BY <3>1 DEF Min
    <3>.  QED  BY <2>2, <3>2
  <2>4. node \in Designs
    BY <1>3, <1>7, DesignsType
  <2>5. PICK h \in Nat : h = heap_counter
    BY DEF SearchInv
  <2>6. IsFiniteSet(pushed) /\ Cardinality(pushed) <= h + 1
    <3>1. IsFiniteSet(top_designs) /\ Cardinality(top_designs) <= h
      BY <2>5 DEF SearchInv, HeapHolds
    <3>2. Cardinality(top_designs) \in Nat
      BY <3>1, FS_CardinalityType
    <3>3. PICK new : pushed = top_designs \union {new}
      BY <2>1
    <3>4. CASE new \in top_designs
      <4>1. pushed = top_designs
        BY <3>3, <3>4
      <4>.  QED  BY <3>1, <3>2, <4>1
    <3>5. CASE new \notin top_designs
      BY <3>1, <3>2, <3>3, <3>5, FS_AddElement
    <3>.  QED  BY <3>4, <3>5
  <2>7. Popped(pushed) \subseteq pushed
    BY DEF Popped
  <2>8. HeapHolds'
    <3>1. IsFiniteSet(top_designs') /\ Cardinality(top_designs') <= h + 1
      <4>1. /\ IsFiniteSet(Popped(pushed)) /\ Cardinality(Popped(pushed)) <= Cardinality(pushed)
        BY <2>6, <2>7, FS_Subset
      <4>2. Cardinality(Popped(pushed)) \in Nat /\ Cardinality(pushed) \in Nat
        BY <2>6, <4>1, FS_CardinalityType
      <4>.  QED  BY <2>2, <2>6, <4>1, <4>2
    <3>2. ASSUME NEW d \in pushed
          PROVE  /\ d.counter \in Nat /\ d.counter < h + 1 /\ d.config \in Designs
                 /\ d.latency = Latency(d.config)
      BY <1>4, <2>1, <2>4, <2>5 DEF SearchInv, HeapHolds
    <3>3. ASSUME NEW d \in pushed, NEW e \in pushed, d.counter = e.counter PROVE d = e
      <4>1. ASSUME NEW x \in top_designs PROVE x.counter # h
        BY <2>5 DEF SearchInv, HeapHolds
      <4>.  QED  BY <2>1, <2>5, <3>3, <4>1 DEF SearchInv, HeapHolds
    <3>.  QED  BY <1>2, <2>2, <2>5, <2>7, <3>1, <3>2, <3>3 DEF HeapHolds
  <2>9. ASSUME heap_counter' <= top_n' PROVE top_designs' = pushed
    <3>1. Cardinality(pushed) \in Nat /\ top_n \in Nat /\ top_n' = top_n
      BY <1>1, <2>6, FS_CardinalityType DEF Fixture, Sound
    <3>2. Cardinality(pushed) <= top_n
      BY <2>2, <2>5, <2>6, <2>9, <3>1
    <3>.  QED  BY <2>2, <3>2 DEF Popped
  <2>10. ASSUME NEW c \in Designs, Passed(c) \/ Under(c) PROVE Settled(c)'
    <3>1. PICK b2 \in Nat : b2 = best_latency' /\ b2 <= b /\ b2 <= l
      BY <2>3
    <3>2. PICK k \in Nat : k = Latency(c) /\ k = Latency(c)'
      BY <1>2, DesignsType DEF Sound
    <3>3. CASE Passed(c)
      <4>1. Settled(c)
        BY <1>1, <3>3 DEF SearchInv
      <4>2. b2 <= k
        BY <1>5, <3>1, <3>2, <4>1 DEF Settled
      <4>3. ASSUME heap_counter' <= top_n', k <= b2 + b2 \div 2
            PROVE  \E d \in top_designs' : d.config = c
        <5>1. b2 \div 2 <= b \div 2 /\ b2 \div 2 \in Nat /\ b \div 2 \in Nat
          BY <3>1, Halves
        <5>2. k <= b + b \div 2
          <6>1. PICK p \in Nat, q \in Nat : p = b2 \div 2 /\ q = b \div 2 /\ p <= q
            BY <5>1
          <6>2. k <= b2 + p
            BY <4>3, <6>1
          <6>3. k <= b + q
            BY <1>5, <3>1, <3>2, <6>1, <6>2
          <6>.  QED  BY <6>1, <6>3
        <5>3. heap_counter <= top_n
          BY <1>1, <2>2, <2>5, <4>3 DEF Fixture, Sound
        <5>4. PICK d \in top_designs : d.config = c
          BY <1>5, <3>2, <4>1, <5>2, <5>3 DEF Settled
        <5>.  QED  BY <2>1, <2>9, <4>3, <5>4
      <4>.  QED  BY <3>1, <3>2, <4>2, <4>3 DEF Settled
    <3>4. CASE Under(c)
      <4>1. c = node /\ k = l
        BY <1>3, <1>4, <3>2, <3>4
      <4>2. ASSUME heap_counter' <= top_n' PROVE \E d \in top_designs' : d.config = c
        <5>1. PICK d : d = [latency |-> l, counter |-> heap_counter, config |-> node]
          OBVIOUS
        <5>2. d \in pushed /\ d.config = node
          BY <2>1, <5>1
        <5>.  QED  BY <2>9, <4>1, <4>2, <5>2
      <4>.  QED  BY <3>1, <3>2, <4>1, <4>2 DEF Settled
    <3>.  QED  BY <2>10, <3>3, <3>4
  <2>11. best_latency' \in {Latency(c) : c \in Designs} \union {Infinity}
    BY <1>4, <1>5, <2>3, <2>4 DEF SearchInv
  <2>12. heap_counter' \in Nat
    BY <2>2, <2>5
  <2>.  QED  BY <1>1, <2>8, <2>10, <2>11, <2>12, GoneOn
<1>.  QED  BY <1>6, <1>7

LEMMA SearchNext == Sound /\ SearchInv /\ [TunerNext]_tuner_vars => (Sound /\ SearchInv)'
<1>. SUFFICES ASSUME Sound, SearchInv, [TunerNext]_tuner_vars PROVE (Sound /\ SearchInv)'
  OBVIOUS
<1>1. UNCHANGED Fixture
  BY DEF TunerNext, Start, Descend, Prune, EvaluateFull, tuner_vars, Fixture
<1>2. Sound'
  BY <1>1, SoundFixed
<1>3. CASE Start
  <2>1. /\ best_latency' = Infinity /\ heap_counter' = 0 /\ top_designs' = {}
        /\ node' = <<>> /\ phase' # "returned"
    BY <1>3 DEF Start
  <2>2. HeapHolds'
    BY <2>1, FS_EmptySet DEF HeapHolds
  <2>3. \A c : ~Passed(c)'
    BY <2>1 DEF Passed
  <2>.  QED  BY <1>2, <2>1, <2>2, <2>3 DEF Sound, SearchInv
<1>4. CASE UNCHANGED tuner_vars
  <2>1. Designs' = Designs /\ N' = N /\ \A c : Latency(c)' = Latency(c)
    BY <1>1, SoundFixed, LatencyFixed
  <2>2. HeapHolds' /\ \A c : Settled(c)' = Settled(c) /\ Passed(c)' = Passed(c)
    BY <1>4, <2>1 DEF tuner_vars, SearchInv, HeapHolds, Settled, Passed
  <2>3. {Latency(c) : c \in Designs}' = {Latency(c) : c \in Designs}
    BY <2>1
  <2>4. Sorted(top_designs)' = Sorted(top_designs')
    BY DEF Sorted, Before
  <2>5. UNCHANGED <<best_latency, heap_counter, top_designs, phase, node, results>>
    BY <1>4 DEF tuner_vars
  <2>.  QED  BY <1>2, <2>1, <2>2, <2>3, <2>4, <2>5 DEF SearchInv
<1>.  QED  BY <1>2, <1>3, <1>4, DescendInv, PruneInv, EvaluateInv DEF TunerNext

-----------------------------------------------------------------------------
\* Sorting loses no design.
LEMMA AllSorted ==
    ASSUME NEW D, IsFiniteSet(D),
           \A d \in D : d.latency \in Nat /\ d.counter \in Nat,
           \A d, e \in D : d.counter = e.counter => d = e,
           NEW e \in D
    PROVE  \E k \in DOMAIN Sorted(D) : Sorted(D)[k] = e
<1>. DEFINE Ahead(d) == {x \in D : Before(x, d)}
<1>1. \A d \in D : IsFiniteSet(Ahead(d)) /\ Cardinality(Ahead(d)) \in Nat
  <2>1. \A d \in D : Ahead(d) \subseteq D
    OBVIOUS
  <2>.  QED  BY <2>1, FS_Subset, FS_CardinalityType
<1>2. ASSUME NEW d \in D, NEW x \in D, Before(x, d)
      PROVE  Cardinality(Ahead(x)) < Cardinality(Ahead(d))
  <2>1. x \notin Ahead(x) /\ Ahead(x) \union {x} \subseteq Ahead(d)
    BY <1>2 DEF Before
  <2>2. Cardinality(Ahead(x) \union {x}) = Cardinality(Ahead(x)) + 1
    BY <1>1, <2>1, FS_AddElement
  <2>3. Cardinality(Ahead(x) \union {x}) <= Cardinality(Ahead(d))
    BY <1>1, <2>1, FS_Subset
  <2>.  HIDE DEF Ahead
  <2>.  QED  BY <1>1, <2>2, <2>3
<1>3. ASSUME NEW d \in D, Cardinality(Ahead(d)) = Cardinality(Ahead(e)) PROVE d = e
  <2>1. Before(d, e) \/ Before(e, d) \/ d = e
    BY DEF Before
  <2>.  HIDE DEF Ahead
  <2>.  QED  BY <1>1, <1>2, <1>3, <2>1
<1>4. PICK k \in Nat : k = Cardinality(Ahead(e)) + 1
  <2>.  HIDE DEF Ahead
  <2>.  QED  BY <1>1
<1>5. k \in 1 .. Cardinality(D)
  <2>1. Ahead(e) \subseteq D \ {e}
    BY DEF Before
  <2>2. IsFiniteSet(D \ {e}) /\ Cardinality(D \ {e}) = Cardinality(D) - 1
    BY FS_RemoveElement
  <2>3. Cardinality(Ahead(e)) <= Cardinality(D) - 1 /\ Cardinality(D) \in Nat
    BY <2>1, <2>2, FS_Subset, FS_CardinalityType
  <2>.  QED  BY <1>1, <1>4, <2>3
<1>6. Sorted(D)[k] = CHOOSE d \in D : Cardinality(Ahead(d)) = k - 1
  BY <1>5 DEF Sorted
<1>7. Cardinality(Ahead(e)) = k - 1
  BY <1>1, <1>4
<1>8. (CHOOSE d \in D : Cardinality(Ahead(d)) = k - 1) = e
  <2>.  HIDE DEF Ahead
  <2>.  QED  BY <1>3, <1>7
<1>9. k \in DOMAIN Sorted(D)
  BY <1>5 DEF Sorted
<1>.  QED  BY <1>6, <1>8, <1>9

\* Where the search has returned, it has left behind every design.
LEMMA SearchImplies == Sound /\ SearchInv => BestFound /\ NearBestReturned
<1>. SUFFICES ASSUME Sound, SearchInv, Returned PROVE BestFound /\ NearBestReturned
  BY DEF BestFound, NearBestReturned
<1>1. (\A c \in Designs : Settled(c)) /\ results = Sorted(top_designs)
  BY DEF SearchInv, Returned
<1>2. \A c \in Designs : Latency(c) \in Nat
  BY DesignsType DEF Sound
<1>3. best_latency \in Nat
  BY <1>2, TunerAssumption DEF SearchInv
<1>4. BestFound
  BY <1>1, <1>2, <1>3 DEF BestFound, Settled, SearchInv
<1>5. ASSUME heap_counter <= top_n, NEW c \in Designs,
             Latency(c) <= best_latency + best_latency \div 2
      PROVE  \E k \in DOMAIN results : results[k].config = c
  <2>1. PICK d \in top_designs : d.config = c
    BY <1>1, <1>5 DEF Settled
  <2>2. PICK D : D = top_designs
    OBVIOUS
  <2>3. \E k \in DOMAIN Sorted(D) : Sorted(D)[k] = d
    BY <1>2, <2>1, <2>2, AllSorted DEF SearchInv, HeapHolds
  <2>.  QED  BY <1>1, <2>1, <2>2, <2>3
<1>.  QED  BY <1>4, <1>5 DEF NearBestReturned

-----------------------------------------------------------------------------
\* A function defined step by step.
Stepwise(f, L, a, step) ==
    \A i \in 0 .. L : f[i] = IF i = 0 THEN a ELSE step[<<i, f[i - 1]>>]

LEMMA Recursion ==
    ASSUME NEW L \in Nat, NEW A, NEW a \in A, NEW step \in [(1 .. L) \X A -> A]
    PROVE  \E f \in [0 .. L -> A] : Stepwise(f, L, a, step)
<1>. DEFINE Solution(n, s) == /\ s[0] = a
                              /\ \A i \in 1 .. n : s[i] = step[<<i, s[i - 1]>>]
            Solved(n) == n <= L => \E s \in [0 .. n -> A] : Solution(n, s)
            S == {n \in Nat : Solved(n)}
<1>1. Solved(0)
  <2>1. [i \in 0 .. 0 |-> a] \in [0 .. 0 -> A] /\ Solution(0, [i \in 0 .. 0 |-> a])
    OBVIOUS
  <2>.  QED  BY <2>1
<1>2. ASSUME NEW n \in Nat, Solved(n) PROVE Solved(n + 1)
  <2>1. SUFFICES ASSUME n + 1 <= L
                 PROVE  \E s \in [0 .. n + 1 -> A] : Solution(n + 1, s)
    OBVIOUS
  <2>2. PICK s \in [0 .. n -> A] : Solution(n, s)
    BY <1>2, <2>1
  <2>3. PICK t : t = [i \in 0 .. n + 1 |-> IF i = n + 1 THEN step[<<n + 1, s[n]>>] ELSE s[i]]
    OBVIOUS
  <2>4. n + 1 \in 1 .. L /\ n \in 0 .. n /\ s[n] \in A
    BY <2>1, <2>2
  <2>5. step[<<n + 1, s[n]>>] \in A
    BY <2>4
  <2>6. t \in [0 .. n + 1 -> A]
    <3>1. \A i \in 0 .. n + 1 : i = n + 1 \/ i \in 0 .. n
      OBVIOUS
    <3>.  QED  BY <2>2, <2>3, <2>5, <3>1
  <2>7. t[0] = a
    BY <2>2, <2>3
  <2>8. ASSUME NEW i \in 1 .. n + 1 PROVE t[i] = step[<<i, t[i - 1]>>]
    <3>1. i - 1 \in 0 .. n /\ t[i - 1] = s[i - 1]
      BY <2>3
    <3>2. CASE i = n + 1
      <4>1. t[i] = step[<<n + 1, s[n]>>] /\ i - 1 = n
        BY <2>3, <3>2
      <4>.  QED  BY <3>1, <3>2, <4>1
    <3>3. CASE i # n + 1
      <4>1. i \in 1 .. n /\ t[i] = s[i]
        BY <2>3, <3>3
      <4>.  QED  BY <2>2, <3>1, <4>1
    <3>.  QED  BY <3>2, <3>3
  <2>.  QED  BY <2>6, <2>7, <2>8
<1>3. 0 \in S /\ \A n \in Nat : n \in S => n + 1 \in S
  <2>.  HIDE DEF Solved
  <2>.  QED  BY <1>1, <1>2
<1>4. L \in S
  <2>.  HIDE DEF S
  <2>.  QED  BY <1>3, Induction
<1>5. PICK s \in [0 .. L -> A] : Solution(L, s)
  BY <1>4
<1>.  QED  BY <1>5 DEF Stepwise

\* Added, as its definition reads.
LEMMA AddedSteps ==
    ASSUME NEW f \in Seq(Int)
    PROVE  \E s \in [0 .. Len(f) -> Int] :
               /\ s[0] = 0 /\ \A n \in 1 .. Len(f) : s[n] = s[n - 1] + f[n]
               /\ Added(f) = s[Len(f)]
<1>. DEFINE sum[n \in 0 .. Len(f)] == IF n = 0 THEN 0 ELSE sum[n - 1] + f[n]
            L == Len(f)
            step == [x \in (1 .. L) \X Int |-> x[2] + f[x[1]]]
<1>1. L \in Nat /\ \A n \in 1 .. L : f[n] \in Int
  OBVIOUS
<1>2. step \in [(1 .. L) \X Int -> Int]
  BY <1>1
<1>3. \A n \in 1 .. L, x \in Int : step[<<n, x>>] = x + f[n]
  OBVIOUS
<1>.  HIDE DEF L, step
<1>4. PICK s \in [0 .. L -> Int] : Stepwise(s, L, 0, step)
  <2>1. 0 \in Int
    OBVIOUS
  <2>.  QED  BY <1>1, <1>2, <2>1, Recursion
<1>5. \A i \in 0 .. L : s[i] = IF i = 0 THEN 0 ELSE s[i - 1] + f[i]
  <2>1. \A i \in 0 .. L : i # 0 => i \in 1 .. L /\ s[i - 1] \in Int
    BY <1>1, <1>4
  <2>.  QED  BY <1>3, <1>4, <2>1 DEF Stepwise
<1>6. s = [n \in 0 .. L |-> IF n = 0 THEN 0 ELSE s[n - 1] + f[n]]
  BY <1>4, <1>5
<1>7. sum = [n \in 0 .. L |-> IF n = 0 THEN 0 ELSE sum[n - 1] + f[n]]
  BY <1>6 DEF L
<1>8. Added(f) = sum[L]
  BY DEF Added, L
<1>.  HIDE DEF sum
<1>9. sum \in [0 .. L -> Int]
  <2>. DEFINE S == {n \in Nat : n <= L => sum[n] \in Int}
  <2>1. 0 \in S
    BY <1>1, <1>7
  <2>2. ASSUME NEW n \in Nat, n \in S PROVE n + 1 \in S
    BY <1>1, <1>7, <2>2
  <2>3. Nat \subseteq S
    <3>. HIDE DEF S
    <3>. QED  BY <2>1, <2>2, Induction
  <2>4. \A n \in 0 .. L : sum[n] \in Int
    BY <1>1, <2>3
  <2>.  QED  BY <1>7, <2>4
<1>10. sum[0] = 0 /\ \A n \in 1 .. L : sum[n] = sum[n - 1] + f[n]
  BY <1>1, <1>7
<1>.  QED  BY <1>8, <1>9, <1>10 DEF L

\* It is a number, and grows with its terms.
LEMMA AddedGrows ==
    ASSUME NEW f \in Seq(Int), NEW g \in Seq(Int), Len(f) = Len(g),
           \A n \in 1 .. Len(f) : f[n] <= g[n]
    PROVE  Added(f) \in Int /\ Added(g) \in Int /\ Added(f) <= Added(g)
<1>1. PICK L \in Nat : L = Len(f) /\ L = Len(g)
  OBVIOUS
<1>2. PICK s \in [0 .. L -> Int] : /\ s[0] = 0 /\ \A n \in 1 .. L : s[n] = s[n - 1] + f[n]
                                   /\ Added(f) = s[L]
  BY <1>1, AddedSteps
<1>3. PICK t \in [0 .. L -> Int] : /\ t[0] = 0 /\ \A n \in 1 .. L : t[n] = t[n - 1] + g[n]
                                   /\ Added(g) = t[L]
  BY <1>1, AddedSteps
<1>. DEFINE S == {n \in Nat : n <= L => s[n] <= t[n]}
<1>4. 0 \in S
  BY <1>2, <1>3
<1>5. ASSUME NEW n \in Nat, n \in S PROVE n + 1 \in S
  <2>1. SUFFICES ASSUME n + 1 <= L PROVE s[n + 1] <= t[n + 1]
    OBVIOUS
  <2>2. n + 1 \in 1 .. L /\ n \in 0 .. L /\ s[n] <= t[n]
    BY <1>1, <1>5, <2>1
  <2>3. f[n + 1] \in Int /\ g[n + 1] \in Int /\ f[n + 1] <= g[n + 1]
    BY <1>1, <2>2
  <2>4. s[n + 1] = s[n] + f[n + 1] /\ t[n + 1] = t[n] + g[n + 1]
    <3>1. (n + 1) - 1 = n
      OBVIOUS
    <3>.  QED  BY <1>1, <1>2, <1>3, <2>2, <3>1
  <2>5. s[n] \in Int /\ t[n] \in Int
    BY <1>2, <1>3, <2>2
  <2>6. PICK x \in Int, y \in Int, p \in Int, q \in Int :
            x = s[n] /\ y = t[n] /\ p = f[n + 1] /\ q = g[n + 1]
    BY <2>3, <2>5
  <2>7. x <= y /\ p <= q
    BY <2>2, <2>3, <2>6
  <2>8. \A i, j, k, l \in Int : i <= j /\ k <= l => i + k <= j + l
    OBVIOUS
  <2>9. x + p <= y + q
    BY <2>6, <2>7, <2>8
  <2>.  QED  BY <2>4, <2>6, <2>9
<1>6. L \in S
  <2>. HIDE DEF S
  <2>. QED  BY <1>1, <1>4, <1>5, Induction
<1>.  QED  BY <1>1, <1>2, <1>3, <1>6

-----------------------------------------------------------------------------
Sizes(params) == \A p \in DOMAIN params : params[p] \in Nat \ {0}

LEMMA GetSize ==
    ASSUME NEW params, Sizes(params), NEW name PROVE Get(params, name) \in Nat \ {0}
BY DEF Sizes, Get

LEMMA ProductNat ==
    ASSUME NEW a \in Nat, NEW b \in Nat PROVE a * b \in Nat
OBVIOUS

LEMMA ProductGrows ==
    ASSUME NEW a \in Nat, NEW b \in Nat, NEW c \in Nat, NEW d \in Nat, a <= b, c <= d
    PROVE  a * c <= b * d
<1>1. PICK e \in Nat, g \in Nat : b = a + e /\ d = c + g
  <2>1. b - a \in Nat /\ d - c \in Nat /\ b = a + (b - a) /\ d = c + (d - c)
    OBVIOUS
  <2>.  QED  BY <2>1
<1>2. b * d = a * c + a * g + e * c + e * g
  BY <1>1
<1>3. a * g \in Nat /\ e * c \in Nat /\ e * g \in Nat /\ a * c \in Nat
  BY <1>1
<1>.  QED  BY <1>2, <1>3

\* A type the database has no estimate for costs nothing.
LEMMA Unlisted ==
    ASSUME NEW type, NEW p,
           type # "ALU", type # "TemporalGEMM", type # "StatefulNorm",
           type # "StatefulSoftmax", type # "Activation", type # "FIFO",
           type # "GEMM", type # "Softmax", type # "Norm", type # "MemRouter"
    PROVE  Estimate(type, p) = Cost(0, 0, 0, 8000)
BY DEF Estimate

\* Every estimate is a number of each resource, and grows with every parameter.
LEMMA EstimateGrows ==
    ASSUME NEW type, NEW p, NEW q, Sizes(p), Sizes(q),
           \A name : Get(p, name) <= Get(q, name), NEW r \in Resources
    PROVE  /\ Estimate(type, p)[r] \in Nat /\ Estimate(type, q)[r] \in Nat
           /\ Estimate(type, p)[r] <= Estimate(type, q)[r]
           /\ Estimate(type, p).wns \in Int
<1>. DEFINE t(name) == Get(p, name)
            u(name) == Get(q, name)
            prod == t("T_M") * t("T_K") * t("T_N")
            qrod == u("T_M") * u("T_K") * u("T_N")
<1>1. \A name : /\ t(name) \in Nat /\ t(name) >= 1 /\ u(name) \in Nat /\ t(name) <= u(name)
  BY GetSize
<1>2. prod \in Nat /\ qrod \in Nat /\ prod <= qrod
  <2>1. PICK a \in Nat, b \in Nat, c \in Nat, d \in Nat, e \in Nat, f \in Nat :
            /\ a = t("T_M") /\ b = t("T_K") /\ c = t("T_N")
            /\ d = u("T_M") /\ e = u("T_K") /\ f = u("T_N")
            /\ a <= d /\ b <= e /\ c <= f
    BY <1>1
  <2>2. a * b \in Nat /\ d * e \in Nat /\ a * b <= d * e
    BY <2>1, ProductGrows, ProductNat
  <2>3. (a * b) * c <= (d * e) * f /\ (a * b) * c \in Nat /\ (d * e) * f \in Nat
    BY <2>1, <2>2, ProductGrows, ProductNat
  <2>.  QED  BY <2>1, <2>3
<1>3. /\ t("T_M") * t("T_N") \in Nat /\ u("T_M") * u("T_N") \in Nat
      /\ t("T_M") * t("T_N") <= u("T_M") * u("T_N")
  BY <1>1, ProductGrows, ProductNat
<1>4. /\ t("depth") * t("T_width") \in Nat /\ u("depth") * u("T_width") \in Nat
      /\ t("depth") * t("T_width") <= u("depth") * u("T_width")
  BY <1>1, ProductGrows, ProductNat
<1>5. /\ prod \div 4 \in Nat /\ qrod \div 4 \in Nat /\ prod \div 4 <= qrod \div 4
      /\ prod \div 8 \in Nat /\ qrod \div 8 \in Nat /\ prod \div 8 <= qrod \div 8
  <2>1. \A a, b \in Nat : a <= b =>
            /\ a \div 4 \in Nat /\ b \div 4 \in Nat /\ a \div 4 <= b \div 4
            /\ a \div 8 \in Nat /\ b \div 8 \in Nat /\ a \div 8 <= b \div 8
    OBVIOUS
  <2>.  HIDE DEF prod, qrod
  <2>.  QED  BY <1>2, <2>1
<1>. DEFINE Grows(c, d) == /\ c \in [LUT : Nat, FF : Nat, DSP : Nat, BRAM : Nat, wns : Int]
                           /\ d \in [LUT : Nat, FF : Nat, DSP : Nat, BRAM : Nat, wns : Int]
                           /\ \A x \in Resources : c[x] <= d[x]
<1>6. ASSUME NEW l1 \in Nat, NEW f1 \in Nat, NEW d1 \in Nat, NEW w1 \in Int,
             NEW l2 \in Nat, NEW f2 \in Nat, NEW d2 \in Nat, NEW w2 \in Int,
             l1 <= l2, f1 <= f2, d1 <= d2
      PROVE  Grows(Cost(l1, f1, d1, w1), Cost(l2, f2, d2, w2))
  BY <1>6 DEF Cost, Resources
<1>7. Grows(Estimate(type, p), Estimate(type, q))
  <2>1. CASE type = "ALU"
    <3>1. PICK a \in Nat, x \in Nat :
              /\ a = t("T_width") /\ x = u("T_width") /\ a <= x /\ a >= 1 /\ x >= 1
      <4>. HIDE DEF t, u, prod, qrod
      <4>. QED  BY <1>1
    <3>2. /\ Estimate(type, p) = Cost(109 + (a - 1) * 108, 9 + (a - 1) * 8, 0, 7827 + (a - 1) * 309)
          /\ Estimate(type, q) = Cost(109 + (x - 1) * 108, 9 + (x - 1) * 8, 0, 7827 + (x - 1) * 309)
      BY <2>1, <3>1 DEF Estimate
    <3>3. /\ 109 + (a - 1) * 108 \in Nat /\ 109 + (x - 1) * 108 \in Nat /\ 109 + (a - 1) * 108 <= 109 + (x - 1) * 108
          /\ 9 + (a - 1) * 8 \in Nat /\ 9 + (x - 1) * 8 \in Nat /\ 9 + (a - 1) * 8 <= 9 + (x - 1) * 8
          /\ 0 \in Nat /\ 0 \in Nat /\ 0 <= 0
          /\ 7827 + (a - 1) * 309 \in Int /\ 7827 + (x - 1) * 309 \in Int
      <4>. HIDE DEF t, u, prod, qrod
      <4>. QED  BY <3>1
    <3>.  HIDE DEF t, u, prod, qrod
    <3>.  QED  BY <3>2, <3>3 DEF Cost, Resources
  <2>2. CASE type = "TemporalGEMM"
    <3>1. PICK a \in Nat, b \in Nat, c \in Nat, x \in Nat, y \in Nat, z \in Nat :
              /\ a = prod /\ x = qrod /\ a <= x
              /\ b = t("T_M") * t("T_N") /\ y = u("T_M") * u("T_N") /\ b <= y
              /\ c = prod \div 4 /\ z = qrod \div 4 /\ c <= z
      <4>. HIDE DEF t, u, prod, qrod
      <4>. QED  BY <1>1, <1>2, <1>3, <1>4, <1>5
    <3>2. /\ Estimate(type, p) = Cost(a * 200, b * 16, c, 8000)
          /\ Estimate(type, q) = Cost(x * 200, y * 16, z, 8000)
      BY <2>2, <3>1 DEF Estimate
    <3>3. /\ a * 200 \in Nat /\ x * 200 \in Nat /\ a * 200 <= x * 200
          /\ b * 16 \in Nat /\ y * 16 \in Nat /\ b * 16 <= y * 16
          /\ c \in Nat /\ z \in Nat /\ c <= z
          /\ 8000 \in Int /\ 8000 \in Int
      <4>. HIDE DEF t, u, prod, qrod
      <4>. QED  BY <3>1
    <3>.  HIDE DEF t, u, prod, qrod
    <3>.  QED  BY <3>2, <3>3 DEF Cost, Resources
  <2>3. CASE type = "StatefulNorm"
    <3>1. PICK a \in Nat, b \in Nat, x \in Nat, y \in Nat :
              /\ a = t("T_channel") /\ x = u("T_channel") /\ a <= x
              /\ b = t("N_channel") /\ y = u("N_channel") /\ b <= y
      <4>. HIDE DEF t, u, prod, qrod
      <4>. QED  BY <1>1
    <3>2. /\ Estimate(type, p) = Cost(a * 80 + b * 2, a * 16, 0, 8000)
          /\ Estimate(type, q) = Cost(x * 80 + y * 2, x * 16, 0, 8000)
      BY <2>3, <3>1 DEF Estimate
    <3>3. /\ a * 80 + b * 2 \in Nat /\ x * 80 + y * 2 \in Nat /\ a * 80 + b * 2 <= x * 80 + y * 2
          /\ a * 16 \in Nat /\ x * 16 \in Nat /\ a * 16 <= x * 16
          /\ 0 \in Nat /\ 0 \in Nat /\ 0 <= 0
          /\ 8000 \in Int /\ 8000 \in Int
      <4>. HIDE DEF t, u, prod, qrod
      <4>. QED  BY <3>1
    <3>.  HIDE DEF t, u, prod, qrod
    <3>.  QED  BY <3>2, <3>3 DEF Cost, Resources
  <2>4. CASE type = "StatefulSoftmax"
    <3>1. PICK a \in Nat, b \in Nat, x \in Nat, y \in Nat :
              /\ a = t("T_seq") /\ x = u("T_seq") /\ a <= x
              /\ b = t("N_seq") /\ y = u("N_seq") /\ b <= y
      <4>. HIDE DEF t, u, prod, qrod
      <4>. QED  BY <1>1
    <3>2. /\ Estimate(type, p) = Cost(a * 100 + b * 2, a * 20, 0, 8000)
          /\ Estimate(type, q) = Cost(x * 100 + y * 2, x * 20, 0, 8000)
      BY <2>4, <3>1 DEF Estimate
    <3>3. /\ a * 100 + b * 2 \in Nat /\ x * 100 + y * 2 \in Nat /\ a * 100 + b * 2 <= x * 100 + y * 2
          /\ a * 20 \in Nat /\ x * 20 \in Nat /\ a * 20 <= x * 20
          /\ 0 \in Nat /\ 0 \in Nat /\ 0 <= 0
          /\ 8000 \in Int /\ 8000 \in Int
      <4>. HIDE DEF t, u, prod, qrod
      <4>. QED  BY <3>1
    <3>.  HIDE DEF t, u, prod, qrod
    <3>.  QED  BY <3>2, <3>3 DEF Cost, Resources
  <2>5. CASE type = "Activation"
    <3>1. PICK a \in Nat, x \in Nat :
              /\ a = t("T_width") /\ x = u("T_width") /\ a <= x
      <4>. HIDE DEF t, u, prod, qrod
      <4>. QED  BY <1>1
    <3>2. /\ Estimate(type, p) = Cost(a * 15, a * 4, 0, 8000)
          /\ Estimate(type, q) = Cost(x * 15, x * 4, 0, 8000)
      BY <2>5, <3>1 DEF Estimate
    <3>3. /\ a * 15 \in Nat /\ x * 15 \in Nat /\ a * 15 <= x * 15
          /\ a * 4 \in Nat /\ x * 4 \in Nat /\ a * 4 <= x * 4
          /\ 0 \in Nat /\ 0 \in Nat /\ 0 <= 0
          /\ 8000 \in Int /\ 8000 \in Int
      <4>. HIDE DEF t, u, prod, qrod
      <4>. QED  BY <3>1
    <3>.  HIDE DEF t, u, prod, qrod
    <3>.  QED  BY <3>2, <3>3 DEF Cost, Resources
  <2>6. CASE type = "FIFO"
    <3>1. PICK a \in Nat, b \in Nat, c \in Nat, x \in Nat, y \in Nat, z \in Nat :
              /\ a = t("depth") /\ x = u("depth") /\ a <= x
              /\ b = t("T_width") /\ y = u("T_width") /\ b <= y
              /\ c = t("depth") * t("T_width") /\ z = u("depth") * u("T_width") /\ c <= z
      <4>. HIDE DEF t, u, prod, qrod
      <4>. QED  BY <1>1, <1>2, <1>3, <1>4, <1>5
    <3>2. /\ Estimate(type, p) = Cost(a * 2 + b * 4, c * 8 + 16, 0, 8000)
          /\ Estimate(type, q) = Cost(x * 2 + y * 4, z * 8 + 16, 0, 8000)
      BY <2>6, <3>1 DEF Estimate
    <3>3. /\ a * 2 + b * 4 \in Nat /\ x * 2 + y * 4 \in Nat /\ a * 2 + b * 4 <= x * 2 + y * 4
          /\ c * 8 + 16 \in Nat /\ z * 8 + 16 \in Nat /\ c * 8 + 16 <= z * 8 + 16
          /\ 0 \in Nat /\ 0 \in Nat /\ 0 <= 0
          /\ 8000 \in Int /\ 8000 \in Int
      <4>. HIDE DEF t, u, prod, qrod
      <4>. QED  BY <3>1
    <3>.  HIDE DEF t, u, prod, qrod
    <3>.  QED  BY <3>2, <3>3 DEF Cost, Resources
  <2>7. CASE type = "GEMM"
    <3>1. PICK a \in Nat, b \in Nat, c \in Nat, x \in Nat, y \in Nat, z \in Nat :
              /\ a = prod /\ x = qrod /\ a <= x
              /\ b = t("T_M") * t("T_N") /\ y = u("T_M") * u("T_N") /\ b <= y
              /\ c = prod \div 8 /\ z = qrod \div 8 /\ c <= z
      <4>. HIDE DEF t, u, prod, qrod
      <4>. QED  BY <1>1, <1>2, <1>3, <1>4, <1>5
    <3>2. /\ Estimate(type, p) = Cost(a * 50, b * 8, c, 8000)
          /\ Estimate(type, q) = Cost(x * 50, y * 8, z, 8000)
      BY <2>7, <3>1 DEF Estimate
    <3>3. /\ a * 50 \in Nat /\ x * 50 \in Nat /\ a * 50 <= x * 50
          /\ b * 8 \in Nat /\ y * 8 \in Nat /\ b * 8 <= y * 8
          /\ c \in Nat /\ z \in Nat /\ c <= z
          /\ 8000 \in Int /\ 8000 \in Int
      <4>. HIDE DEF t, u, prod, qrod
      <4>. QED  BY <3>1
    <3>.  HIDE DEF t, u, prod, qrod
    <3>.  QED  BY <3>2, <3>3 DEF Cost, Resources
  <2>8. CASE type = "Softmax"
    <3>1. PICK a \in Nat, x \in Nat :
              /\ a = t("T_seq") /\ x = u("T_seq") /\ a <= x
      <4>. HIDE DEF t, u, prod, qrod
      <4>. QED  BY <1>1
    <3>2. /\ Estimate(type, p) = Cost(a * 30, a * 10, 0, 8000)
          /\ Estimate(type, q) = Cost(x * 30, x * 10, 0, 8000)
      BY <2>8, <3>1 DEF Estimate
    <3>3. /\ a * 30 \in Nat /\ x * 30 \in Nat /\ a * 30 <= x * 30
          /\ a * 10 \in Nat /\ x * 10 \in Nat /\ a * 10 <= x * 10
          /\ 0 \in Nat /\ 0 \in Nat /\ 0 <= 0
          /\ 8000 \in Int /\ 8000 \in Int
      <4>. HIDE DEF t, u, prod, qrod
      <4>. QED  BY <3>1
    <3>.  HIDE DEF t, u, prod, qrod
    <3>.  QED  BY <3>2, <3>3 DEF Cost, Resources
  <2>9. CASE type = "Norm"
    <3>1. PICK a \in Nat, x \in Nat :
              /\ a = t("T_channel") /\ x = u("T_channel") /\ a <= x
      <4>. HIDE DEF t, u, prod, qrod
      <4>. QED  BY <1>1
    <3>2. /\ Estimate(type, p) = Cost(a * 25, a * 8, 0, 8000)
          /\ Estimate(type, q) = Cost(x * 25, x * 8, 0, 8000)
      BY <2>9, <3>1 DEF Estimate
    <3>3. /\ a * 25 \in Nat /\ x * 25 \in Nat /\ a * 25 <= x * 25
          /\ a * 8 \in Nat /\ x * 8 \in Nat /\ a * 8 <= x * 8
          /\ 0 \in Nat /\ 0 \in Nat /\ 0 <= 0
          /\ 8000 \in Int /\ 8000 \in Int
      <4>. HIDE DEF t, u, prod, qrod
      <4>. QED  BY <3>1
    <3>.  HIDE DEF t, u, prod, qrod
    <3>.  QED  BY <3>2, <3>3 DEF Cost, Resources
  <2>10. CASE type = "MemRouter"
    <3>1. PICK a \in Nat, x \in Nat :
              /\ a = t("T_out") /\ x = u("T_out") /\ a <= x
      <4>. HIDE DEF t, u, prod, qrod
      <4>. QED  BY <1>1
    <3>2. /\ Estimate(type, p) = Cost(a * 5, a * 2, 0, 8000)
          /\ Estimate(type, q) = Cost(x * 5, x * 2, 0, 8000)
      BY <2>10, <3>1 DEF Estimate
    <3>3. /\ a * 5 \in Nat /\ x * 5 \in Nat /\ a * 5 <= x * 5
          /\ a * 2 \in Nat /\ x * 2 \in Nat /\ a * 2 <= x * 2
          /\ 0 \in Nat /\ 0 \in Nat /\ 0 <= 0
          /\ 8000 \in Int /\ 8000 \in Int
      <4>. HIDE DEF t, u, prod, qrod
      <4>. QED  BY <3>1
    <3>.  HIDE DEF t, u, prod, qrod
    <3>.  QED  BY <3>2, <3>3 DEF Cost, Resources
  <2>11. CASE type \notin {"ALU", "TemporalGEMM", "StatefulNorm", "StatefulSoftmax",
                           "Activation", "FIFO", "GEMM", "Softmax", "Norm", "MemRouter"}
    <3>1. /\ type # "ALU" /\ type # "TemporalGEMM" /\ type # "StatefulNorm"
          /\ type # "StatefulSoftmax" /\ type # "Activation" /\ type # "FIFO"
          /\ type # "GEMM" /\ type # "Softmax" /\ type # "Norm" /\ type # "MemRouter"
      BY <2>11
    <3>2. Estimate(type, p) = Cost(0, 0, 0, 8000) /\ Estimate(type, q) = Cost(0, 0, 0, 8000)
      BY <3>1, Unlisted
    <3>3. 0 \in Nat /\ 8000 \in Int /\ 0 <= 0
      OBVIOUS
    <3>.  HIDE DEF Grows
    <3>.  QED  BY <3>2, <3>3, <1>6
  <2>.  QED  BY <2>1, <2>2, <2>3, <2>4, <2>5, <2>6, <2>7, <2>8, <2>9, <2>10, <2>11
<1>.  QED  BY <1>7 DEF Resources

\* What is known of a core is a number of each resource, and a slack.
LEMMA LookupType ==
    ASSUME NEW type, NEW p, Sizes(p)
    PROVE  /\ \A r \in Resources : Lookup(type, p)[r] \in Nat
           /\ Lookup(type, p).wns \in Int
<1>. DEFINE short == ShortName(type)
<1>1. CASE <<short, p>> \in DOMAIN Results
  BY <1>1, ResultsAssumption DEF Lookup, Resources
<1>2. CASE <<short, p>> \notin DOMAIN Results
  <2>1. \A name : Get(p, name) <= Get(p, name)
    BY GetSize
  <2>2. \A r \in Resources : Estimate(short, p)[r] \in Nat /\ Estimate(short, p).wns \in Int
    <3>.  HIDE DEF short
    <3>.  QED  BY <2>1, EstimateGrows
  <2>3. "LUT" \in Resources
    BY DEF Resources
  <2>.  QED  BY <1>2, <2>2, <2>3 DEF Lookup
<1>.  QED  BY <1>1, <1>2

\* Cores are built with sizes.
LEMMA BuiltSizes ==
    ASSUME NEW core \in Cores, NEW f, \A p \in ToSet(core.params) : f[p] \in Nat \ {0}
    PROVE  Sizes(Built(core, f))
<1>1. \A p \in DOMAIN core.kwargs : core.kwargs[p] \in Nat \ {0}
  BY SpecsAssumption DEF Cores
<1>.  QED  BY <1>1 DEF Sizes, Built

\* With estimates alone, one is the cheapest value of any factor.
LEMMA CheapestCore ==
    ASSUME DOMAIN Results = {}, NEW core \in Cores, NEW f \in [ToSet(core.params) -> Values],
           NEW S \in SUBSET ToSet(core.params), NEW r \in Resources
    PROVE  Lookup(core.type, Built(core, [p \in ToSet(core.params) |->
                                             IF p \in S THEN 1 ELSE f[p]]))[r]
               <= Lookup(core.type, Built(core, f))[r]
<1>1. PICK g : g = [p \in ToSet(core.params) |-> IF p \in S THEN 1 ELSE f[p]]
  OBVIOUS
<1>2. \A p \in ToSet(core.params) : /\ f[p] \in Nat \ {0} /\ g[p] \in Nat \ {0}
                                    /\ g[p] <= f[p]
  <2>1. \A p \in ToSet(core.params) : f[p] \in {1, 2, 4, 8, 16}
    BY DEF Values
  <2>.  QED  BY <1>1, <2>1
<1>3. PICK b, c : b = Built(core, g) /\ c = Built(core, f)
  OBVIOUS
<1>4. Sizes(b) /\ Sizes(c)
  BY <1>2, <1>3, BuiltSizes
<1>5. ASSUME NEW name PROVE Get(b, name) <= Get(c, name)
  <2>1. Get(b, name) \in Nat /\ Get(c, name) \in Nat
    BY <1>4, GetSize
  <2>2. CASE name \in ToSet(core.params)
    <3>1. Get(b, name) = g[name] /\ Get(c, name) = f[name]
      BY <1>3, <2>2 DEF Get, Built
    <3>.  QED  BY <1>2, <2>2, <3>1
  <2>3. CASE name \notin ToSet(core.params)
    <3>1. Get(b, name) = Get(c, name)
      BY <1>3, <2>3 DEF Get, Built
    <3>.  QED  BY <2>1, <3>1
  <2>.  QED  BY <2>2, <2>3
<1>. DEFINE short == ShortName(core.type)
<1>6. Estimate(short, b)[r] <= Estimate(short, c)[r]
  <2>.  HIDE DEF short
  <2>.  QED  BY <1>4, <1>5, EstimateGrows
<1>7. Lookup(core.type, b) = Estimate(short, b) /\ Lookup(core.type, c) = Estimate(short, c)
  BY DEF Lookup
<1>.  QED  BY <1>1, <1>3, <1>6, <1>7

\* With no measured results, every core is cheapest with its factors at one: the
\* estimates of the database all grow with the factors.
THEOREM EstimatesAreCheapest == DOMAIN Results = {} => OneIsCheapest
BY CheapestCore, Candidates DEF OneIsCheapest

-----------------------------------------------------------------------------
\* The factors of core after core: no two of them are the same.
LEMMA FlatInjective ==
    ASSUME NEW L \in Nat \ {0}, NEW A, NEW s, s \in Seq(Seq(A)), Len(s) = L,
           \A i \in 1 .. L : IsInjective(s[i]),
           \A i \in 1 .. L : \A j \in DOMAIN s[i] : s[i][j][1] = i
    PROVE  FlattenSeq(s) \in Seq(A) /\ IsInjective(FlattenSeq(s))
<1>. DEFINE flatten[i \in 1 .. Len(s)] == IF i = 1 THEN s[i] ELSE flatten[i - 1] \o s[i]
            step == [x \in (1 .. L) \X Seq(A) |-> x[2] \o s[x[1]]]
<1>1. \A i \in 1 .. L : s[i] \in Seq(A)
  OBVIOUS
<1>2. step \in [(1 .. L) \X Seq(A) -> Seq(A)]
  BY <1>1
<1>3. \A i \in 1 .. L, x \in Seq(A) : step[<<i, x>>] = x \o s[i]
  OBVIOUS
<1>.  HIDE DEF step
<1>4. PICK f \in [0 .. L -> Seq(A)] : Stepwise(f, L, <<>>, step)
  <2>1. <<>> \in Seq(A)
    OBVIOUS
  <2>.  QED  BY <1>2, <2>1, Recursion
<1>5. PICK g : g = [i \in 1 .. L |-> f[i]]
  OBVIOUS
<1>6. ASSUME NEW i \in 1 .. L PROVE g[i] = IF i = 1 THEN s[i] ELSE g[i - 1] \o s[i]
  <2>1. i - 1 \in 0 .. L /\ i \in 0 .. L /\ i # 0
    OBVIOUS
  <2>2. f[i] = f[i - 1] \o s[i]
    BY <1>3, <1>4, <2>1 DEF Stepwise
  <2>3. CASE i = 1
    <3>1. f[0] = <<>>
      <4>1. 0 \in 0 .. L
        OBVIOUS
      <4>.  QED  BY <1>4, <4>1 DEF Stepwise
    <3>2. f[i - 1] = <<>>
      BY <2>3, <3>1
    <3>.  QED  BY <1>1, <1>5, <2>2, <2>3, <3>2, ConcatEmptySeq
  <2>4. CASE i # 1
    <3>1. i - 1 \in 1 .. L
      BY <2>4
    <3>.  QED  BY <1>5, <2>2, <2>4, <3>1
  <2>.  QED  BY <2>3, <2>4
<1>7. g = [i \in 1 .. L |-> IF i = 1 THEN s[i] ELSE g[i - 1] \o s[i]]
  BY <1>5, <1>6
<1>8. flatten = [i \in 1 .. L |-> IF i = 1 THEN s[i] ELSE flatten[i - 1] \o s[i]]
  BY <1>7
<1>9. FlattenSeq(s) = flatten[L]
  BY DEF FlattenSeq
<1>.  HIDE DEF flatten
<1>. DEFINE Good(n) == /\ flatten[n] \in Seq(A) /\ IsInjective(flatten[n])
                       /\ \A k \in DOMAIN flatten[n] : flatten[n][k][1] \in 1 .. n
            S == {n \in Nat : n = 0 \/ n > L \/ Good(n)}
<1>10. Good(1)
  <2>1. 1 \in 1 .. L /\ flatten[1] = s[1]
    BY <1>8
  <2>.  QED  BY <1>1, <2>1
<1>11. ASSUME NEW n \in 1 .. L, n + 1 <= L, Good(n) PROVE Good(n + 1)
  <2>1. n + 1 \in 1 .. L /\ n + 1 # 1 /\ (n + 1) - 1 = n
    BY <1>11
  <2>2. flatten[n + 1] = flatten[n] \o s[n + 1]
    BY <1>8, <2>1
  <2>3. PICK u, v, w : u = flatten[n] /\ v = s[n + 1] /\ w = flatten[n + 1]
    OBVIOUS
  <2>4. u \in Seq(A) /\ v \in Seq(A) /\ w = u \o v
    BY <1>1, <1>11, <2>1, <2>2, <2>3
  <2>5. PICK a \in Nat, b \in Nat : a = Len(u) /\ b = Len(v)
    BY <2>4
  <2>6. /\ w \in Seq(A) /\ DOMAIN w = 1 .. a + b
        /\ \A k \in 1 .. a + b : w[k] = IF k <= a THEN u[k] ELSE v[k - a]
    <3>1. w \in Seq(A) /\ Len(w) = a + b
      BY <2>4, <2>5
    <3>2. DOMAIN w = 1 .. a + b
      BY <3>1
    <3>3. \A k \in 1 .. a + b : w[k] = IF k <= a THEN u[k] ELSE v[k - a]
      BY <2>4, <2>5, ConcatProperties
    <3>.  QED  BY <3>1, <3>2, <3>3
  <2>7. DOMAIN u = 1 .. a /\ DOMAIN v = 1 .. b
    BY <2>4, <2>5
  <2>8. \A k \in 1 .. a : w[k] = u[k] /\ w[k][1] \in 1 .. n
    <3>1. \A k \in DOMAIN u : u[k][1] \in 1 .. n
      BY <1>11, <2>3
    <3>2. \A k \in 1 .. a : k \in 1 .. a + b /\ k <= a
      OBVIOUS
    <3>.  QED  BY <2>6, <2>7, <3>1, <3>2
  <2>9. \A k \in a + 1 .. a + b : k - a \in 1 .. b /\ w[k] = v[k - a] /\ w[k][1] = n + 1
    <3>1. \A k \in a + 1 .. a + b : k - a \in 1 .. b /\ w[k] = v[k - a]
      BY <2>6
    <3>2. \A j \in 1 .. b : v[j][1] = n + 1
      BY <2>1, <2>3, <2>7
    <3>.  QED  BY <3>1, <3>2
  <2>10. ASSUME NEW k \in 1 .. a + b, NEW m \in 1 .. a + b, w[k] = w[m] PROVE k = m
    <3>1. CASE k \in 1 .. a /\ m \in 1 .. a
      BY <1>11, <2>3, <2>7, <2>8, <2>10, <3>1 DEF IsInjective
    <3>2. CASE k \in a + 1 .. a + b /\ m \in a + 1 .. a + b
      <4>1. PICK i \in 1 .. b, j \in 1 .. b : i = k - a /\ j = m - a /\ v[i] = v[j]
        BY <2>9, <2>10, <3>2
      <4>2. i = j
        BY <2>1, <2>3, <2>7, <4>1 DEF IsInjective
      <4>.  QED  BY <4>1, <4>2
    <3>3. ~(k \in 1 .. a /\ m \in a + 1 .. a + b) /\ ~(m \in 1 .. a /\ k \in a + 1 .. a + b)
      <4>1. \A i \in 1 .. n : i # n + 1
        OBVIOUS
      <4>2. ASSUME NEW i \in 1 .. a, NEW j \in a + 1 .. a + b PROVE w[i] # w[j]
        <5>1. w[i][1] \in 1 .. n /\ w[j][1] = n + 1
          BY <2>8, <2>9
        <5>2. w[i][1] # w[j][1]
          BY <4>1, <5>1
        <5>.  QED  BY <5>2
      <4>.  QED  BY <2>10, <4>2
    <3>4. \A j \in 1 .. a + b : j \in 1 .. a \/ j \in a + 1 .. a + b
      OBVIOUS
    <3>.  QED  BY <3>1, <3>2, <3>3, <3>4
  <2>11. \A k \in 1 .. a + b : w[k][1] \in 1 .. n + 1
    <3>1. \A j \in 1 .. a + b : j \in 1 .. a \/ j \in a + 1 .. a + b
      OBVIOUS
    <3>2. n + 1 \in 1 .. n + 1 /\ 1 .. n \subseteq 1 .. n + 1
      OBVIOUS
    <3>.  QED  BY <2>8, <2>9, <3>1, <3>2
  <2>.  QED  BY <2>3, <2>6, <2>10, <2>11 DEF IsInjective
<1>12. 0 \in S /\ \A n \in Nat : n \in S => n + 1 \in S
  <2>1. ASSUME NEW n \in Nat, n \in S PROVE n + 1 \in S
    <3>1. CASE n = 0
      BY <1>10, <3>1
    <3>2. CASE n # 0 /\ n + 1 <= L
      <4>1. n \in 1 .. L /\ Good(n)
        BY <2>1, <3>2
      <4>.  HIDE DEF Good
      <4>.  QED  BY <1>11, <3>2, <4>1
    <3>.  QED  BY <3>1, <3>2
  <2>.  QED  BY <2>1
<1>13. L \in S
  <2>.  HIDE DEF S
  <2>.  QED  BY <1>12, Induction
<1>.  QED  BY <1>9, <1>13

-----------------------------------------------------------------------------
\* A number for each of several cores has a greatest.
LEMMA GreatestOf ==
    ASSUME NEW L \in Nat \ {0}, NEW f, \A i \in 1 .. L : f[i] \in Nat
    PROVE  /\ Max({f[i] : i \in 1 .. L}) \in Nat
           /\ \E k \in 1 .. L : Max({f[i] : i \in 1 .. L}) = f[k]
<1>. DEFINE Top(n) == \E m \in 1 .. n : \A i \in 1 .. n : f[m] >= f[i]
            S == {n \in Nat : n = 0 \/ n > L \/ Top(n)}
<1>1. ASSUME NEW n \in Nat, n \in S PROVE n + 1 \in S
  <2>1. CASE n = 0
    <3>1. 1 \in 1 .. L
      OBVIOUS
    <3>2. f[1] >= f[1]
      BY <3>1
    <3>3. Top(1)
      BY <3>2
    <3>.  QED  BY <2>1, <3>3
  <2>2. CASE n # 0 /\ n + 1 <= L
    <3>1. PICK m \in 1 .. n : \A i \in 1 .. n : f[m] >= f[i]
      BY <1>1, <2>2
    <3>2. PICK k \in {m, n + 1} : f[k] >= f[m] /\ f[k] >= f[n + 1]
      <4>1. m \in 1 .. L /\ n + 1 \in 1 .. L
        BY <2>2
      <4>2. f[m] \in Nat /\ f[n + 1] \in Nat
        BY <4>1
      <4>3. CASE f[m] >= f[n + 1]
        BY <4>2, <4>3
      <4>4. CASE ~(f[m] >= f[n + 1])
        BY <4>2, <4>4
      <4>.  QED  BY <4>3, <4>4
    <3>3. ASSUME NEW i \in 1 .. n + 1 PROVE f[k] >= f[i]
      <4>1. f[k] \in Nat /\ f[m] \in Nat /\ f[i] \in Nat
        BY <2>2
      <4>2. CASE i = n + 1
        BY <3>2, <4>2
      <4>3. CASE i \in 1 .. n
        BY <3>1, <3>2, <4>1, <4>3
      <4>.  QED  BY <4>2, <4>3
    <3>4. k \in 1 .. n + 1
      OBVIOUS
    <3>.  QED  BY <3>3, <3>4
  <2>.  QED  BY <1>1, <2>1, <2>2
<1>2. L \in S
  <2>1. 0 \in S
    OBVIOUS
  <2>.  HIDE DEF S
  <2>.  QED  BY <1>1, <2>1, Induction
<1>3. PICK m \in 1 .. L : \A i \in 1 .. L : f[m] >= f[i]
  BY <1>2
<1>4. f[m] \in {f[i] : i \in 1 .. L} /\ \A y \in {f[i] : i \in 1 .. L} : f[m] >= y
  BY <1>3
<1>5. \A y \in {f[i] : i \in 1 .. L} : y \in Nat
  OBVIOUS
<1>6. Max({f[i] : i \in 1 .. L}) \in {f[i] : i \in 1 .. L}
  BY <1>4 DEF Max
<1>.  QED  BY <1>5, <1>6

-----------------------------------------------------------------------------
\* What a tuner is built with: a spec, and each factor to assign once.
Factors ==
    /\ spec \in Specs /\ top_n \in TopNs
    /\ param_specs \in Seq(Nat \X UNION {ToSet(core.params) : core \in Cores})
    /\ IsInjective(param_specs)

\* A design has cores.
LEMMA IpsType ==
    ASSUME spec \in Specs
    PROVE  /\ Len(ips) \in Nat \ {0} /\ DOMAIN ips = 1 .. Len(ips)
           /\ \A i \in DOMAIN ips : ips[i] \in Cores
<1>1. ips \in Seq(ToSet(ips)) /\ ips # <<>>
  BY SpecsAssumption DEF ips
<1>2. Len(ips) \in Nat /\ DOMAIN ips = 1 .. Len(ips) /\ Len(ips) # 0
  BY <1>1
<1>3. \A i \in DOMAIN ips : ips[i] \in ToSet(spec.ips)
  BY DEF ToSet, ips
<1>.  QED  BY <1>2, <1>3 DEF Cores

LEMMA CoreType ==
    ASSUME NEW core \in Cores
    PROVE  core.params \in Seq(ToSet(core.params)) /\ IsInjective(core.params)
BY SpecsAssumption DEF Cores

\* A tuner is built so.
LEMMA InitFactors == TunerInit => Factors
<1>. SUFFICES ASSUME TunerInit PROVE Factors
  OBVIOUS
<1>. DEFINE A == Nat \X UNION {ToSet(core.params) : core \in Cores}
<1>1. spec \in Specs /\ top_n \in TopNs
  BY DEF TunerInit
<1>2. PICK L \in Nat \ {0} : L = Len(ips) /\ DOMAIN ips = 1 .. L
  BY <1>1, IpsType
<1>3. PICK s : s = [i \in DOMAIN ips |-> [j \in DOMAIN ips[i].params |-> <<i, ips[i].params[j]>>]]
  OBVIOUS
<1>4. param_specs = FlattenSeq(s)
  BY <1>3 DEF TunerInit
<1>5. ASSUME NEW i \in 1 .. L
      PROVE  /\ s[i] \in Seq(A) /\ IsInjective(s[i])
             /\ \A j \in DOMAIN s[i] : s[i][j][1] = i
  <2>1. PICK core \in Cores : core = ips[i]
    BY <1>1, <1>2, IpsType
  <2>2. s[i] = [j \in DOMAIN core.params |-> <<i, core.params[j]>>]
    BY <1>2, <1>3, <2>1
  <2>3. core.params \in Seq(ToSet(core.params)) /\ IsInjective(core.params)
    BY CoreType
  <2>4. PICK n \in Nat : n = Len(core.params) /\ DOMAIN core.params = 1 .. n
    BY <2>3
  <2>5. \A j \in 1 .. n : core.params[j] \in ToSet(core.params)
    BY <2>4 DEF ToSet
  <2>6. \A j \in 1 .. n : <<i, core.params[j]>> \in A
    BY <2>5
  <2>.  HIDE DEF A
  <2>7. s[i] \in Seq(A)
    BY <2>2, <2>4, <2>6
  <2>8. IsInjective(s[i])
    BY <2>2, <2>3 DEF IsInjective
  <2>.  QED  BY <2>2, <2>7, <2>8
<1>6. s \in Seq(Seq(A)) /\ Len(s) = L
  <2>.  HIDE DEF A
  <2>1. s = [i \in 1 .. L |-> s[i]]
    BY <1>2, <1>3
  <2>.  QED  BY <1>5, <2>1
<1>7. FlattenSeq(s) \in Seq(A) /\ IsInjective(FlattenSeq(s))
  <2>.  HIDE DEF A
  <2>.  QED  BY <1>5, <1>6, FlatInjective
<1>.  QED  BY <1>1, <1>4, <1>7 DEF Factors

\* The values a core has been assigned so far.
LEMMA AssignedValues ==
    ASSUME Factors, NEW c \in Seq(Values), NEW i \in DOMAIN ips, Len(c) <= N
    PROVE  LET f == [name \in ToSet(ips[i].params) |-> Assigned(c, i, name)]
           IN f \in [ToSet(ips[i].params) -> Values] /\ Params(c, i) = Built(ips[i], f)
<1>1. ASSUME NEW name PROVE Assigned(c, i, name) \in Values
  <2>1. \A k \in DOMAIN c : c[k] \in Values
    OBVIOUS
  <2>2. 1 \in Values
    BY DEF Values
  <2>.  QED  BY <2>1, <2>2 DEF Assigned
<1>.  QED  BY <1>1 DEF Params, Built

\* A partial design has each of a core's factors at the value the whole one gives
\* it, or at one.
LEMMA PartlyAssigned ==
    ASSUME Factors, NEW c \in Seq(Values), NEW p \in Seq(Values), Len(p) <= Len(c),
           Len(c) <= N, \A j \in DOMAIN p : c[j] = p[j], NEW i, NEW name
    PROVE  Assigned(p, i, name) = 1 \/ Assigned(p, i, name) = Assigned(c, i, name)
<1>. DEFINE ks(d) == {k \in DOMAIN d : param_specs[k] = <<i, name>>}
<1>1. DOMAIN p \subseteq DOMAIN c /\ DOMAIN c \subseteq DOMAIN param_specs
  <2>1. PICK a \in Nat, b \in Nat, n \in Nat :
            a = Len(p) /\ b = Len(c) /\ n = N /\ DOMAIN param_specs = 1 .. n
    <3>1. \A F : param_specs \in Seq(F) => N \in Nat /\ DOMAIN param_specs = 1 .. N
      BY DEF N
    <3>2. N \in Nat /\ DOMAIN param_specs = 1 .. N
      BY <3>1 DEF Factors
    <3>3. Len(p) \in Nat /\ Len(c) \in Nat
      OBVIOUS
    <3>.  QED  BY <3>2, <3>3
  <2>2. a <= b /\ b <= n /\ DOMAIN p = 1 .. a /\ DOMAIN c = 1 .. b
    BY <2>1
  <2>.  QED  BY <2>1, <2>2
<1>2. CASE ks(p) = {}
  BY <1>2 DEF Assigned
<1>3. CASE ks(p) # {}
  <2>1. PICK k \in DOMAIN p : param_specs[k] = <<i, name>>
    BY <1>3
  <2>2. ks(c) = {k} /\ ks(p) = {k}
    BY <1>1, <2>1 DEF Factors, IsInjective
  <2>3. (CHOOSE l \in ks(c) : TRUE) = k /\ (CHOOSE l \in ks(p) : TRUE) = k
    BY <2>2
  <2>4. Assigned(p, i, name) = p[k] /\ Assigned(c, i, name) = c[k]
    BY <2>2, <2>3 DEF Assigned
  <2>.  QED  BY <2>1, <2>4
<1>.  QED  BY <1>2, <1>3

\* What a core costs is a number.
LEMMA MetricsType ==
    ASSUME Factors, NEW c \in Seq(Values), Len(c) <= N, NEW i \in DOMAIN ips
    PROVE  /\ Sizes(Params(c, i)) /\ Metrics(c, i).wns \in Int
           /\ \A r \in Resources : Metrics(c, i)[r] \in Nat
<1>1. PICK core \in Cores : core = ips[i]
  BY IpsType DEF Factors
<1>2. PICK f \in [ToSet(core.params) -> Values] : Params(c, i) = Built(core, f)
  BY <1>1, AssignedValues
<1>3. \A name \in ToSet(core.params) : f[name] \in Nat \ {0}
  <2>1. \A v \in Values : v \in Nat \ {0}
    BY DEF Values
  <2>.  QED  BY <2>1
<1>4. Sizes(Params(c, i))
  BY <1>2, <1>3, BuiltSizes
<1>.  QED  BY <1>4, LookupType DEF Metrics

\* A partial design of a design that fits the device fits it too.
LEMMA PartialFits ==
    ASSUME Factors, OneIsCheapest, NEW c \in Seq(Values), NEW p \in Seq(Values),
           Len(p) <= Len(c), Len(c) <= N, \A j \in DOMAIN p : c[j] = p[j],
           UtilWithin(c, 1, 1)
    PROVE  UtilWithin(p, 1, 1)
<1>1. PICK a \in Nat, b \in Nat, n \in Nat : a = Len(p) /\ b = Len(c) /\ n = N
  BY DEF Factors, N
<1>2. Len(p) <= N
  BY <1>1
<1>3. ASSUME NEW i \in DOMAIN ips, NEW r \in Resources
      PROVE  Metrics(p, i)[r] <= Metrics(c, i)[r]
  <2>1. PICK core \in Cores : core = ips[i]
    BY IpsType DEF Factors
  <2>2. PICK f : f = [name \in ToSet(core.params) |-> Assigned(c, i, name)]
    OBVIOUS
  <2>3. PICK g : g = [name \in ToSet(core.params) |-> Assigned(p, i, name)]
    OBVIOUS
  <2>4. f \in [ToSet(core.params) -> Values] /\ Params(c, i) = Built(core, f)
    BY <2>1, <2>2, AssignedValues
  <2>5. Params(p, i) = Built(core, g)
    BY <1>2, <2>1, <2>3, AssignedValues
  <2>6. PICK S \in SUBSET ToSet(core.params) :
            S = {name \in ToSet(core.params) : Assigned(p, i, name) = 1}
    OBVIOUS
  <2>7. \A name \in ToSet(core.params) :
            Assigned(p, i, name) = IF name \in S THEN 1 ELSE f[name]
    BY <2>2, <2>6, PartlyAssigned
  <2>8. g = [name \in ToSet(core.params) |-> IF name \in S THEN 1 ELSE f[name]]
    BY <2>3, <2>7
  <2>9. Lookup(core.type, Built(core, g))[r] <= Lookup(core.type, Built(core, f))[r]
    BY <2>4, <2>8, Candidates DEF OneIsCheapest
  <2>.  QED  BY <2>1, <2>4, <2>5, <2>9 DEF Metrics
<1>4. ASSUME NEW r \in Resources
      PROVE  Total(p, r) \in Int /\ Total(c, r) \in Int /\ Total(p, r) <= Total(c, r)
  <2>1. PICK L \in Nat : DOMAIN ips = 1 .. L
    BY IpsType DEF Factors
  <2>2. PICK u, v : /\ u = [i \in DOMAIN ips |-> Metrics(p, i)[r]]
                    /\ v = [i \in DOMAIN ips |-> Metrics(c, i)[r]]
    OBVIOUS
  <2>3. \A i \in 1 .. L : Metrics(p, i)[r] \in Nat /\ Metrics(c, i)[r] \in Nat
    BY <1>2, <2>1, MetricsType
  <2>4. u \in Seq(Int) /\ v \in Seq(Int) /\ Len(u) = L /\ Len(v) = L
    BY <2>1, <2>2, <2>3
  <2>5. \A i \in 1 .. L : u[i] <= v[i]
    BY <1>3, <2>1, <2>2
  <2>6. Added(u) \in Int /\ Added(v) \in Int /\ Added(u) <= Added(v)
    BY <2>4, <2>5, AddedGrows
  <2>.  QED  BY <2>2, <2>6 DEF Total
<1>5. \A r \in Resources : spec.fpga[r] \in Nat
  BY SpecsAssumption DEF Factors
<1>6. ASSUME NEW r \in Resources PROVE 1 * Total(p, r) <= 1 * spec.fpga[r]
  <2>1. PICK x \in Int, y \in Int, z \in Nat :
            x = Total(p, r) /\ y = Total(c, r) /\ z = spec.fpga[r] /\ x <= y
    BY <1>4, <1>5
  <2>2. 1 * y <= 1 * z
    BY <2>1 DEF UtilWithin
  <2>3. 1 * x <= 1 * z
    BY <2>1, <2>2
  <2>.  QED  BY <2>1, <2>3
<1>.  QED  BY <1>6 DEF UtilWithin

LEMMA Quotient ==
    ASSUME NEW a \in Nat, NEW b \in Nat \ {0}
    PROVE  Max({1, a \div b}) \in Nat
<1>1. a \div b \in Nat
  OBVIOUS
<1>2. PICK q \in Nat : q = a \div b
  BY <1>1
<1>3. \E m \in {1, q} : \A y \in {1, q} : m >= y
  OBVIOUS
<1>4. Max({1, q}) \in {1, q}
  BY <1>3 DEF Max
<1>.  QED  BY <1>2, <1>4

\* The lengths and numbers of elements are sizes, as the arguments are.
LEMMA LengthSize == ASSUME NEW params, Sizes(params) PROVE Length(params) \in Nat \ {0}
BY GetSize DEF Length, Sizes

LEMMA ElementsSize ==
    ASSUME NEW type, NEW params, Sizes(params)
    PROVE  Elements(type, params) \in Nat \ {0}
<1>1. \A name : Get(params, name) \in Nat \ {0}
  BY GetSize
<1>2. Length(params) \in Nat \ {0}
  BY LengthSize
<1>3. \A a, b \in Nat \ {0} : a * b \in Nat \ {0}
  <2>1. \A a, b \in Nat : a * b \in Nat
    BY ProductNat
  <2>2. \A a, b \in Nat : a # 0 /\ b # 0 => a * b # 0
    OBVIOUS
  <2>.  QED  BY <2>1, <2>2
<1>4. /\ Get(params, "M") * Get(params, "N") \in Nat \ {0}
      /\ Get(params, "num_beats") * Get(params, "T_out") \in Nat \ {0}
  BY <1>1, <1>3
<1>.  QED  BY <1>1, <1>2, <1>4 DEF Elements

\* A latency of all elements is a number.
LEMMA TotalLatencyType ==
    ASSUME Factors, NEW c \in Seq(Values), Len(c) <= N
    PROVE  TotalLatency(c) \in Nat
<1>1. PICK L \in Nat \ {0} : DOMAIN ips = 1 .. L
  BY IpsType DEF Factors
<1>2. ASSUME NEW i \in 1 .. L
      PROVE  Period(c, i) \in Nat /\ Beats(c, i) \in Nat /\ InitiationInterval(c, i) \in Nat
  <2>1. Sizes(Params(c, i)) /\ Metrics(c, i).wns \in Int
    BY <1>1, MetricsType
  <2>2. \A name : Get(Params(c, i), name) \in Nat \ {0}
    BY <2>1, GetSize
  <2>3. Period(c, i) \in Nat
    <3>1. PICK w \in Int : w = Metrics(c, i).wns
      BY <2>1
    <3>2. ClockPeriod - w \in Int
      BY DEF ClockPeriod
    <3>.  QED  BY <3>1, <3>2 DEF Period
  <2>4. \A a, b \in Nat \ {0} : a * b \in Nat \ {0}
    <3>1. \A a, b \in Nat : a * b \in Nat
      BY ProductNat
    <3>2. \A a, b \in Nat : a # 0 /\ b # 0 => a * b # 0
      OBVIOUS
    <3>.  QED  BY <3>1, <3>2
  <2>5. Beats(c, i) \in Nat
    <3>. DEFINE p(name) == Get(Params(c, i), name)
    <3>1. /\ p("M") * p("N") \in Nat /\ p("T_M") * p("T_N") \in Nat \ {0}
          /\ p("N_channel") \in Nat /\ p("T_channel") \in Nat \ {0}
          /\ p("N_seq") \in Nat /\ p("T_seq") \in Nat \ {0}
          /\ p("num_beats") \in Nat /\ p("T_width") \in Nat \ {0}
      BY <2>2, <2>4
    <3>. DEFINE length == Length(Params(c, i))
    <3>0. length \in Nat
      BY <2>1, LengthSize
    <3>2. /\ Max({1, (p("M") * p("N")) \div (p("T_M") * p("T_N"))}) \in Nat
          /\ Max({1, p("N_channel") \div p("T_channel")}) \in Nat
          /\ Max({1, p("N_seq") \div p("T_seq")}) \in Nat
          /\ Max({1, length \div p("T_width")}) \in Nat
      <4>.  HIDE DEF length
      <4>.  QED  BY <3>0, <3>1, Quotient
    <3>3. \A a \in Nat : Max({1, a}) \in Nat
      <4>1. \A a \in Nat : a \div 1 = a
        OBVIOUS
      <4>2. 1 \in Nat \ {0}
        OBVIOUS
      <4>.  QED  BY <4>1, <4>2, Quotient
    <3>4. Max({1, p("num_beats")}) \in Nat /\ Max({1, 1}) \in Nat
      BY <3>1, <3>3
    <3>.  QED  BY <3>2, <3>4 DEF Beats
  <2>6. InitiationInterval(c, i) \in Nat
    BY <2>2, <2>4 DEF InitiationInterval
  <2>.  QED  BY <2>3, <2>5, <2>6
<1>3. /\ Max({Period(c, i) : i \in DOMAIN ips}) \in Nat
      /\ Max({Beats(c, i) : i \in DOMAIN ips}) \in Nat
      /\ Max({InitiationInterval(c, i) : i \in DOMAIN ips}) \in Nat
  <2>1. PICK f, g, h : /\ f = [i \in 1 .. L |-> Period(c, i)]
                       /\ g = [i \in 1 .. L |-> Beats(c, i)]
                       /\ h = [i \in 1 .. L |-> InitiationInterval(c, i)]
    OBVIOUS
  <2>2. \A i \in 1 .. L : f[i] \in Nat /\ g[i] \in Nat /\ h[i] \in Nat
    BY <1>2, <2>1
  <2>3. /\ Max({f[i] : i \in 1 .. L}) \in Nat /\ Max({g[i] : i \in 1 .. L}) \in Nat
        /\ Max({h[i] : i \in 1 .. L}) \in Nat
    BY <2>2, GreatestOf
  <2>4. /\ {f[i] : i \in 1 .. L} = {Period(c, i) : i \in DOMAIN ips}
        /\ {g[i] : i \in 1 .. L} = {Beats(c, i) : i \in DOMAIN ips}
        /\ {h[i] : i \in 1 .. L} = {InitiationInterval(c, i) : i \in DOMAIN ips}
    BY <1>1, <2>1
  <2>.  QED  BY <2>3, <2>4
<1>4. Congestion(c) \in Nat
  BY DEF Congestion
<1>5. PICK x \in Nat, y \in Nat, z \in Nat, w \in Nat :
          /\ x = Max({Period(c, i) : i \in DOMAIN ips})
          /\ y = Max({Beats(c, i) : i \in DOMAIN ips})
          /\ z = Max({InitiationInterval(c, i) : i \in DOMAIN ips})
          /\ w = Congestion(c)
  BY <1>3, <1>4
<1>6. x * (y * z + w) \in Nat
  <2>1. PICK q \in Nat : q = y * z
    BY ProductNat
  <2>2. q + w \in Nat
    OBVIOUS
  <2>.  QED  BY <2>1, <2>2, ProductNat
<1>.  QED  BY <1>5, <1>6 DEF TotalLatency

\* A design has elements.
LEMMA TotalElementsType ==
    ASSUME Factors, NEW c \in Seq(Values), Len(c) <= N
    PROVE  TotalElements(c) \in Nat \ {0}
<1>1. PICK L \in Nat \ {0} : DOMAIN ips = 1 .. L
  BY IpsType DEF Factors
<1>2. PICK f : f = [i \in 1 .. L |-> Elements(ips[i].type, Params(c, i))]
  OBVIOUS
<1>3. \A i \in 1 .. L : f[i] \in Nat \ {0}
  <2>1. \A i \in 1 .. L : Sizes(Params(c, i))
    BY <1>1, MetricsType
  <2>2. \A i \in 1 .. L : Elements(ips[i].type, Params(c, i)) \in Nat \ {0}
    BY <2>1, ElementsSize
  <2>.  QED  BY <1>2, <2>2
<1>4. PICK m : m = Max({f[i] : i \in 1 .. L})
  OBVIOUS
<1>5. m \in Nat /\ \E k \in 1 .. L : m = f[k]
  BY <1>3, <1>4, GreatestOf
<1>6. {f[i] : i \in 1 .. L} = {Elements(ips[i].type, Params(c, i)) : i \in DOMAIN ips}
  BY <1>1, <1>2
<1>.  QED  BY <1>3, <1>4, <1>5, <1>6 DEF TotalElements

\* A latency per element is a number.
LEMMA LatencyType ==
    ASSUME Factors, NEW c \in Seq(Values), Len(c) <= N
    PROVE  Latency(c) \in Nat
<1>1. PICK e \in Nat \ {0} : e = TotalElements(c)
  BY TotalElementsType
<1>2. PICK t \in Nat : t = TotalLatency(c)
  BY TotalLatencyType
<1>3. PICK u \in Nat : u = Unit
  BY TunerAssumption
<1>4. u \div e \in Nat
  OBVIOUS
<1>5. PICK q \in Nat : q = u \div e
  BY <1>4
<1>6. t * q \in Nat
  BY ProductNat
<1>.  QED  BY <1>1, <1>2, <1>3, <1>5, <1>6 DEF Latency

\* Before it runs, a tuner has left nothing behind.
LEMMA InitSound == TunerInit /\ OneIsCheapest => Sound /\ SearchInv
<1>. SUFFICES ASSUME TunerInit, OneIsCheapest PROVE Sound /\ SearchInv
  OBVIOUS
<1>1. Factors
  BY InitFactors
<1>2. PICK n \in Nat : n = N
  BY <1>1 DEF Factors, N
<1>3. \A c \in [1 .. N -> Values] : c \in Seq(Values) /\ Len(c) = N
  BY <1>2
<1>4. \A c \in [1 .. N -> Values] : Latency(c) \in Nat
  <2>1. N <= N
    BY <1>2
  <2>.  QED  BY <1>1, <1>3, <2>1, LatencyType
<1>5. ASSUME NEW c \in Designs, NEW p \in Seq(Values), Len(p) <= N,
             \A j \in DOMAIN p : c[j] = p[j]
      PROVE  UtilWithin(p, 1, 1)
  <2>1. c \in Seq(Values) /\ Len(c) = N /\ UtilWithin(c, 1, 1)
    BY <1>3, DesignsType
  <2>2. Len(p) <= Len(c) /\ Len(c) <= N
    BY <1>2, <1>5, <2>1
  <2>.  QED  BY <1>1, <1>5, <2>1, <2>2, PartialFits
<1>6. top_n \in Nat \ {0}
  BY <1>1, TunerAssumption DEF Factors
<1>7. SearchInv
  <2>1. Idle
    BY DEF TunerInit
  <2>.  QED  BY <1>2, <2>1, Emptied DEF Idle
<1>.  QED  BY <1>2, <1>4, <1>5, <1>6, <1>7 DEF Sound

\* Where no core costs less for a factor above one, cutting branches and dropping
\* slow designs never costs the best one.
THEOREM SearchFindsBest ==
    ASSUME OneIsCheapest
    PROVE  TunerSpec => []BestFound
<1>1. TunerInit => Sound /\ SearchInv
  BY InitSound, OneIsCheapest
<1>2. (Sound /\ SearchInv) /\ [TunerNext]_tuner_vars => (Sound /\ SearchInv)'
  BY SearchNext
<1>3. Sound /\ SearchInv => BestFound
  BY SearchImplies
<1>.  QED  BY <1>1, <1>2, <1>3, PTL DEF TunerSpec

\* Nor does the order of the search cost one within half the best latency over it,
\* where the heap has room for all that were pushed.
THEOREM SearchKeepsNearBest ==
    ASSUME OneIsCheapest
    PROVE  TunerSpec => []NearBestReturned
<1>1. TunerInit => Sound /\ SearchInv
  BY InitSound, OneIsCheapest
<1>2. (Sound /\ SearchInv) /\ [TunerNext]_tuner_vars => (Sound /\ SearchInv)'
  BY SearchNext
<1>3. Sound /\ SearchInv => NearBestReturned
  BY SearchImplies
<1>.  QED  BY <1>1, <1>2, <1>3, PTL DEF TunerSpec
====
