-------------------------- MODULE StitchedNetwork --------------------------
(***************************************************************************)
(* Cores wired together by Stitcher.build: data and valid follow the       *)
(* edges, ready runs against them.  Every register of every core advances  *)
(* on the same clock; a node can take a beat, give one, or both, in one    *)
(* cycle.                                                                  *)
(*                                                                         *)
(* A core is reduced to its handshake.  Since each gives the beats it      *)
(* takes in order, none lost and none added, which the modules of the      *)
(* cores show, its state is two counts: the beats it has taken and the     *)
(* beats it has given, and for a softmax the beats it has summed.          *)
(***************************************************************************)
EXTENDS Naturals, FiniteSets

CONSTANTS IPs,       \* names of the registered cores
          Edges,     \* pairs of names, from source to destination
          Kind,      \* the class of each core
          Depth,     \* the depth of each FIFO core
          NumBeats,  \* beats of a packet, in every multi-beat core
          MaxBeats   \* bound: beats the environment offers each source

Kinds == {"fifo", "norm", "softmax", "tgemm", "alu", "activation"}

Up(s) == {u \in IPs : <<u, s>> \in Edges}
Down(s) == {d \in IPs : <<s, d>> \in Edges}
Sources == {s \in IPs : Up(s) = {}}
Sinks == {s \in IPs : Down(s) = {}}

\* What build accepts: known names, and fan-in only into a core with a second
\* data input, from two upstreams.
ASSUME NetworkAssumption ==
    /\ IsFiniteSet(IPs)
    /\ Edges \subseteq IPs \X IPs
    /\ Kind \in [IPs -> Kinds]
    /\ Depth \in [{s \in IPs : Kind[s] = "fifo"} -> Nat \ {0}]
    /\ NumBeats \in Nat \ {0}
    /\ MaxBeats \in Nat
    /\ \A s \in IPs : /\ Cardinality(Up(s)) <= 2
                      /\ Cardinality(Up(s)) = 2 => Kind[s] = "alu"

\* Cores that pass a signal on in the cycle they see it.  A loop of them is not
\* a synchronous circuit: its wires would have no value.  build asks for more
\* and rejects every loop, when it puts the cores in order to propagate shapes.
Combinational == {s \in IPs : Kind[s] \in {"activation", "alu"}}
ASSUME LoopAssumption ==
    \A C \in SUBSET Combinational : C # {} => \E s \in C : Up(s) \cap C = {}

VARIABLES taken,   \* beats each core has accepted
          given,   \* beats each core has passed on
          summed   \* beats whose exponential a softmax has added up
vars == <<taken, given, summed>>

Init == /\ taken = [s \in IPs |-> 0]
        /\ given = [s \in IPs |-> 0]
        /\ summed = [s \in IPs |-> 0]

Packets(n) == n \div NumBeats
TokensInFlight(s) == Packets(taken[s]) - Packets(given[s])

\* A slip: the divide stage follows the producer.
DivAfterWrite(s) == Packets(given[s]) % 3 # Packets(taken[s]) % 3

\* A softmax's stages see each other's bank pointers only.
SumActive(s) == Packets(summed[s]) % 3 # Packets(taken[s]) % 3
DivActive(s) == Packets(given[s]) % 3 # Packets(summed[s]) % 3

\* The EMIT state of a temporal GEMM: a packet is in and not yet out.
Emitting(s) == taken[s] % NumBeats = 0 /\ taken[s] # given[s]

\* valid_out of a core that drives it from registers.
Offers(s) == CASE Kind[s] \in {"fifo", "alu"} -> taken[s] # given[s]
               [] Kind[s] = "norm" -> TokensInFlight(s) > 0
               [] Kind[s] = "softmax" -> DivActive(s)
               [] Kind[s] = "tgemm" -> Emitting(s)

\* A slip: room counted without the packet that is leaving.
AcceptsOneMore(s) == CASE Kind[s] = "fifo" -> taken[s] - given[s] <= Depth[s]
                       [] Kind[s] = "norm" -> TokensInFlight(s) <= 2
                       [] Kind[s] = "softmax" -> TokensInFlight(s) <= 3
                       [] Kind[s] = "tgemm" -> TRUE

\* ready_out of a core that drives it from registers.  Weights are taken to
\* be on offer whenever a temporal GEMM wants them.
Accepts(s) == CASE Kind[s] = "fifo" -> taken[s] - given[s] < Depth[s]
                [] Kind[s] = "norm" -> TokensInFlight(s) < 2
                [] Kind[s] = "softmax" -> TokensInFlight(s) < 3
                [] Kind[s] = "tgemm" -> ~Emitting(s)

\* A destination sees valid_in when every upstream offers.
ValidIn(s, valid, offering) ==
    IF Up(s) = {} THEN s \in offering ELSE \A u \in Up(s) : valid[u]

\* Slips: a fork that goes on when any branch is ready, and a join that does
\* not hold an early operand back.
ReadyInOr(s, valid, ready, accepting) ==
    IF Down(s) = {} THEN s \in accepting ELSE \E d \in Down(s) : ready[d]
ReadyInUngated(s, valid, ready, accepting) ==
    IF Down(s) = {} THEN s \in accepting ELSE \A d \in Down(s) : ready[d]

\* A source sees ready_in when every destination is ready; one feeding a join
\* and nothing else also waits for the other operand.
ReadyIn(s, valid, ready, accepting) ==
    IF Down(s) = {} THEN s \in accepting
    ELSE /\ \A d \in Down(s) : ready[d]
         /\ Cardinality(Down(s)) = 1
                => \A d \in Down(s) : \A u \in Up(d) \ {s} : valid[u]

\* The combinational cores pass the signals through; an ALU passes ready on
\* when its one register is full.
ValidOut(offering) ==
    LET valid[s \in IPs] == IF Kind[s] = "activation"
                            THEN ValidIn(s, valid, offering)
                            ELSE Offers(s)
    IN valid

ReadyOut(valid, accepting) ==
    LET ready[s \in IPs] ==
            CASE Kind[s] = "activation" -> ReadyIn(s, valid, ready, accepting)
              [] Kind[s] = "alu" -> \/ ~Offers(s)
                                    \/ ReadyIn(s, valid, ready, accepting)
              [] OTHER -> Accepts(s)
    IN ready

\* One cycle, in which the environment offers a beat to the sources in
\* offering and is ready for the beats of the sinks in accepting.
Clock(offering, accepting) ==
    LET valid == ValidOut(offering)
        ready == ReadyOut(valid, accepting)
    IN /\ taken' = [s \in IPs |->
                       IF ValidIn(s, valid, offering) /\ ready[s]
                       THEN taken[s] + 1 ELSE taken[s]]
       /\ given' = [s \in IPs |->
                       IF valid[s] /\ ReadyIn(s, valid, ready, accepting)
                       THEN given[s] + 1 ELSE given[s]]
       /\ summed' = [s \in IPs |->
                       IF Kind[s] = "softmax" /\ SumActive(s)
                       THEN summed[s] + 1 ELSE summed[s]]

Next == \E offering \in SUBSET {s \in Sources : taken[s] < MaxBeats},
           accepting \in SUBSET Sinks :
            Clock(offering, accepting)

Spec == Init /\ [][Next]_vars

-----------------------------------------------------------------------------
\* What a core has taken and not given fits the core.
Fits(s) ==
    CASE Kind[s] = "fifo" -> taken[s] - given[s] \in 0 .. Depth[s]
      [] Kind[s] = "alu" -> taken[s] - given[s] \in 0 .. 1
      [] Kind[s] = "activation" -> taken[s] = given[s]
      [] Kind[s] = "tgemm" -> taken[s] - given[s] \in 0 .. NumBeats
      [] Kind[s] = "norm" -> TokensInFlight(s) \in 0 .. 2
      [] Kind[s] = "softmax" -> TokensInFlight(s) \in 0 .. 3

TypeOK == /\ taken \in [IPs -> Nat]
          /\ given \in [IPs -> Nat]
          /\ summed \in [IPs -> Nat]
          /\ \A s \in IPs : Fits(s)

\* Every beat a core gives reaches every core it is wired to, exactly once.
\* At a fork this keeps the residual path in step with the compute path: the
\* beats an ALU adds were the same beat when they parted.
EdgesInStep == \A e \in Edges : taken[e[2]] = given[e[1]]

\* Where a core feeds nothing else, into a join or not, it is so.
Unforked == {e \in Edges : Cardinality(Down(e[1])) = 1}
UnforkedInStep == \A e \in Unforked : taken[e[2]] = given[e[1]]

\* A multi-beat core gives a packet's beats only when it has all of the packet,
\* and a softmax only when it has also summed all of it, although its stages
\* compare pointers modulo three.
WholePacketsOnly ==
    /\ \A s \in IPs : Kind[s] \in {"norm", "softmax", "tgemm"} =>
           given[s] <= NumBeats * Packets(taken[s])
    /\ \A s \in IPs : Kind[s] = "softmax" =>
           /\ given[s] <= NumBeats * Packets(summed[s])
           /\ summed[s] <= NumBeats * Packets(taken[s])
=============================================================================
