# tile-ip in TLA+

tile-ip generates streaming hardware for transformer inference. IP cores written
in PyRTL (`src/src/ip_cores/`) speak a valid/ready protocol, a `Stitcher` wires
them into one synchronous design, and a solver and an autotuner choose their tile
sizes. These modules specify the cores, their composition and the transformer
block the repository builds from them; TLC checks them on small instances, and
TLAPS proves their main invariants for every parameter.

Source paths are relative to the repository.

## The system

Everything in a design is clocked together. In each cycle every core computes its
outputs from its registers (a few cores also from their inputs, in the same
cycle), and at the clock edge all registers change at once. A beat passes from
one core to the next in a cycle where `valid` and `ready` are both high. There
are no threads and no interrupts: what makes the design hard is that each
neighbour may be ready or not in every cycle, independently, so that the machines
inside a core (a producer and a consumer, say) meet in every relative position.

| Component | State | Operations | Hard behaviour | What makes it correct |
|---|---|---|---|---|
| `FIFOCore` (fifo.py) | head, tail, count, memory | one cycle: write, read, both, neither | wrap-around with a depth that is no power of two; read and write together when full or empty | a bounded queue; an offered beat stays |
| `StatefulNormCore` (stateful_norm.py) | two banks, two pointers, beat counters, running and latched sums, tokens in flight | producer and consumer in one cycle | both finish a packet in one cycle; sums latched in the cycle the next packet restarts them | a buffer of two packets; each beat normalised by its own packet's sums |
| `StatefulSoftmaxCore` (stateful_softmax.py) | three banks, three pointers, running and latched maximum and sum, tokens in flight | producer, sum and divide stage in one cycle | stages see each other only through pointers modulo three; the sum stage has no backpressure | a buffer of three packets; each beat divided by its own packet's statistics |
| `TemporalGEMMCore` (temporal_gemm.py) | ACCUMULATE/EMIT, two tile counters, accumulators | accumulate a beat with its weights; emit a tile | the accumulators are the output buffer; early `emit_in` | nothing taken while tiles wait; packets start at tile 0 |
| `MultiBankBRAMCore` (multi_bank_bram.py) | banks, a read port and a write port with burst state | request, read beat, write beat | both ports in one bank; a zero burst length | bursts complete and in place; accepted words land |
| `ALUCore`, `ActivationCore` | one output register; none | two operands; pass through | an ALU joins two paths | in step with both operands |
| `Stitcher` (stitcher.py), `TiledIPGraph` (frontend.py) | registered cores, edges; then wires | add, connect, propagate shapes, build | forks and joins; adapters inserted during the build; errors half way | every beat given along an edge is taken once |
| Transformer block (transformer_block.py) | the union of its cores | one clock cycle | a residual FIFO beside a path that stalls and buffers whole packets; the sink stalls | residual and compute path in step; no deadlock |
| `StreamShapeAdapter` (shape_adapter.py) | slots or a buffer, beat and chunk counters | one cycle: accept, give, both, neither | refilled in the cycle it is emptied; counters that never restart; widths that do not divide each other | the tensor's bytes in order, all of them |
| `MemRouterCore` (mem_router.py) | fetch state machine, address and byte registers | start, fetch a byte, offer a beat | restart from DONE without a handshake; addresses past the end of the memory | the tensor in the order of its pattern, in every run |
| `GEMMCore`, `NormCore`, `SoftmaxCore` | none | combinational arithmetic on a beat | fixed-point width | the reference result |
| `Autotuner` (autotuner.py), its `CharacterizationDB` | the search's place, best latency, a heap of designs | run: descend, prune, evaluate, keep | branches cut by partial designs; designs dropped against a best that moves; a heap that forgets | the best design that fits the device is found |
| `TilingSolver` (solver.py) | best assignment | exhaustive loop | none beyond the loop | the best assignment within the budget |
| HLS port of the block (hls_impl/hls_component/main.cpp) | seventeen bounded streams and two ports, sixteen processes | blocking read, blocking write | processes that read a row before they write one beside streams of fixed depth | no circular wait; every row comes out |

The generated Verilog's cores interact by wires only: `data`/`valid` forwards, `ready` backwards.
`Stitcher.build` makes three kinds of connection. A plain edge connects them
directly. A fork (one source, several destinations) gives the source the AND of
the destinations' ready and gives every destination the source's valid as it is.
A join (two sources, one ALU) gives the ALU the AND of the valids, and gives each
source that feeds nothing else the ALU's ready only while the other operand is there.
Where the shapes of two cores differ, shape propagation puts a `StreamShapeAdapter`
between them. The HLS port is a second implementation of the same block: C++ functions
in a DATAFLOW region, which run side by side and meet in bounded FIFO streams. The
autotuner runs before all this, on one thread, and hands its choice to the stitcher.

## The modules

| Module | Models |
|---|---|
| `BoundedFIFO` | abstract: a queue of bounded length |
| `FIFOCore`, `FIFOCoreProofs`, `MCFIFOCore` | `FIFOCore`; implements `BoundedFIFO` |
| `PacketBuffer` | abstract: complete packets are queued, given beat by beat, oldest first; at most Capacity at a time |
| `StatefulNorm`, `StatefulNormProofs`, `MCStatefulNorm` | `StatefulNormCore`; implements `PacketBuffer` with capacity 2 |
| `StatefulSoftmax`, `StatefulSoftmaxProofs`, `MCStatefulSoftmax` | `StatefulSoftmaxCore`; implements `PacketBuffer` with capacity 3 |
| `TemporalGEMM`, `TemporalGEMMProofs`, `MCTemporalGEMM` | `TemporalGEMMCore` |
| `MultiBankBRAM`, `MultiBankBRAMProofs`, `MCMultiBankBRAM` | `MultiBankBRAMCore` |
| `ShapeAdapter`, `ShapeAdapterProofs` | `StreamShapeAdapter`; the tensor's bytes are numbered by position |
| `MemRouter`, `RoutedAdapter`, `MCShapeAdapter` | `MemRouterCore`; a router feeding the adapter its shape asks for; the shapes |
| `StitchedNetwork`, `DesignProofs` | the wiring of `Stitcher.build` for any graph of six kinds of core, composed with their handshakes |
| `TransformerBlock`, `MCTransformerBlock`, `DesignProofs` | the graph and FIFO depths of `build_transformer_block` |
| `DataflowNetwork` | any region of processes with blocking streams, as an HLS DATAFLOW region is |
| `TransformerTop`, `TransformerTopProofs` | the processes, streams and depths of `transformer_top` |
| `CharacterizationDB` | the estimates and measurements a design is judged by |
| `Autotuner`, `MCAutotuner`, `DesignProofs` | the search of `Autotuner.run`, one action per visit of a node; specs of the repository and others |

Conventions. A variable has its register's name, an output of a core is an
operator with its wire's name (`ready_out`, `valid_out`, `data_out`), and
`Clock(inputs)` is the clock edge: every `.next` of the core is one conjunct. The
environment is an existential over the core's inputs in every cycle: beats
arrive or not, the sink is ready or not. An operator whose comment begins "A
slip" is a plausible mistake in the operator below it and belongs to no
specification; with the slip in its place the matching property fails, which
shows that the property depends on that line of the code.

Abstractions.

* In a core that computes on them a beat is one value of a small set. Wider beats put a tree of additions or
  maxima in front of the accumulators, and are otherwise carried along.
* A combinational datapath that only reads state is kept as the tuple of what it
  reads: the norm's `data_out` is a beat with the two sums it is normalised
  by, the softmax's an exponential with the sum it is divided by, the GEMM's an
  accumulator before requantisation. The properties ask whether a beat meets
  the right statistics, not what the fixed-point arithmetic makes of them.
* Widths are kept where the code depends on them: FIFO pointers wrap at
  `2^PtrWidth`, the softmax's sum at `2^SumWidth`, accumulators at 2 HalfRange as
  signed words, BRAM addresses and counters at their own sizes.
  `read_burst_len - 1` has a ninth bit in PyRTL, so `LastBeat` does not wrap.
* In `StitchedNetwork` a core is three counts: beats taken, given and, for a
  softmax, summed. The cores' own modules justify this: each gives the beats of
  a packet in order, once, and for FIFO, norm, softmax and temporal GEMM it is proved
  that the counts drive the same wires as the registers, cycle for cycle
  (`DrivesNodeSignals`, `ImplementsNode`). `valid_out` and `ready_out` are functions of the
  counts, and the combinational ones (activation, and the ALU's ready) are
  recursive functions along the edges, as the wires are. All multi-beat cores
  of a network have packets of NumBeats beats, as in the block, where
  `N_channel`, `N_seq` and `M * N` are all `seq_len`. Weights are on
  offer whenever a temporal GEMM wants them, as in every test of the block.
* A process of `DataflowNetwork` is where the counts of its streams say it is: what it
  has read and written determines the next stream access of its loops. The tool
  restarts a process as soon as it returns; that a region can be started again
  before its rows are out (`ap_ctrl`) is the environment sending the next row.
* In `Autotuner` the call stack of `_dfs` is the sequence of the values assigned.
  A latency per element is a fraction; it is counted in `Unit`-ths of a picosecond, with `Unit`
  a multiple of every number of elements a core of the specs can pass on (`UnitAssumption`), so
  that nothing is rounded. Every finite set of specs has such a unit. (The code computes in
  floating point, whose rounding is not modelled.) Utilisations are compared by
  cross-multiplication, where the code divides: a device must have some of every
  resource (`SpecsAssumption`), since with none of one the code stops with ZeroDivisionError.
  Its behaviours are defined by `TunerInit`, `TunerNext` and `TunerSpec`, named so that
  one module of proofs can extend it beside `StitchedNetwork`.

## The runs

| Run | Question | Instance |
|---|---|---|
| `fifo` | Does the FIFO implement a bounded queue and pass everything on? | depth 3 in 4 words, 2 values |
| `norm` | Does the norm implement a two-packet buffer, with every beat next to its own packet's sums? | 2 beats a packet, 2 values |
| `softmax` | Does the softmax implement a three-packet buffer, with every beat next to its own packet's maximum and sum? What does it take to lock it up? | 2 beats a packet, 2 values, sum of 9 bits |
| `tgemm` | Do packets stay apart, with early emission, missing weights and a stalled sink? | 3 tiles, 3-bit accumulators, 2 products |
| `bram` | Do bursts keep their place, what can the arbitration lose, and what does it leave of a burst? | 2 banks of 2 words, 2 values, lengths 0 to 3 |
| `adapter` | Do all bytes of a tensor leave in order, and only once, also behind a memory router? | all pairs of widths for 6 and 12 bytes of which one divides the other; rows and transpositions from two bases in 16 words |
| `block` | Up to four sequences and any stalling, or eight and none: is every edge in step, do the residual FIFOs ever fill, does all of it leave? | 2 beats, 8 or 16 offered |
| `block_stalled` | The same steps with a fifth sequence and a stalled sink: in step? **No.** | 2 beats, 10 offered |
| `block_lock_up` | Eight sequences and a stalled sink: does the softmax always offer what it holds? **No.** | 2 beats, 16 offered |
| `hls` | Do the processes of the HLS block ever wait in a circle, does a row come out? | one row of 8 beats, all depths as in main.cpp |
| `tuner` | Does the search find the least latency an exhaustive one finds, whatever it cuts and drops? | 7 specs, top_n of 1, 3 and 125, Unit = 128 |
| `tuner_heap` | Is the first of the designs returned the best one found? **No.** | as `tuner` |

Bounds. A core's runs have no bound on time or on the number of packets: their
state spaces are finite and complete. Two beats make a packet with a first and a
last beat that differ, one beat is the edge case; three entries in four
words separate the count's wrap from the pointers'; two and three packets are the
cores' capacities. Three tiles give a first, a middle and a last one, and 3-bit
accumulators overflow. Two BRAM banks give the conflict and its absence, and
lengths 0 to 3 the endless, the single and longer bursts. Six and twelve bytes
have factors of one, two, three, four, six and twelve between their widths; the router's
base 13 makes every run cross the end of its 16 words, base 0 makes none. In `hls` the
row has the eight beats of main.cpp's `NUM_BEATS`; that later rows change nothing is
what the theorems add. Three of the tuner's specs are the repository's: two subgraphs of
test_autotuner.py, one of them with a router whose width changes the number of elements, and
the block of run_transformer_autotune.py, whose largest tiles exceed the device. Four are made
up beside them: a single ALU on a device that has no room for its widest forms, the same on one
with no room for it at all, a design without factors, and one that reaches what no spec of the
repository does (a router of several beats, a length named `seq_len`, a type named with its
`Core`, a type without an estimate). `top_n` is one, a few, and as many
as the first subgraph has designs, and Infinity is above every latency. `MCMultiBankBRAM`
follows the words accepted for one address, all being alike. `MaxStalled` in
`MCStatefulSoftmax` is where the count of stalled cycles stops, two above
where the property looks. `MaxBeats` in a network bounds what the environment
offers in a behaviour: four sequences fill the attention path of the block and
stall it, and five are the fewest with which forks go wrong, as the pair
`block`/`block_stalled` shows; eight are enough to fill the block. In `block` the
sink may stall for any time at any moment. Without stalls eight is a bound for TLC
only: the theorems about the block drop it.

Ghost variables live in the MC modules only: which regime of the sink a
behaviour of the block is in, the tiles a packet has reached and
whether it was cut short, the observer's view of a burst being read or written, cycles stalled.

Fairness. The assumptions are about the environment: a sink does not leave a
beat on offer for ever (weak fairness of the cycles that take it), and the source
may stop at any time, in the middle of a packet included, without keeping back
what is complete. For the network the sources go on offering up to their bound;
for the BRAM a writer ends its bursts, and a sink keeps `ready_in` up until
it is served (strong fairness of a read beat, since a conflict can interrupt the
wait). The clock itself runs: the softmax's sum stage needs no neighbour to
advance, so a cycle in which it has work is included (`Working`). No fairness is
put on a part of a core, as all its registers advance at the same edge. In `RoutedAdapter` the
router is started and the sink ready again and again. In the HLS block the processes
together, or the reader of the output, take a step whenever one of them can: each is a
piece of hardware that goes on when its stream lets it. Nothing temporal is asked of the autotuner.

Deadlock is checked in every run but `hls`, where everything may be done, and
`RestsOnlyWhenDone` says what that takes. It never occurs in the sense of TLC: a clock edge is
always possible, and a tuner can be run again. A design that stands still shows up as a liveness property
(`OldestLeaves`, `OldestPacketLeaves`, `OldestLeavesOrLocksUp`,
`EveryTileLeaves`, `TensorLeaves`, `ReadBurstEnds`, `EverythingLeaves`, `RowsLeave`).

## What the runs and the reading found

With a run that shows it:

1. *The softmax locks up* (`block_lock_up`). `div_active` is `div_ptr != sum_ptr`, with
   pointers modulo three and up to three packets in flight. When all three are summed
   before one is divided to its end the pointers meet, and the core looks empty to itself
   and full to its neighbour, for good. It takes more than NumBeats stalled cycles
   (`SlackBeforeLockUp`; one more suffices). In the block a sink that stalls while eight
   sequences arrive brings it about. The packet-buffer refinement holds all the
   same: the trap is a matter of liveness.
2. *A fork copies beats under backpressure* (`block_stalled`): AND-ed ready holds the
   source, ungated valid does not hold the ready branch. Streaming sinks hide it: the
   streaming regime of `block` holds, and every test of the block has `ready_in` at 1.
3. *The autotuner returns the worst designs it retained* (`tuner_heap`): the heap is a
   min-heap on latency and what is popped from it when it is too long is its
   minimum. The search itself is right (`BestFound`).

Met while modelling, without a run of their own:

4. *A softmax packet of one beat gets the statistics of the packets before it*: the
   restart of the running value and the latch of the combined value happen in the same
   cycle. `N_seq <= T_seq` is accepted by the constructor; `StatisticsOfOwnPacket` fails
   for `MCStatefulSoftmax` with NumBeats = 1.
5. *A BRAM conflict loses the write* rather than letting it win, as the module and
   IP_CATALOG.md both say it does. `OnlyConflictsLose`
   shows that nothing else does. A conflict lasts as long as the write burst is open,
   whether beats arrive or not, so all the rest of the burst is lost with it
   (`BurstsLeavePrefixes`).
6. *An adapter between uneven widths drops bytes*: the constructor's checks let it
   through, and so does shape propagation. `BytesInOrder` fails for 6 bytes from width
   2 to 3, which is why the theorems about order assume that one width divides the other.
7. *A negative variance is taken for the largest*: the norm rounds mean and mean square
   down separately and compares their difference as an unsigned word.
8. *The exponential table of the HLS softmax is read backwards*, so that the maximum of
   a row gets the least weight.
9. *The router starts again from DONE without a handshake.* What it fetches is right in
   every run (`FetchedInOrder`), but no transfer after the first is acknowledged.
10. Documents that differ from the code: OR against AND at forks, the shift after gamma,
    the GEMM's operands, of which one may be acknowledged without the other, and the bounds of
    the autotuner's congestion steps.
11. Documents older than the code: IP_CATALOG.md describes the stateful norm and softmax as
    machines of three states over a single buffer (3.9, 3.10), and TRANSFORMER_BLOCK.md gives
    the block residual FIFOs of depth 8 and four delay FIFOs it does not have. The models follow
    the code.

## What is proved

For every value of the constants that satisfies the ASSUME of the module.

* `FIFOCoreProofs`: type correctness, `PointersAgree` (the distance of head and
  tail modulo the number of words is the count), `HeldUntilTaken`, and the
  refinement of `BoundedFIFO`. The pointer equation is the whole inductive
  invariant; modular arithmetic lemmas carry it over the wrap.
* `StatefulNormProofs`: type correctness, `BanksAgree`, `ReadBankStable`, the
  refinement of `PacketBuffer`, and `SumsOfOwnPacket`. `BanksAgree` is inductive with the types: besides the
  pointers it says that an empty core has begun no packet on its output and a full one
  none on its input, which is what excludes the counter underflowing. For the
  refinement, the packet numbered n from the front lies n banks after `read_ptr`; each
  of the cycles (a beat or a packet in, a beat or a packet out, both, neither) is an
  abstract step, and the only bank written is not among those that are queued. For the
  sums, `SumInv` says of each bank in flight that its latched sums are the partial sums
  over all of its beats, and of the running sums that they are those over the beats
  the producer has written.
* `StatefulSoftmaxProofs`: type correctness, `SumKeepsUp`, `TokensAgree`,
  `DivBankStable`, the refinement of `PacketBuffer` with three banks,
  `SlackBeforeLockUp` and `StatisticsOfOwnPacket`. The counter is only known modulo three from the pointers, so the
  invariant adds where each stage stands in its packet: the sum stage, which nothing can
  stall, leads the producer within a packet and is never more than one bank behind. The
  slack is a potential argument: `Lead`, the beats summed and not given, exceeds a packet by
  no more than the cycles the sink has stalled, and a core that is locked up has a lead
  of more than two packets. The statistics (`StatInv`) are proved for packets of more than one
  beat, since those of one beat get the wrong ones (finding 4), and for a sum register that
  holds NumBeats exponentials of eight bits, which is what its width is computed for.
  Each stage has its part: a bank between producer and sum has its maximum latched, a bank
  the sum is at has the exponentials so far added, and a bank beyond it has all of them.
* `TemporalGEMMProofs`: type correctness, `CountersRest`, `DrainedBeforeOverwritten`,
  `OnlyCutPacketsAreStale` (by `Reach`: the tiles a packet has reached are those below
  the counter).
* The same four modules, the core in a network: with the beats it accepts and passes
  on counted beside it (`CountedSpec`), the core drives the `valid_out` and `ready_out`
  that `StitchedNetwork` computes from the counts (`DrivesNodeSignals`), and each of its
  cycles is a cycle of the network that consists of this core alone (`ImplementsNode`, an
  instance of `StitchedNetwork` with one node and any source and sink). So the network
  may forget the registers. The invariant (`CountsAgree`) divides each
  count by the length of a packet: the remainder is the beat counter, the quotient modulo
  three the softmax's bank pointer, and the difference of two quotients the token
  counter; a temporal GEMM is in EMIT when its quotients differ. The softmax's lock-up needs
  no exception: the network has it too. The GEMM has its weights on offer and no packet
  cut short by `emit_in`, as in the network. ALU and activation have no module to
  compare with: the ALU's one register and the activation's wires are modelled there only.
* `ShapeAdapterProofs`: type correctness for every shape the constructor accepts, even
  or not. Where one width divides the other (`Even`), also `BytesInOrder` and
  `OneTensor`: `Filled` says which beats the slots hold while widening, `Cutting` which
  beat the buffer is cut from while narrowing, each in terms of the two beat counters.
  A router in front is one of the sources this allows (`RouterIsSource`), so both
  hold behind it as well, and what it fetches is what its pattern names (`FetchedInOrder`):
  `Collected` says that the first `byte_cnt` bytes of the beat being put together are in the
  register, and arithmetic about addresses that wrap shows which words they come from.
* `MultiBankBRAMProofs`: type correctness, `ReadKeepsPlace`
  (by `InPlace`: the address has moved as far as beats were delivered),
  `OnlyConflictsLose` and `BurstsLeavePrefixes` (by `CutInConflict`: a burst that has lost a beat
  is in conflict, and the reader it is in conflict with waits until it ends).
* `DesignProofs`, the wiring: `UnforkedInStep`, `TypeOK` and `WholePacketsOnly` for every graph
  of the six kinds of core modelled (FIFO, norm, softmax, temporal GEMM, ALU, activation) whose
  edges need no adapter. That is more graphs of this kind than `build` accepts: it rejects every
  loop, the assumption only those through combinational cores alone. An edge from a source
  with one destination is in step because both of its ends see the same two wires, through activations and ALUs, whatever those carry. The
  others need to know what the wires carry. The combinational cores form no loop
  (`LoopAssumption`), so they can be ordered (`CombinationalOrder`), signals that depend
  only on signals of lower rank have values (`Settles`), and the recursive definitions of
  valid and ready therefore mean what they say (`ValidWires`, `ReadyWires`). `NodesHold`
  then follows each core by itself: how far the packets taken, summed and given may part,
  and where in their packets the stages stand when they are level, which is what lets a
  softmax tell its stages apart by pointers modulo three.
* `DesignProofs`, the block: `EdgesInStep` and `ResidualNeverFull` of `MCTransformerBlock`
  for packets of any size, and any number of sequences where the sink never stalls. At a
  fork it is not enough to follow each core by itself: both branches must accept in the
  same cycle, so the invariant (`BlockInv`) is about pace. In step, the state of the block
  is eleven counts, and `Paced` relates each part's to the part before it. The input FIFO
  lets a beat through every second cycle and `norm1`, `tgemm1` give one in every cycle they
  may, so `norm1` never holds two packets (`InputPaced`, by the sum 2 (i - n) + (q - i) + (n - g),
  which no cycle raises above the beats of two packets); the softmax sums a packet only while
  it has none to divide (`SoftmaxPaced`); `norm2` is at the last beat of a packet when
  `tgemm2` begins the next (`NormPaced`); and `tgemm4` is
  empty when `tgemm3` begins to give (`OutputPaced`). A sink that stalls breaks the last at
  once, and `NormPaced` when two packets have reached `norm2`; up to four sequences this
  does no harm, since they are not enough to fill `norm2` from there (`NormRoom`). That the
  residual FIFOs have room is a matter of step alone: what the cores beside them can hold,
  which `NodesHold` bounds, is less than their depth (`DepthsSuffice`), so in `block_stalled`
  they can fill only with the copies of a fork. In these regimes the softmax does not lock up
  either (`SoftmaxNeverStuck`).
* `DesignProofs`, the search: `BestFound` and `NearBestReturned` for every list of cores (of
  types the estimates know or not), factors, device and size of the heap, under `OneIsCheapest`: no core costs less of any
  resource for having some of its factors above one. The search takes this for granted when
  it counts a factor not assigned yet as one and cuts the branch. It is proved of the
  estimates (`EstimatesAreCheapest`), and TLC evaluates it on the measurements of
  test_autotuner.py; a sweep that measured a core smaller at a larger factor would break it,
  and nothing in the code excludes one. The invariant is about what the recursion has left
  behind: `Passed` says which designs those are in terms of the values on the way to this
  call (`LoopsGoOn`: going on with the innermost loop that has a value left adds to them just
  those under this call), and `Settled` what the search knows of each, that the best latency
  is no worse and that, unless something was popped, it is in the heap or more than half
  over the best. A branch that is cut holds no design that fits, since totals grow
  (`PartialFits`).
* `TransformerTopProofs`: for every DATAFLOW region, that no stream underflows or
  overflows and that each process is inside one row; and for the HLS block, with rows of
  up to eleven beats (`NumBeats <= 11`; eight in main.cpp) and any number of rows,
  `ResidualNeverFull` and `RestsOnlyWhenDone`. The counts along the path beside a residual
  stream add up to at most what the stream holds; and at rest, following the block from
  its end, each stream has neither a beat left nor a row missing.

Several of these need an induction: partial sums over the beats of a packet, signals along
a chain of cores, ranks of a set of cores, totals over the cores of a spec, the factors of a
spec in a row. The library states induction for an operator, which the
provers cannot instantiate, so it is taken here in terms of a set: a set of numbers that is not empty has a least
element (`Least`, from the well-foundedness of `<`), so a set with 0 and with
every successor of its members has all numbers (`Induction`). With it a recursive
function is shown to have its defining equation, and a step of the machine adds one term.

Only model-checked: all liveness, and with it the liveness parts of the refinements. Every
invariant and every action property of a passing run is also a theorem. `UnforkedInStep`, and
that the residual streams of the HLS block never fill, are theorems only: in a run the first
follows from `EdgesInStep`, and a single row cannot fill the second. Where a sink
stalls, what is said of the forks of the block is proved for four sequences and is false
for five (`block_stalled`).

## Not modelled

* The arithmetic inside a beat: requantisation, look-up tables, the ALU's and the
  activations' functions, the lanes that pad a short last beat; and with it the
  combinational cores `GEMMCore`, `NormCore` and `SoftmaxCore`, which are nothing else.
* What happens once, before there is a design: shape propagation, the insertion of
  adapters, the build's checks and errors, `TiledIPGraph`. `NetworkAssumption` states
  what the checks let through for the modelled cores, and the adapter is modelled by itself, not
  as a node of a network: where `build` inserts one, the theorems about networks do not apply.
* `TilingSolver`: a nested loop over all assignments, whose specification would be
  the loop.
* Of the autotuner: writing the designs out, power, the rounding of its floating point. Of the router: the
  runs look at no configuration of zero beats.
* The scripts, which drive external tools.
* The vendor's output under `hls_impl/hls_component/hls_component/`: preprocessed copies of
  main.cpp, co-simulation wrappers and design metadata, generated twice. They are the bulk
  of the repository's C++ (all of its files but main.cpp), and nothing in them is a decision of
  this code; main.cpp is what is modelled.

## What could follow

Weight sources as nodes of the network, with `GEMMCore` and the adapter as kinds of
node; partial packets and a way to flush them, if the code gets one; the build as a
state machine that must leave a failed design as it found it; the datapath as operators over
bounded inputs, beginning with the variance.
