----------------------------- MODULE Autotuner -----------------------------
(***************************************************************************)
(* Autotuner: a depth-first search over the tile factors of a design's     *)
(* cores, which cuts the branches that exceed the device, and keeps a heap *)
(* of designs.  One action is one visit of a node of the search tree.      *)
(*                                                                         *)
(* A node is the sequence of the values assigned so far, the call stack of *)
(* _dfs.  A core is known by its place in the spec, as cores have names of *)
(* their own.  A latency per element is counted in Unit-ths of a           *)
(* picosecond, of which every design's is a whole number (UnitAssumption). *)
(***************************************************************************)
EXTENDS CharacterizationDB, SequencesExt

CONSTANTS Specs,     \* [ips |-> sequence of cores, fpga |-> what there is]
          TopNs,     \* values of top_n
          Unit,      \* a multiple of every number of elements a core may pass on
          Infinity   \* more than any latency

ASSUME TunerAssumption ==
    Infinity \in Nat /\ Unit \in Nat \ {0} /\ TopNs \subseteq Nat \ {0}

\* A design of at least one core; a core names each of its factors once, and its
\* other arguments are sizes.  The device has some of everything: the search
\* divides by each resource, and fails at once on one that is not there.
ASSUME SpecsAssumption ==
    \A s \in Specs :
        /\ s.ips \in Seq(ToSet(s.ips)) \ {<<>>}
        /\ \A core \in ToSet(s.ips) :
              /\ core.params \in Seq(ToSet(core.params)) /\ IsInjective(core.params)
              /\ \A p \in DOMAIN core.kwargs : core.kwargs[p] \in Nat \ {0}
        /\ \A r \in Resources : s.fpga[r] \in Nat \ {0}

_CANDIDATE_VALUES == <<1, 2, 4, 8, 16>>

VARIABLES spec, top_n,    \* fixed when the tuner is built,
          param_specs,    \* as are the factors to assign, in the spec's order
          phase,          \* "built", "searching" inside run(), "returned" from it
          node,           \* the values assigned on the way to this call
          best_latency,
          heap_counter,   \* designs pushed so far
          top_designs,    \* the heap
          results         \* what run() returned last
tuner_vars == <<spec, top_n, param_specs, phase, node, best_latency, heap_counter,
                top_designs, results>>

ips == spec.ips
-----------------------------------------------------------------------------
\* A core built with the values f for its factors.
Built(core, f) ==
    [p \in ToSet(core.params) \union DOMAIN core.kwargs |->
        IF p \in ToSet(core.params) THEN f[p] ELSE core.kwargs[p]]

\* The parameters core i is built with: one not assigned yet counts as 1.
Assigned(config, i, name) ==
    LET ks == {k \in DOMAIN config : param_specs[k] = <<i, name>>}
    IN IF ks = {} THEN 1 ELSE config[CHOOSE k \in ks : TRUE]

Params(config, i) ==
    Built(ips[i], [p \in ToSet(ips[i].params) |-> Assigned(config, i, p)])

Metrics(config, i) == Lookup(ips[i].type, Params(config, i))

Added(f) == LET sum[n \in 0 .. Len(f)] == IF n = 0 THEN 0 ELSE sum[n - 1] + f[n]
            IN sum[Len(f)]

Total(config, r) == Added([i \in DOMAIN ips |-> Metrics(config, i)[r]])

\* Utilisation is at most n / d.
UtilWithin(config, n, d) ==
    \A r \in Resources : d * Total(config, r) <= n * spec.fpga[r]

Congestion(config) == CASE UtilWithin(config, 1, 2) -> 0
                        [] UtilWithin(config, 3, 4) -> 1
                        [] UtilWithin(config, 7, 8) -> 2
                        [] OTHER -> 3

MatrixTypes == {"TemporalGEMM", "GEMM"}
NormTypes == {"Norm", "StatefulNorm"}
SoftmaxTypes == {"Softmax", "StatefulSoftmax"}
ElementwiseTypes == {"ALU", "Activation", "FIFO"}

\* The length of a sequence of which a core takes T_width elements at a time.
Length(params) == IF "N" \in DOMAIN params THEN params["N"] ELSE Get(params, "seq_len")

Beats(config, i) ==
    LET type == ips[i].type
        params == Params(config, i)
        p(name) == Get(params, name)
        beats == CASE type \in MatrixTypes -> (p("M") * p("N")) \div (p("T_M") * p("T_N"))
                   [] type \in NormTypes -> p("N_channel") \div p("T_channel")
                   [] type \in SoftmaxTypes -> p("N_seq") \div p("T_seq")
                   [] type = "MemRouter" -> p("num_beats")
                   [] type \in ElementwiseTypes -> Length(params) \div p("T_width")
                   [] OTHER -> 1
    IN Max({1, beats})

\* The elements of what a core passes on: one or more, its arguments being so.
Elements(type, params) ==
    LET p(name) == Get(params, name)
    IN CASE type \in MatrixTypes -> p("M") * p("N")
         [] type \in NormTypes -> p("N_channel")
         [] type \in SoftmaxTypes -> p("N_seq")
         [] type \in ElementwiseTypes -> Length(params)
         [] type = "MemRouter" -> p("num_beats") * p("T_out")
         [] OTHER -> 1

InitiationInterval(config, i) ==
    LET p(name) == Get(Params(config, i), name)
    IN IF ips[i].type \in MatrixTypes THEN p("T_M") * p("T_K") * p("T_N")
       ELSE 1

\* A slack of the whole period or more is a clock of one megahertz.
Period(config, i) ==
    LET cp == ClockPeriod - Metrics(config, i).wns
    IN IF cp <= 0 THEN 1000000 ELSE cp

TotalElements(config) ==
    Max({Elements(ips[i].type, Params(config, i)) : i \in DOMAIN ips})

TotalLatency(config) ==
    Max({Period(config, i) : i \in DOMAIN ips})
      * (Max({Beats(config, i) : i \in DOMAIN ips})
           * Max({InitiationInterval(config, i) : i \in DOMAIN ips})
         + Congestion(config))

\* TotalLatency / TotalElements, in Unit-ths.
Latency(config) == TotalLatency(config) * (Unit \div TotalElements(config))

-----------------------------------------------------------------------------
Idle == /\ phase = "built" /\ node = <<>>
        /\ best_latency = Infinity /\ heap_counter = 0 /\ top_designs = {}
        /\ results = <<>>

TunerInit ==
    /\ spec \in Specs /\ top_n \in TopNs
    /\ param_specs =
           FlattenSeq([i \in DOMAIN ips |->
                          [j \in DOMAIN ips[i].params |-> <<i, ips[i].params[j]>>]])
    /\ Idle

\* run() starts from nothing, whatever a run before it left.
Start == /\ phase # "searching"
         /\ phase' = "searching" /\ node' = <<>>
         /\ best_latency' = Infinity /\ heap_counter' = 0 /\ top_designs' = {}
         /\ results' = <<>>
         /\ UNCHANGED <<spec, top_n, param_specs>>

Complete == Len(node) = Len(param_specs)

\* A slip: parameters not assigned yet count as the largest value.
PrunedAtWorst ==
    LET config == [k \in 1 .. Len(param_specs) |-> IF k <= Len(node) THEN node[k] ELSE 16]
    IN ~UtilWithin(config, 1, 1)

\* The root is not looked at.
_prune_by_util == node # <<>> /\ ~UtilWithin(node, 1, 1)

NextValue(v) ==
    _CANDIDATE_VALUES[1 + CHOOSE k \in DOMAIN _CANDIDATE_VALUES : _CANDIDATE_VALUES[k] = v]

\* What the loops around this call go on with: the innermost that has a value
\* left takes it.  None has one: _dfs returns to run, which sorts the designs.
Open == {k \in DOMAIN node : node[k] # Last(_CANDIDATE_VALUES)}

Before(d, e) == \/ d.latency < e.latency
                \/ d.latency = e.latency /\ d.counter < e.counter

Sorted(designs) ==
    [k \in 1 .. Cardinality(designs) |->
        CHOOSE d \in designs : Cardinality({e \in designs : Before(e, d)}) = k - 1]

GoOn(designs) ==
    IF Open # {}
    THEN /\ node' = Append(SubSeq(node, 1, Max(Open) - 1), NextValue(node[Max(Open)]))
         /\ UNCHANGED <<phase, results>>
    ELSE /\ node' = <<>> /\ phase' = "returned"
         /\ results' = Sorted(designs)

Descend == /\ phase = "searching" /\ ~_prune_by_util /\ ~Complete
           /\ node' = Append(node, Head(_CANDIDATE_VALUES))
           /\ UNCHANGED <<spec, top_n, param_specs, phase, best_latency,
                          heap_counter, top_designs, results>>

Prune == /\ phase = "searching" /\ _prune_by_util
         /\ GoOn(top_designs)
         /\ UNCHANGED <<spec, top_n, param_specs, best_latency, heap_counter,
                          top_designs>>

\* A slip: every design slower than the best is dropped.
SlowerThanBest(latency) == latency > best_latency
TooSlow(latency) == /\ best_latency # Infinity
                    /\ latency > best_latency + best_latency \div 2

\* The heap's first is the one that comes before all others.
Popped(heap) ==
    IF Cardinality(heap) <= top_n THEN heap
    ELSE heap \ {d \in heap : \A e \in heap \ {d} : Before(d, e)}

EvaluateFull ==
    LET latency == Latency(node)
        pushed == top_designs \union
            {[latency |-> latency, counter |-> heap_counter, config |-> node]}
    IN /\ phase = "searching" /\ ~_prune_by_util /\ Complete
       /\ IF ~UtilWithin(node, 1, 1) \/ TooSlow(latency)
          THEN UNCHANGED <<best_latency, heap_counter, top_designs>>
          ELSE /\ best_latency' = Min({best_latency, latency})
               /\ heap_counter' = heap_counter + 1
               /\ top_designs' = Popped(pushed)
       /\ GoOn(top_designs')
       /\ UNCHANGED <<spec, top_n, param_specs>>

TunerNext == Start \/ Descend \/ Prune \/ EvaluateFull

TunerSpec == TunerInit /\ [][TunerNext]_tuner_vars

-----------------------------------------------------------------------------
Cores == UNION {ToSet(s.ips) : s \in Specs}

\* The unit of latency rounds nothing.  Any finite set of specs has such a unit.
ASSUME UnitAssumption ==
    \A core \in Cores :
        \A f \in [ToSet(core.params) -> ToSet(_CANDIDATE_VALUES)] :
            Unit % Elements(core.type, Built(core, f)) = 0

\* No core costs less for having any of its factors at more than one: what the
\* search takes for granted when it counts a factor not assigned yet as one.
OneIsCheapest ==
    \A core \in Cores :
        \A f \in [ToSet(core.params) -> ToSet(_CANDIDATE_VALUES)],
           S \in SUBSET ToSet(core.params), r \in Resources :
            Lookup(core.type, Built(core, [p \in ToSet(core.params) |->
                                              IF p \in S THEN 1 ELSE f[p]]))[r]
                <= Lookup(core.type, Built(core, f))[r]

\* The designs an exhaustive search would find.
Designs == {c \in [1 .. Len(param_specs) -> ToSet(_CANDIDATE_VALUES)] :
               UtilWithin(c, 1, 1)}

Returned == phase = "returned"

\* Cutting branches and dropping slow designs never costs the best one: the
\* search ends with the least latency of all designs that fit the device.
BestFound ==
    Returned => /\ best_latency \in {Latency(c) : c \in Designs} \union {Infinity}
                /\ \A c \in Designs : Latency(c) >= best_latency

\* Whatever the order of the search, no design within half the best latency
\* over it is dropped for being slow: it is among those returned, if the heap
\* has room for all that were pushed.
NearBestReturned ==
    Returned /\ heap_counter <= top_n =>
        \A c \in Designs : Latency(c) <= best_latency + best_latency \div 2
                               => \E k \in DOMAIN results : results[k].config = c

\* The documented use: the first of the designs returned is the best one.
BestFirst ==
    Returned /\ results # <<>> => results[1].latency = best_latency
=============================================================================
