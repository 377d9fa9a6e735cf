--------------------------- MODULE RoutedAdapter ---------------------------
(***************************************************************************)
(* An adapter as a stitched design has it: behind a source of any pace, or *)
(* behind a memory router whose shape asks for one.                        *)
(*                                                                         *)
(* The router's memory holds the tensor along the router's own pattern:    *)
(* the word at an address is the position of the byte fetched from there.  *)
(***************************************************************************)
EXTENDS ShapeAdapter, FiniteSets

CONSTANTS Words,  \* words of the router's memory
          Bases   \* base addresses looked at

\* The memory holds every tensor looked at.
ASSUME RouterAssumption ==
    /\ Words \in Nat \ {0} /\ Bases \subseteq 0 .. Words - 1
    /\ \A s \in Shapes : s[1] <= Words

VARIABLES source,  \* "any" or "router", fixed when the design is built
          config, state, beat_count, read_idx, current_addr, byte_regs

R == INSTANCE MemRouter

router == <<config, state, beat_count, read_idx, current_addr, byte_regs>>
allvars == <<vars, source, router>>

\* The patterns of the router's tests: rows in order, and a transposition.
Patterns == {[base_addr |-> b, stride |-> 1, beat_stride |-> T_in] : b \in Bases}
    \union {[base_addr |-> b, stride |-> num_in_beats, beat_stride |-> 1] : b \in Bases}

Address(p, i) ==
    (p.base_addr + (i \div T_in) * p.beat_stride + (i % T_in) * p.stride) % Words

\* Each position of the tensor lies at its address, blanks everywhere else.
Laid(p) == [a \in 0 .. Words - 1 |->
               LET here == {i \in 0 .. N - 1 : Address(p, i) = a}
               IN IF here = {} THEN Blank ELSE CHOOSE i \in here : TRUE]

RoutedInit ==
    /\ Init
    /\ source \in {"any", "router"}
    /\ \E p \in IF source = "router" THEN Patterns
                ELSE {CHOOSE p \in Patterns : TRUE} :
           config = [T_out |-> T_in, num_beats |-> num_in_beats, bram |-> Laid(p),
                     base_addr |-> p.base_addr, stride |-> p.stride,
                     beat_stride |-> p.beat_stride]
    /\ R!Init

FromAnySource == source = "any" /\ Next /\ UNCHANGED <<source, router>>

\* One cycle of both, with the adapter's ready_out as the router's ready_in.
Cycle(start, ready_in) ==
    /\ source = "router"
    /\ R!Clock(start, ready_out(ready_in))
    /\ Clock(R!valid_out, R!data_out, ready_in)
    /\ UNCHANGED source

RoutedNext == FromAnySource \/ \E start, ready_in \in BOOLEAN : Cycle(start, ready_in)

RoutedSpec ==
    /\ RoutedInit /\ [][RoutedNext]_allvars
    /\ WF_allvars(source = "any" /\ Flowing /\ UNCHANGED <<source, router>>)
    /\ WF_allvars(Cycle(TRUE, TRUE))

-----------------------------------------------------------------------------
\* A beat the router offers is the one its count says, in the first run and in
\* every run after it, wherever the addresses wrap; and what the adapter makes
\* of the beats is the tensor in order, however it holds the router up.
FetchedInOrder ==
    source = "router" =>
        /\ R!valid_out => R!data_out = Beat(beat_count, T_in)
        /\ valid_out(R!valid_out) => data_out(R!data_out) = Beat(out_beat_count, T_out)
=============================================================================
