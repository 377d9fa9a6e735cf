----------------------------- MODULE MemRouter -----------------------------
(***************************************************************************)
(* MemRouterCore: fetches num_beats beats of T_out bytes from its memory,  *)
(* byte by byte along a strided pattern of addresses, and offers each beat *)
(* until it is taken.  One action is one clock cycle.                      *)
(***************************************************************************)
EXTENDS Naturals

CONSTANTS Words,   \* words of the memory: addresses are counted modulo Words
          Blank    \* what the byte registers hold after reset

VARIABLES config,         \* T_out, the memory and the configuration registers:
                          \* nothing in the core changes them
          state,          \* "IDLE", "READ", "OUTPUT", "DONE"
          beat_count,     \* beats of this run taken
          read_idx,       \* bytes of this beat fetched
          current_addr,   \* where the next byte is
          byte_regs       \* the beat being collected

valid_out == state = "OUTPUT"
ready_out == state = "IDLE"
data_out == byte_regs

\* A slip: the address of the beat that has been taken, not of the next.
BeatAddressAgain(b) == (config.base_addr + (b - 1) * config.beat_stride) % Words

\* Where beat b of a run begins.
BeatAddress(b) == (config.base_addr + b * config.beat_stride) % Words

Init == /\ state = "IDLE"
        /\ beat_count = 0 /\ read_idx = 0 /\ current_addr = 0
        /\ byte_regs = [i \in 0 .. config.T_out - 1 |-> Blank]

\* valid_in starts a run from DONE as it does from IDLE, ready_out or not.
StartOrRest(valid_in) ==
    /\ state \in {"IDLE", "DONE"}
    /\ IF valid_in
       THEN /\ state' = IF config.num_beats = 0 THEN "DONE" ELSE "READ"
            /\ current_addr' = config.base_addr
            /\ read_idx' = 0 /\ beat_count' = 0
       ELSE UNCHANGED <<state, current_addr, read_idx, beat_count>>
    /\ UNCHANGED byte_regs

Fetch == /\ state = "READ"
         /\ byte_regs' = [i \in DOMAIN byte_regs |->
                             IF i = read_idx THEN config.bram[current_addr]
                             ELSE byte_regs[i]]
         /\ current_addr' = (current_addr + config.stride) % Words
         /\ read_idx' = read_idx + 1
         /\ state' = IF read_idx = config.T_out - 1 THEN "OUTPUT" ELSE state
         /\ UNCHANGED beat_count

Offer(ready_in) ==
    /\ state = "OUTPUT"
    /\ IF ~ready_in THEN UNCHANGED <<state, current_addr, read_idx, beat_count>>
       ELSE IF beat_count + 1 = config.num_beats
       THEN state' = "DONE" /\ UNCHANGED <<current_addr, read_idx, beat_count>>
       ELSE /\ state' = "READ"
            /\ current_addr' = BeatAddress(beat_count + 1)
            /\ read_idx' = 0
            /\ beat_count' = beat_count + 1
    /\ UNCHANGED byte_regs

Clock(valid_in, ready_in) == /\ StartOrRest(valid_in) \/ Fetch \/ Offer(ready_in)
                             /\ UNCHANGED config
=============================================================================
