--------------------------- MODULE MultiBankBRAM ---------------------------
(***************************************************************************)
(* MultiBankBRAMCore: banks of memory with a read port that streams bursts *)
(* and a write port that takes them, and the arbitration for the case that *)
(* both are in the same bank.  One action is one clock cycle: a step of    *)
(* the read port together with a step of the write port.                   *)
(***************************************************************************)
EXTENDS Integers

CONSTANTS NumBanks,
          AddrSize,  \* 2^addr_width words in a bank
          LenSize,   \* 2^8: range of a burst length and of the beat counter
          Word       \* words, 0 among them

ASSUME BRAMAssumption == /\ NumBanks \in Nat \ {0, 1}
                         /\ AddrSize \in Nat \ {0}
                         /\ LenSize \in Nat \ {0}
                         /\ 0 \in Word

Banks == 0 .. NumBanks - 1
Addrs == 0 .. AddrSize - 1
Lens == 0 .. LenSize - 1

VARIABLES banks,
          read_state, read_addr_reg, read_bank_sel_reg, read_burst_len, read_count,
          write_state, write_addr_reg, write_bank_sel_reg
burst == <<read_addr_reg, read_bank_sel_reg, read_burst_len>>
readPort == <<read_state, read_count, burst>>
writePort == <<write_state, write_addr_reg, write_bank_sel_reg>>
vars == <<banks, readPort, writePort>>

\* A slip: a writer that has ended its burst still counts.
ConflictWithIdleWriter == /\ read_state = "READ_BURST"
                          /\ read_bank_sel_reg = write_bank_sel_reg
bank_conflict == /\ read_state = "READ_BURST"
                 /\ write_state = "WRITE_BURST"
                 /\ read_bank_sel_reg = write_bank_sel_reg

ready_out == read_state = "IDLE"

\* A slip: the conflict does not stall the reader.
ValidInConflict == read_state = "READ_BURST"
valid_out == read_state = "READ_BURST" /\ ~bank_conflict

data_out == banks[read_bank_sel_reg][read_addr_reg]

\* read_burst_len - 1 has a ninth bit: no counter value equals 0 - 1.
LastBeat == read_count = read_burst_len - 1
last_out == valid_out /\ LastBeat

Init == /\ banks = [b \in Banks |-> [a \in Addrs |-> 0]]
        /\ read_state = "IDLE" /\ read_addr_reg = 0 /\ read_bank_sel_reg = 0
        /\ read_burst_len = 0 /\ read_count = 0
        /\ write_state = "IDLE" /\ write_addr_reg = 0 /\ write_bank_sel_reg = 0

\* A slip: the counter of the last burst is kept.
RequestKeepsCount(b, a, len) ==
    /\ ready_out
    /\ read_state' = "READ_BURST"
    /\ read_addr_reg' = a /\ read_bank_sel_reg' = b /\ read_burst_len' = len
    /\ UNCHANGED read_count

\* The length of the burst is the first byte of data_in; a request is a valid
\* beat with last_in.
ReadRequest(b, a, len) ==
    /\ ready_out
    /\ read_state' = "READ_BURST"
    /\ read_addr_reg' = a /\ read_bank_sel_reg' = b /\ read_burst_len' = len
    /\ read_count' = 0

ReadBeat == /\ valid_out
            /\ read_addr_reg' = (read_addr_reg + 1) % AddrSize
            /\ read_count' = (read_count + 1) % LenSize
            /\ read_state' = IF LastBeat THEN "IDLE" ELSE "READ_BURST"
            /\ UNCHANGED <<read_bank_sel_reg, read_burst_len>>

\* No request, no ready_in, or a stall.
ReadRest == UNCHANGED readPort

\* The bank and the address of a beat: those of the bus for the first of a burst.
WriteBank(b) == IF write_state = "IDLE" THEN b ELSE write_bank_sel_reg
WriteAddr(a) == IF write_state = "IDLE" THEN a ELSE write_addr_reg

Stored(b, a, word) ==
    IF bank_conflict THEN banks ELSE [banks EXCEPT ![b][a] = word]

\* A slip: the first beat leaves its own address behind.
NextWriteAddrSame(a) == IF write_state = "IDLE" THEN a ELSE (a + 1) % AddrSize
NextWriteAddr(a) == (a + 1) % AddrSize

\* write_ready_out is high in both states, so every valid beat is accepted.
WriteBeat(b, a, word, last) ==
    /\ banks' = Stored(WriteBank(b), WriteAddr(a), word)
    /\ write_addr_reg' = NextWriteAddr(WriteAddr(a))
    /\ write_bank_sel_reg' = WriteBank(b)
    /\ write_state' = IF last THEN "IDLE" ELSE "WRITE_BURST"

WriteRest == UNCHANGED <<banks, writePort>>

ReadPort == \/ \E b \in Banks, a \in Addrs, len \in Lens : ReadRequest(b, a, len)
            \/ ReadBeat
            \/ ReadRest
WritePort == \/ \E b \in Banks, a \in Addrs, word \in Word, last \in BOOLEAN :
                    WriteBeat(b, a, word, last)
             \/ WriteRest

Next == ReadPort /\ WritePort

Spec == Init /\ [][Next]_vars

-----------------------------------------------------------------------------
TypeOK == /\ banks \in [Banks -> [Addrs -> Word]]
          /\ read_state \in {"IDLE", "READ_BURST"}
          /\ read_addr_reg \in Addrs /\ read_bank_sel_reg \in Banks
          /\ read_burst_len \in Lens /\ read_count \in Lens
          /\ write_state \in {"IDLE", "WRITE_BURST"}
          /\ write_addr_reg \in Addrs /\ write_bank_sel_reg \in Banks
=============================================================================
