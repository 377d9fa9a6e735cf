------------------------ MODULE MultiBankBRAMProofs ------------------------
(***************************************************************************)
(* Type correctness of the memory, the place of a burst being read, the    *)
(* arrival of what is written, and what a conflict leaves of it, for any   *)
(* number of banks, words and lengths.                                     *)
(***************************************************************************)
EXTENDS MCMultiBankBRAM, TLAPS

\* A counter modulo the size of its register stays in the register's range.
LEMMA Wrapped == ASSUME NEW n \in Nat \ {0}, NEW x \in 0 .. n - 1
                 PROVE  (x + 1) % n \in 0 .. n - 1
  OBVIOUS

\* A step of the read port leaves its registers in range, whatever the write
\* port does.
LEMMA ReadPortType == TypeOK /\ ReadPort =>
    /\ read_state' \in {"IDLE", "READ_BURST"}
    /\ read_addr_reg' \in Addrs /\ read_bank_sel_reg' \in Banks
    /\ read_burst_len' \in Lens /\ read_count' \in Lens
  <1> SUFFICES ASSUME TypeOK, ReadPort
               PROVE  /\ read_state' \in {"IDLE", "READ_BURST"}
                      /\ read_addr_reg' \in Addrs /\ read_bank_sel_reg' \in Banks
                      /\ read_burst_len' \in Lens /\ read_count' \in Lens
      OBVIOUS
  <1>1. CASE \E b \in Banks, a \in Addrs, len \in Lens : ReadRequest(b, a, len)
    <2>1. 0 \in Lens
        BY BRAMAssumption DEF Lens
    <2> QED BY <1>1, <2>1 DEF ReadRequest, TypeOK
  <1>2. CASE ReadBeat
    <2>1. (read_addr_reg + 1) % AddrSize \in Addrs
        BY BRAMAssumption, Wrapped DEF TypeOK, Addrs
    <2>2. (read_count + 1) % LenSize \in Lens
        BY BRAMAssumption, Wrapped DEF TypeOK, Lens
    <2> QED BY <1>2, <2>1, <2>2 DEF ReadBeat, TypeOK
  <1>3. CASE ReadRest
      BY <1>3 DEF ReadRest, readPort, burst, TypeOK
  <1> QED BY <1>1, <1>2, <1>3 DEF ReadPort

\* A step of the write port leaves the memory and its registers in range.
LEMMA WritePortType == TypeOK /\ WritePort =>
    /\ banks' \in [Banks -> [Addrs -> Word]]
    /\ write_state' \in {"IDLE", "WRITE_BURST"}
    /\ write_addr_reg' \in Addrs /\ write_bank_sel_reg' \in Banks
  <1> SUFFICES ASSUME TypeOK, WritePort
               PROVE  /\ banks' \in [Banks -> [Addrs -> Word]]
                      /\ write_state' \in {"IDLE", "WRITE_BURST"}
                      /\ write_addr_reg' \in Addrs /\ write_bank_sel_reg' \in Banks
      OBVIOUS
  <1>1. CASE WriteRest
      BY <1>1 DEF WriteRest, writePort, TypeOK
  <1>2. ASSUME NEW b \in Banks, NEW a \in Addrs, NEW word \in Word,
               NEW last \in BOOLEAN, WriteBeat(b, a, word, last)
        PROVE  /\ banks' \in [Banks -> [Addrs -> Word]]
               /\ write_state' \in {"IDLE", "WRITE_BURST"}
               /\ write_addr_reg' \in Addrs /\ write_bank_sel_reg' \in Banks
    <2>1. WriteBank(b) \in Banks /\ WriteAddr(a) \in Addrs
        BY DEF WriteBank, WriteAddr, TypeOK
    <2>2. Stored(WriteBank(b), WriteAddr(a), word) \in [Banks -> [Addrs -> Word]]
        BY <2>1 DEF Stored, TypeOK
    <2>3. NextWriteAddr(WriteAddr(a)) \in Addrs
        BY <2>1, BRAMAssumption, Wrapped DEF NextWriteAddr, Addrs
    <2> QED BY <1>2, <2>1, <2>2, <2>3 DEF WriteBeat
  <1> QED BY <1>1, <1>2 DEF WritePort

\* Both ports at once.
LEMMA TypeStep == TypeOK /\ [Next]_vars => TypeOK'
  <1>1. TypeOK /\ Next => TypeOK'
      BY ReadPortType, WritePortType DEF Next, TypeOK
  <1>2. TypeOK /\ UNCHANGED vars => TypeOK'
      BY DEF TypeOK, vars, readPort, writePort, burst
  <1> QED BY <1>1, <1>2

\* The registers and the memory keep their ranges.
THEOREM TypeCorrect == Spec => []TypeOK
  <1>1. Init => TypeOK
      BY BRAMAssumption DEF Init, TypeOK, Banks, Addrs, Lens
  <1> QED BY <1>1, TypeStep, PTL DEF Spec

-----------------------------------------------------------------------------
\* The remainder is the one number below the divisor at a whole number of
\* divisors from the dividend.
LEMMA Remainder == ASSUME NEW n \in Nat \ {0}, NEW q \in Int, NEW r \in 0 .. n - 1
                   PROVE  (n * q + r) % n = r
  <1>1. n * q \in Int
      OBVIOUS
  <1> DEFINE x == n * q + r
  <1>2. x \in Int
      BY <1>1
  <1>3. x % n \in 0 .. n - 1 /\ x \div n \in Int /\ x = n * (x \div n) + (x % n)
      BY <1>2
  <1>4. n * (q - (x \div n)) = (x % n) - r
      BY <1>3
  <1>5. q - (x \div n) = 0
    <2> DEFINE e == q - (x \div n)
    <2>1. e \in Int /\ n * e < n /\ n * e > -n
        BY <1>3, <1>4
    <2>2. e >= 1 => n * e >= n
        BY <2>1
    <2>3. e <= -1 => n * e <= -n
        BY <2>1
    <2> QED BY <2>1, <2>2, <2>3
  <1> QED BY <1>3, <1>4, <1>5

\* One more after a remainder is one more before it.
LEMMA NextRemainder == ASSUME NEW n \in Nat \ {0}, NEW x \in Nat
                       PROVE  ((x % n) + 1) % n = (x + 1) % n
  <1> DEFINE q == x \div n
             r == x % n
  <1>1. q \in Int /\ r \in 0 .. n - 1 /\ x = n * q + r
      OBVIOUS
  <1>2. CASE r + 1 < n
    <2> HIDE DEF q, r
    <2>0. r + 1 \in 0 .. n - 1
        BY <1>1, <1>2
    <2>1. (n * q + (r + 1)) % n = r + 1
        BY <1>1, <2>0, Remainder
    <2>2. x + 1 = n * q + (r + 1)
        BY <1>1
    <2>3. (r + 1) % n = r + 1
        BY <1>1, <1>2
    <2> QED BY <2>1, <2>2, <2>3 DEF r
  <1>3. CASE r + 1 = n
    <2>1. n * q + (r + 1) = n * (q + 1) + 0
        BY <1>1, <1>3
    <2>2. (n * (q + 1) + 0) % n = 0
        BY <1>1, Remainder
    <2>3. (n * 1 + 0) % n = 0
        BY Remainder
    <2>4. r + 1 = n * 1 + 0
        BY <1>1, <1>3
    <2>5. x + 1 = n * (q + 1) + 0
        BY <1>1, <2>1
    <2> HIDE DEF q, r
    <2>6. (r + 1) % n = 0
        BY <2>3, <2>4
    <2>7. (x + 1) % n = 0
        BY <2>2, <2>5
    <2> QED BY <2>6, <2>7 DEF r
  <1> QED BY <1>1, <1>2, <1>3

\* The address goes round the bank in step with the count of beats, where
\* that count starts again included.
LEMMA NextPlace ==
    ASSUME NEW n \in Nat \ {0}, NEW l \in Nat \ {0}, NEW a \in 0 .. n - 1,
           NEW d \in 0 .. l * n - 1
    PROVE  /\ (d + 1) % (l * n) \in 0 .. l * n - 1
           /\ (((a + d) % n) + 1) % n = (a + ((d + 1) % (l * n))) % n
  <1>1. l * n \in Nat \ {0}
      OBVIOUS
  <1>2. (((a + d) % n) + 1) % n = (a + d + 1) % n
    <2> DEFINE x == a + d
    <2>1. x \in Nat
        BY <1>1
    <2> HIDE DEF x
    <2>2. ((x % n) + 1) % n = (x + 1) % n
        BY <2>1, NextRemainder
    <2> QED BY <2>2 DEF x
  <1>3. CASE d + 1 < l * n
    <2>1. (d + 1) % (l * n) = d + 1
        BY <1>1, <1>3
    <2> QED BY <1>1, <1>2, <1>3, <2>1
  <1>4. CASE d + 1 = l * n
    <2>1. ((l * n) * 1 + 0) % (l * n) = 0
        BY <1>1, Remainder
    <2>2. d + 1 = (l * n) * 1 + 0
        BY <1>1, <1>4
    <2>3. (d + 1) % (l * n) = 0
        BY <2>1, <2>2
    <2>4. (n * l + a) % n = a /\ a % n = a
        BY Remainder
    <2>5. a + d + 1 = n * l + a
        BY <1>4
    <2>6. (a + d + 1) % n = a
        BY <2>4, <2>5
    <2> QED BY <1>1, <1>2, <2>3, <2>4, <2>6
  <1> QED BY <1>1, <1>3, <1>4

\* While a burst is read, its address is as far from where it was requested as
\* beats have been taken, and unless it has no length its counter counts them.
InPlace == read_state = "READ_BURST" =>
               /\ from \in Addrs /\ delivered \in 0 .. LenSize * AddrSize - 1
               /\ read_addr_reg = (from + delivered) % AddrSize
               /\ read_burst_len > 0 => /\ delivered = read_count
                                        /\ read_count < read_burst_len

\* A request puts the burst in place, and a beat moves address and count alike.
LEMMA ReadingInPlace == ASSUME TypeOK, InPlace, Reading PROVE InPlace'
  <1> USE BRAMAssumption
  <1>1. CASE Request
    <2>1. PICK b \in Banks, a \in Addrs, len \in Lens :
              ReadRequest(b, a, len) /\ from' = a
        BY <1>1 DEF Request
    <2>2. LenSize * AddrSize \in Nat \ {0}
        OBVIOUS
    <2>3. (a + 0) % AddrSize = a
        BY DEF Addrs
    <2> QED BY <1>1, <2>1, <2>2, <2>3 DEF InPlace, Request, ReadRequest, Lens
  <1>2. CASE Beat
    <2>1. read_state = "READ_BURST"
        BY <1>2 DEF Beat, ReadBeat, valid_out
    <2>2. /\ delivered' \in 0 .. LenSize * AddrSize - 1
          /\ read_addr_reg' = (from + delivered') % AddrSize
      <3>1. delivered' = (delivered + 1) % (LenSize * AddrSize)
          BY <1>2 DEF Beat
      <3>2. read_addr_reg' = (((from + delivered) % AddrSize) + 1) % AddrSize
          BY <1>2, <2>1 DEF Beat, ReadBeat, InPlace
      <3> QED BY <2>1, <3>1, <3>2, NextPlace DEF InPlace, Addrs
    <2>3. ASSUME read_state' = "READ_BURST", read_burst_len' > 0
          PROVE  delivered' = read_count' /\ read_count' < read_burst_len'
      <3>1. read_burst_len' = read_burst_len /\ read_count # read_burst_len - 1
          BY <1>2, <2>3 DEF Beat, ReadBeat, LastBeat, valid_out
      <3>2. delivered = read_count /\ read_count + 1 < read_burst_len
          BY <2>1, <2>3, <3>1 DEF InPlace, TypeOK, Lens
      <3>3. read_count + 1 < LenSize /\ read_count + 1 \in Nat
          BY <3>2 DEF TypeOK, Lens
      <3>4. LenSize <= LenSize * AddrSize /\ LenSize * AddrSize \in Nat
          OBVIOUS
      <3>5. (read_count + 1) % LenSize = read_count + 1
          BY <3>3
      <3>6. (read_count + 1) % (LenSize * AddrSize) = read_count + 1
          BY <3>3, <3>4
      <3> QED BY <1>2, <3>1, <3>2, <3>5, <3>6 DEF Beat, ReadBeat
    <2> QED BY <1>2, <2>1, <2>2, <2>3 DEF Beat, InPlace
  <1>3. CASE ReadRest /\ UNCHANGED <<from, delivered>>
      BY <1>3 DEF InPlace, ReadRest, readPort, burst
  <1> QED BY <1>1, <1>2, <1>3 DEF Reading

\* The observer's steps are the memory's.
LEMMA ObservedStep == TypeOK /\ [MCNext]_mcvars => [Next]_vars
  <1>1. Reading => ReadPort
      BY DEF Reading, Request, Beat, ReadPort
  <1>2. Writing => WritePort
      BY DEF Writing, Accept, WritePort
  <1> QED BY <1>1, <1>2 DEF MCNext, Next, mcvars

\* The word on offer is the next of its burst, none skipped or repeated, and a
\* burst ends after the beats it was asked for, for banks of any size and
\* whatever stalls the burst.
THEOREM ReadPlaceCorrect == MCSpec => []ReadKeepsPlace
  <1>1. MCInit => TypeOK /\ InPlace
      BY BRAMAssumption DEF MCInit, Init, TypeOK, InPlace, Banks, Addrs, Lens
  <1>2. TypeOK /\ InPlace /\ [MCNext]_mcvars => TypeOK' /\ InPlace'
    <2> SUFFICES ASSUME TypeOK, InPlace, [MCNext]_mcvars PROVE TypeOK' /\ InPlace'
        OBVIOUS
    <2>1. TypeOK'
        BY ObservedStep, TypeStep
    <2>2. CASE MCNext
        BY <2>2, <2>1, ReadingInPlace DEF MCNext
    <2>3. CASE UNCHANGED mcvars
        BY <2>3, <2>1 DEF mcvars, vars, readPort, burst, InPlace
    <2> QED BY <2>1, <2>2, <2>3
  <1>3. TypeOK /\ InPlace => ReadKeepsPlace
    <2> SUFFICES ASSUME TypeOK, InPlace, read_state = "READ_BURST", last_out
                 PROVE  delivered = read_burst_len - 1
        BY DEF InPlace, ReadKeepsPlace
    <2>1. read_count = read_burst_len - 1 /\ read_burst_len > 0
        BY DEF last_out, LastBeat, TypeOK, Lens
    <2> QED BY <2>1 DEF InPlace
  <1> QED BY <1>1, <1>2, <1>3, PTL DEF MCSpec

\* Where the observer expects the next beat of the burst being written.
Headed == write_state = "WRITE_BURST" => heading = write_addr_reg

\* A beat goes where the observer expects it, and unless it is accepted in a
\* conflict it arrives.
LEMMA HeadedStep ==
    TypeOK /\ Headed /\ [MCNext]_mcvars =>
        TypeOK' /\ Headed' /\ (~astray /\ astray' => bank_conflict)
  <1> SUFFICES ASSUME TypeOK, Headed, [MCNext]_mcvars
               PROVE  Headed' /\ (~astray /\ astray' => bank_conflict)
      BY ObservedStep, TypeStep
  <1>1. CASE Writing
    <2>1. CASE WriteRest /\ UNCHANGED <<heading, cut, astray>>
        BY <2>1 DEF WriteRest, writePort, Headed
    <2>2. ASSUME NEW last \in BOOLEAN, Accept(last)
          PROVE  Headed' /\ (~astray /\ astray' => bank_conflict)
      <3>1. PICK b \in Banks, a \in Addrs, word \in Word :
                LET place == IF write_state = "IDLE" THEN <<b, a>>
                             ELSE <<write_bank_sel_reg, heading>>
                IN /\ WriteBeat(b, a, word, last)
                   /\ heading' = (place[2] + 1) % AddrSize
                   /\ LET missing == banks'[place[1]][place[2]] # word
                      IN /\ astray' = IF place = Observed THEN missing ELSE astray
                         /\ cut' = (~last /\ (cut \/ missing))
          BY <2>2 DEF Accept
      <3> DEFINE at == IF write_state = "IDLE" THEN <<b, a>>
                       ELSE <<write_bank_sel_reg, heading>>
      <3>2. /\ at[1] = WriteBank(b) /\ at[2] = WriteAddr(a)
            /\ at[1] \in Banks /\ at[2] \in Addrs
          BY DEF WriteBank, WriteAddr, Headed, TypeOK
      <3>3. /\ WriteBeat(b, a, word, last) /\ heading' = (at[2] + 1) % AddrSize
            /\ astray' = IF at = Observed THEN banks'[at[1]][at[2]] # word ELSE astray
          BY <3>1
      <3> HIDE DEF at
      <3>4. write_addr_reg' = heading'
          BY <3>2, <3>3 DEF WriteBeat, NextWriteAddr
      <3>5. ~bank_conflict => banks'[at[1]][at[2]] = word
          BY <3>2, <3>3 DEF WriteBeat, Stored, TypeOK
      <3> QED BY <3>3, <3>4, <3>5 DEF Headed
    <2> QED BY <1>1, <2>1, <2>2 DEF Writing
  <1>2. CASE UNCHANGED mcvars
      BY <1>2 DEF mcvars, vars, writePort, Headed
  <1> QED BY <1>1, <1>2 DEF MCNext

\* Every accepted word arrives at its address except in a conflict, and the
\* beats after it arrive where they would have.
THEOREM ConflictsCorrect == MCSpec => OnlyConflictsLose
  <1>1. MCInit => TypeOK /\ Headed
      BY BRAMAssumption DEF MCInit, Init, TypeOK, Headed, Banks, Addrs, Lens
  <1>2. TypeOK /\ Headed /\ [MCNext]_mcvars =>
            TypeOK' /\ Headed' /\ (~astray /\ astray' => bank_conflict)
      BY HeadedStep
  <1> QED BY <1>1, <1>2, PTL DEF MCSpec, OnlyConflictsLose

\* A burst that has lost a beat is in conflict, and stays so until it ends.
CutInConflict == cut => bank_conflict

\* In a conflict the reader waits where it is.
LEMMA ReaderWaits == ASSUME bank_conflict, ReadPort PROVE UNCHANGED readPort
  <1>1. read_state = "READ_BURST"
      BY DEF bank_conflict
  <1>2. ~ReadBeat
      BY DEF ReadBeat, valid_out
  <1>3. \A b \in Banks, a \in Addrs, len \in Lens : ~ReadRequest(b, a, len)
      BY <1>1 DEF ReadRequest, ready_out
  <1> QED BY <1>2, <1>3 DEF ReadPort, ReadRest

\* A burst that goes on stays in the conflict it is in.
LEMMA ConflictStays ==
    ASSUME bank_conflict, ReadPort, NEW b, NEW a, NEW word, WriteBeat(b, a, word, FALSE)
    PROVE  bank_conflict'
  <1>1. UNCHANGED <<read_state, read_bank_sel_reg>>
      BY ReaderWaits DEF readPort, burst
  <1>2. write_state' = "WRITE_BURST" /\ write_bank_sel_reg' = write_bank_sel_reg
      BY DEF WriteBeat, WriteBank, bank_conflict
  <1> QED BY <1>1, <1>2 DEF bank_conflict

\* A beat does not arrive only in a conflict, so that a burst which loses one
\* is in conflict to its end, and the beats after that one are lost as well:
\* what it leaves in memory is a prefix, for every number and size of banks.
THEOREM PrefixesCorrect == MCSpec => BurstsLeavePrefixes
  <1>1. MCInit => TypeOK /\ Headed /\ CutInConflict
      BY BRAMAssumption
         DEF MCInit, Init, TypeOK, Headed, CutInConflict, Banks, Addrs, Lens
  <1>2. TypeOK /\ Headed /\ CutInConflict /\ [MCNext]_mcvars =>
            TypeOK' /\ Headed' /\ CutInConflict' /\ (cut => banks' = banks)
    <2> SUFFICES ASSUME TypeOK, Headed, CutInConflict, [MCNext]_mcvars
                 PROVE  CutInConflict' /\ (cut => banks' = banks)
        BY HeadedStep, ObservedStep, TypeStep
    <2>1. CASE MCNext
      <3>1. ReadPort /\ Writing
          BY <2>1 DEF MCNext, Reading, Request, Beat, ReadPort
      <3>2. CASE WriteRest /\ UNCHANGED <<heading, cut, astray>>
        <4>1. bank_conflict => bank_conflict'
            BY <3>1, <3>2, ReaderWaits
               DEF readPort, burst, WriteRest, writePort, bank_conflict
        <4> QED BY <3>2, <4>1 DEF CutInConflict, WriteRest
      <3>3. ASSUME NEW last \in BOOLEAN, Accept(last)
            PROVE  CutInConflict' /\ (cut => banks' = banks)
        <4> DEFINE at(b, a) == IF write_state = "IDLE" THEN <<b, a>>
                               ELSE <<write_bank_sel_reg, heading>>
        <4>1. PICK b \in Banks, a \in Addrs, word \in Word :
                  /\ WriteBeat(b, a, word, last)
                  /\ cut' = (~last /\ (cut \/ banks'[at(b, a)[1]][at(b, a)[2]] # word))
            BY <3>3 DEF Accept
        <4>2. at(b, a)[1] = WriteBank(b) /\ at(b, a)[2] = WriteAddr(a)
            BY DEF WriteBank, WriteAddr, Headed, TypeOK
        <4>3. WriteBank(b) \in Banks /\ WriteAddr(a) \in Addrs
            BY DEF WriteBank, WriteAddr, TypeOK
        <4>4. banks' = Stored(WriteBank(b), WriteAddr(a), word)
            BY <4>1 DEF WriteBeat
        <4>5. ~bank_conflict => banks'[WriteBank(b)][WriteAddr(a)] = word
            BY <4>3, <4>4 DEF Stored, TypeOK
        <4>6. cut' => bank_conflict /\ ~last
            BY <4>1, <4>2, <4>5 DEF CutInConflict
        <4>7. cut' => bank_conflict'
            BY <3>1, <4>1, <4>6, ConflictStays
        <4>8. cut => banks' = banks
            BY <4>4 DEF Stored, CutInConflict
        <4> QED BY <4>7, <4>8 DEF CutInConflict
      <3> QED BY <3>1, <3>2, <3>3 DEF Writing
    <2>2. CASE UNCHANGED mcvars
        BY <2>2 DEF mcvars, vars, readPort, burst, writePort, CutInConflict, bank_conflict
    <2> QED BY <2>1, <2>2
  <1> QED BY <1>1, <1>2, PTL DEF MCSpec, BurstsLeavePrefixes
=============================================================================
