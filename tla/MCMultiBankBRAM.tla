-------------------------- MODULE MCMultiBankBRAM --------------------------
(***************************************************************************)
(* Two banks of two words, with what an observer of the two ports can      *)
(* tell: the place of the burst being read and of the one being written,   *)
(* counted in beats from its request, whether a beat of the latter has not *)
(* arrived, and whether the latest word accepted for one address is in the *)
(* memory.  Banks and addresses are alike, so one observed address stands  *)
(* for all.                                                                *)
(***************************************************************************)
EXTENDS MultiBankBRAM

MCWord == {0, 1}
Observed == <<0, 1>>  \* a bank and an address of it

VARIABLES from,      \* the address the burst being read was requested at
          delivered, \* beats of it taken, a zero-length burst going round the bank
          heading,   \* the address of the next beat of the burst being written
          cut,       \* a beat of that burst did not arrive
          astray     \* the latest word accepted for Observed did not arrive

mcvars == <<vars, from, delivered, heading, cut, astray>>

MCInit == Init /\ from = 0 /\ delivered = 0 /\ heading = 0
          /\ cut = FALSE /\ astray = FALSE

Request == /\ \E b \in Banks, a \in Addrs, len \in Lens :
                ReadRequest(b, a, len) /\ from' = a
           /\ delivered' = 0
Beat == /\ ReadBeat
        /\ delivered' = (delivered + 1) % (LenSize * AddrSize)
        /\ UNCHANGED from
Reading == Request \/ Beat \/ (ReadRest /\ UNCHANGED <<from, delivered>>)

Accept(last) ==
    \E b \in Banks, a \in Addrs, word \in Word :
        LET place == IF write_state = "IDLE" THEN <<b, a>>
                     ELSE <<write_bank_sel_reg, heading>>
        IN /\ WriteBeat(b, a, word, last)
           /\ heading' = (place[2] + 1) % AddrSize
           /\ LET missing == banks'[place[1]][place[2]] # word
              IN /\ astray' = IF place = Observed THEN missing ELSE astray
                 /\ cut' = (~last /\ (cut \/ missing))
Writing == \/ \E last \in BOOLEAN : Accept(last)
           \/ WriteRest /\ UNCHANGED <<heading, cut, astray>>

MCNext == Reading /\ Writing
MCSpec == MCInit /\ [][MCNext]_mcvars

\* A sink that keeps ready_in up, and a writer that ends the bursts it starts.
EndBurst == write_state = "WRITE_BURST" /\ Accept(TRUE) /\ Reading
MCFairSpec == MCSpec /\ SF_mcvars(Beat /\ Writing) /\ WF_mcvars(EndBurst)

-----------------------------------------------------------------------------
\* However often a burst is stalled by its sink or by a conflict, the word on
\* offer is the next one from where it was requested, none skipped or repeated,
\* and it ends after the beats it was asked for.
ReadKeepsPlace == read_state = "READ_BURST" =>
                      /\ read_addr_reg = (from + delivered) % AddrSize
                      /\ last_out => delivered = read_burst_len - 1

\* Every accepted word arrives at its address, except in a conflict.
OnlyConflictsLose == [][~astray /\ astray' => bank_conflict]_mcvars

\* A burst that has lost a beat stores none of the beats after it: the conflict
\* goes on until the burst ends.  What a burst leaves in memory has no hole, it
\* is the burst up to some beat.
BurstsLeavePrefixes == [][cut => banks' = banks]_mcvars

\* A burst of a beat or more is read to its end.
ReadBurstEnds == (read_state = "READ_BURST" /\ read_burst_len > 0) ~> ready_out
=============================================================================
