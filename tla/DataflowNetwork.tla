-------------------------- MODULE DataflowNetwork --------------------------
(***************************************************************************)
(* The processes of an HLS DATAFLOW region: C++ functions that run side by *)
(* side, restart as soon as they return, and meet only in bounded streams  *)
(* whose read blocks while they are empty and whose write blocks while     *)
(* they are full.                                                          *)
(*                                                                         *)
(* A function handles one row of NumBeats beats in each call.  Most read   *)
(* every input once and then write every output once, beat by beat; a      *)
(* row-wise one reads the whole row before it writes the first beat.  A    *)
(* process is where its streams' counts say it is: one action is one read  *)
(* or one write.                                                           *)
(***************************************************************************)
EXTENDS Integers, Sequences

CONSTANTS Processes,  \* the calls in the region
          Streams,    \* the streams they name, the region's ports included
          Ins,        \* the streams a process reads, in program order
          Outs,       \* the streams it writes, in program order
          RowWise,    \* the processes that read a row before they write one
          Depth,      \* what each stream holds at most
          NumBeats,   \* beats of a row
          MaxBeats    \* bound: beats the environment sends

\* A stream has one writer and one reader, as DATAFLOW demands.
ASSUME DataflowAssumption ==
    /\ Ins \in [Processes -> Seq(Streams)]
    /\ Outs \in [Processes -> Seq(Streams)]
    /\ \A p, q \in Processes :
           /\ \A i \in DOMAIN Ins[p], j \in DOMAIN Ins[q] :
                  Ins[p][i] = Ins[q][j] => p = q /\ i = j
           /\ \A i \in DOMAIN Outs[p], j \in DOMAIN Outs[q] :
                  Outs[p][i] = Outs[q][j] => p = q /\ i = j
    /\ RowWise \subseteq Processes
    /\ \A p \in RowWise : Len(Ins[p]) = 1 /\ Len(Outs[p]) = 1
    /\ Depth \in [Streams -> Nat \ {0}]
    /\ NumBeats \in Nat \ {0}
    /\ MaxBeats \in Nat

VARIABLES written,  \* beats written to each stream
          read      \* beats read from each stream
vars == <<written, read>>

Init == /\ written = [s \in Streams |-> 0]
        /\ read = [s \in Streams |-> 0]

\* What the region's ports are: streams no process writes, or none reads.
Named(ports) == {ports[i] : i \in DOMAIN ports}
Sources == Streams \ UNION {Named(Outs[p]) : p \in Processes}
Sinks == Streams \ UNION {Named(Ins[p]) : p \in Processes}

Held(s) == written[s] - read[s]

\* A slip: a stream one beat shorter than it counts.
RoomForOneMore(s) == Held(s) <= Depth[s]
HasRoom(s) == Held(s) < Depth[s]
HasBeat(s) == Held(s) > 0

\* Beats in whole rows among n.
InWholeRows(n) == NumBeats * (n \div NumBeats)

\* A row-wise process reads when it has written all the rows it has read, and
\* writes when a row it has read is not yet written.
RowRead(p) == written[Outs[p][1]] = InWholeRows(read[Ins[p][1]])
RowToWrite(p) == written[Outs[p][1]] < InWholeRows(read[Ins[p][1]])

\* The i-th read of an iteration comes after the reads before it and after the
\* last write of the iteration before; the i-th write after all the reads and
\* the writes before it.
BeatRead(p, i) ==
    LET n == read[Ins[p][i]]
    IN /\ \A j \in DOMAIN Ins[p] : read[Ins[p][j]] = IF j < i THEN n + 1 ELSE n
       /\ \A j \in DOMAIN Outs[p] : written[Outs[p][j]] = n

BeatToWrite(p, i) ==
    LET n == written[Outs[p][i]]
    IN /\ \A j \in DOMAIN Ins[p] : read[Ins[p][j]] = n + 1
       /\ \A j \in DOMAIN Outs[p] :
              written[Outs[p][j]] = IF j < i THEN n + 1 ELSE n

\* The call a process is at, and its stream lets it go on.
CanRead(p, i) == /\ IF p \in RowWise THEN RowRead(p) ELSE BeatRead(p, i)
                 /\ HasBeat(Ins[p][i])
CanWrite(p, i) == /\ IF p \in RowWise THEN RowToWrite(p) ELSE BeatToWrite(p, i)
                  /\ HasRoom(Outs[p][i])

Read(s) == read' = [read EXCEPT ![s] = @ + 1] /\ UNCHANGED written
Write(s) == written' = [written EXCEPT ![s] = @ + 1] /\ UNCHANGED read

Step(p) == \/ \E i \in DOMAIN Ins[p] : CanRead(p, i) /\ Read(Ins[p][i])
           \/ \E i \in DOMAIN Outs[p] : CanWrite(p, i) /\ Write(Outs[p][i])

\* The environment: what it sends, and what it takes.
Send == \E s \in Sources : written[s] < MaxBeats /\ HasRoom(s) /\ Write(s)
Take == \E s \in Sinks : HasBeat(s) /\ Read(s)

Next == (\E p \in Processes : Step(p)) \/ Send \/ Take

Spec == Init /\ [][Next]_vars

\* Each process is hardware of its own, and the reader of a sink returns.
FairSpec == Spec /\ WF_vars((\E p \in Processes : Step(p)) \/ Take)

-----------------------------------------------------------------------------
\* No stream underflows or holds more than its depth.
TypeOK == /\ written \in [Streams -> Nat]
          /\ read \in [Streams -> Nat]
          /\ \A s \in Streams : read[s] <= written[s] /\ Held(s) <= Depth[s]

\* A process is inside one row: a row-wise one has written no beat of a row it
\* has not read whole and read no beat of the row after one it has not written;
\* in any other, each stream is at most a beat ahead of those after it.
InsideRow(p) ==
    IF p \in RowWise
    THEN LET r == read[Ins[p][1]]
             w == written[Outs[p][1]]
         IN w <= InWholeRows(r) /\ r <= w + NumBeats
    ELSE /\ \A i \in DOMAIN Ins[p], j \in DOMAIN Outs[p] :
                read[Ins[p][i]] - written[Outs[p][j]] \in 0 .. 1
         /\ \A i, j \in DOMAIN Ins[p] :
                i < j => read[Ins[p][i]] - read[Ins[p][j]] \in 0 .. 1
         /\ \A i, j \in DOMAIN Outs[p] :
                i < j => written[Outs[p][i]] - written[Outs[p][j]] \in 0 .. 1

WithinOneRow == \A p \in Processes : InsideRow(p)

\* No process waits for another in a circle: when none can go on, and nothing
\* is left to take, every row sent in whole has been taken.
Blocked(p) == /\ \A i \in DOMAIN Ins[p] : ~CanRead(p, i)
              /\ \A i \in DOMAIN Outs[p] : ~CanWrite(p, i)

AtRest == /\ \A p \in Processes : Blocked(p)
          /\ \A d \in Sinks : ~HasBeat(d)

RestsOnlyWhenDone ==
    AtRest => \A s \in Sources, d \in Sinks : read[d] = InWholeRows(written[s])

\* Every row that has come in whole goes out whole.
RowsLeave ==
    \A s \in Sources, d \in Sinks, r \in 1 .. MaxBeats \div NumBeats :
        written[s] >= r * NumBeats ~> read[d] >= r * NumBeats
=============================================================================
