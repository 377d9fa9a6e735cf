------------------------ MODULE TransformerTopProofs -----------------------
(***************************************************************************)
(* First for every DATAFLOW network: no stream underflows or overflows,    *)
(* and a process is inside one row.  Then, from that, for the block: the   *)
(* residual streams never fill, and the network rests only when every      *)
(* whole row has left.                                                     *)
(***************************************************************************)
EXTENDS TransformerTop, TLAPS

IInv == TypeOK /\ WithinOneRow

-----------------------------------------------------------------------------
(* Rows. *)

\* The whole rows among n beats, and the beats beyond them.
LEMMA WholeRows == ASSUME NEW n \in Nat
                   PROVE  /\ InWholeRows(n) \in Nat
                          /\ InWholeRows(n) <= n
                          /\ n < InWholeRows(n) + NumBeats
<1>1. NumBeats \in Nat \ {0}
  BY DataflowAssumption
<1>2. n \div NumBeats \in Nat /\ n % NumBeats \in 0 .. NumBeats - 1
  BY <1>1
<1>3. n = NumBeats * (n \div NumBeats) + (n % NumBeats)
  BY <1>1
<1>4. NumBeats * (n \div NumBeats) \in Nat
  BY <1>1, <1>2
<1>.  QED  BY <1>1, <1>2, <1>3, <1>4 DEF InWholeRows

\* A multiple of the row's size is the whole rows of what lies less than a row
\* above it.
LEMMA MultipleIsWhole ==
    ASSUME NEW n \in Nat, NEW q \in Nat,
           NumBeats * q <= n, n < NumBeats * q + NumBeats
    PROVE  InWholeRows(n) = NumBeats * q
<1>1. NumBeats \in Nat \ {0}
  BY DataflowAssumption
<1>2. n \div NumBeats \in Nat /\ n % NumBeats \in 0 .. NumBeats - 1
  BY <1>1
<1>3. n = NumBeats * (n \div NumBeats) + (n % NumBeats)
  BY <1>1
<1>4. /\ NumBeats * q < NumBeats * (n \div NumBeats) + NumBeats
      /\ NumBeats * (n \div NumBeats) < NumBeats * q + NumBeats
  BY <1>1, <1>2, <1>3
<1>5. CASE q > n \div NumBeats
  <2>1. NumBeats * q >= NumBeats * (n \div NumBeats + 1)
    BY <1>1, <1>2, <1>5
  <2>2. NumBeats * (n \div NumBeats + 1) = NumBeats * (n \div NumBeats) + NumBeats
    BY <1>1, <1>2
  <2>.  QED  BY <1>1, <1>2, <1>4, <2>1, <2>2
<1>6. CASE q < n \div NumBeats
  <2>1. NumBeats * (n \div NumBeats) >= NumBeats * (q + 1)
    BY <1>1, <1>2, <1>6
  <2>2. NumBeats * (q + 1) = NumBeats * q + NumBeats
    BY <1>1
  <2>.  QED  BY <1>1, <1>2, <1>4, <2>1, <2>2
<1>7. CASE q = n \div NumBeats
  BY <1>7 DEF InWholeRows
<1>.  QED  BY <1>2, <1>5, <1>6, <1>7

LEMMA WholeOfWhole == ASSUME NEW n \in Nat
                      PROVE  InWholeRows(InWholeRows(n)) = InWholeRows(n)
<1>0. NumBeats \in Nat \ {0}
  BY DataflowAssumption
<1>1. n \div NumBeats \in Nat
  BY <1>0
<1>2. InWholeRows(n) = NumBeats * (n \div NumBeats) /\ InWholeRows(n) \in Nat
  BY WholeRows DEF InWholeRows
<1>3. InWholeRows(InWholeRows(n)) = NumBeats * (n \div NumBeats)
  BY <1>0, <1>1, <1>2, MultipleIsWhole
<1>.  QED  BY <1>2, <1>3

\* One more beat can only complete a row.
LEMMA WholeRowsGrow == ASSUME NEW n \in Nat
                       PROVE  InWholeRows(n) <= InWholeRows(n + 1)
<1>0. NumBeats \in Nat \ {0}
  BY DataflowAssumption
<1>1. n \div NumBeats \in Nat
  BY <1>0
<1>2. /\ InWholeRows(n) = NumBeats * (n \div NumBeats)
      /\ InWholeRows(n) \in Nat /\ InWholeRows(n) <= n
      /\ n < InWholeRows(n) + NumBeats
  BY WholeRows DEF InWholeRows
<1>3. CASE n + 1 < InWholeRows(n) + NumBeats
  BY <1>0, <1>1, <1>2, <1>3, MultipleIsWhole
<1>4. CASE n + 1 = InWholeRows(n) + NumBeats
  <2>1. n + 1 = NumBeats * (n \div NumBeats + 1)
    BY <1>0, <1>1, <1>2, <1>4
  <2>2. InWholeRows(n + 1) = n + 1
    BY <1>0, <1>1, <2>1, MultipleIsWhole
  <2>.  QED  BY <1>2, <2>2
<1>.  QED  BY <1>0, <1>1, <1>2, <1>3, <1>4

-----------------------------------------------------------------------------
(* Every network. *)

\* Where the ports of a process lead.
LEMMA Ports == ASSUME NEW p \in Processes
               PROVE  /\ \A i \in DOMAIN Ins[p] : Ins[p][i] \in Streams
                      /\ \A i \in DOMAIN Outs[p] : Outs[p][i] \in Streams
                      /\ DOMAIN Ins[p] = 1 .. Len(Ins[p]) /\ Len(Ins[p]) \in Nat
                      /\ DOMAIN Outs[p] = 1 .. Len(Outs[p]) /\ Len(Outs[p]) \in Nat
<1>1. Ins[p] \in Seq(Streams) /\ Outs[p] \in Seq(Streams)
  BY DataflowAssumption
<1>.  QED  BY <1>1

LEMMA InitIInv == Init => IInv
<1>. SUFFICES ASSUME Init PROVE IInv
  OBVIOUS
<1>1. TypeOK
  BY DataflowAssumption DEF Init, TypeOK, Held
<1>2. ASSUME NEW p \in Processes PROVE InsideRow(p)
  <2>1. /\ \A i \in DOMAIN Ins[p] : read[Ins[p][i]] = 0
        /\ \A i \in DOMAIN Outs[p] : written[Outs[p][i]] = 0
    BY Ports DEF Init
  <2>2. CASE p \in RowWise
    <3>1. 1 \in DOMAIN Ins[p] /\ 1 \in DOMAIN Outs[p]
      BY <2>2, Ports, DataflowAssumption
    <3>2. InWholeRows(0) \in Nat
      BY WholeRows
    <3>.  QED  BY <2>1, <2>2, <3>1, <3>2, DataflowAssumption DEF InsideRow
  <2>3. CASE p \notin RowWise
    BY <2>1, <2>3 DEF InsideRow
  <2>.  QED  BY <2>2, <2>3
<1>.  QED  BY <1>1, <1>2 DEF IInv, WithinOneRow

\* A stream no process reads, or writes, can move without any process noticing.
LEMMA ReadElsewhere ==
    ASSUME NEW p \in Processes, NEW s \in Streams, TypeOK, InsideRow(p),
           \A i \in DOMAIN Ins[p] : Ins[p][i] # s, Read(s)
    PROVE  InsideRow(p)'
<1>1. /\ \A i \in DOMAIN Ins[p] : read'[Ins[p][i]] = read[Ins[p][i]]
      /\ written' = written
  BY Ports DEF Read, TypeOK
<1>2. CASE p \in RowWise
  <2>1. 1 \in DOMAIN Ins[p]
    BY <1>2, Ports, DataflowAssumption
  <2>.  QED  BY <1>1, <1>2, <2>1 DEF InsideRow, InWholeRows
<1>3. CASE p \notin RowWise
  BY <1>1, <1>3 DEF InsideRow
<1>.  QED  BY <1>2, <1>3

LEMMA WriteElsewhere ==
    ASSUME NEW p \in Processes, NEW s \in Streams, TypeOK, InsideRow(p),
           \A i \in DOMAIN Outs[p] : Outs[p][i] # s, Write(s)
    PROVE  InsideRow(p)'
<1>1. /\ \A i \in DOMAIN Outs[p] : written'[Outs[p][i]] = written[Outs[p][i]]
      /\ read' = read
  BY Ports DEF Write, TypeOK
<1>2. CASE p \in RowWise
  <2>1. 1 \in DOMAIN Outs[p]
    BY <1>2, Ports, DataflowAssumption
  <2>.  QED  BY <1>1, <1>2, <2>1 DEF InsideRow, InWholeRows
<1>3. CASE p \notin RowWise
  BY <1>1, <1>3 DEF InsideRow
<1>.  QED  BY <1>2, <1>3

\* A read in turn keeps its process inside one row, and so does a write.
LEMMA ReadInside ==
    ASSUME NEW p \in Processes, NEW i \in DOMAIN Ins[p], TypeOK, InsideRow(p),
           CanRead(p, i), Read(Ins[p][i])
    PROVE  InsideRow(p)'
<1>. DEFINE s == Ins[p][i]
<1>1. /\ \A j \in DOMAIN Ins[p] :
             /\ read[Ins[p][j]] \in Nat
             /\ read'[Ins[p][j]] = IF j = i THEN read[Ins[p][j]] + 1
                                   ELSE read[Ins[p][j]]
      /\ \A j \in DOMAIN Outs[p] : written[Outs[p][j]] \in Nat
      /\ written' = written
  <2>1. \A j \in DOMAIN Ins[p] : Ins[p][j] = s => j = i
    BY DataflowAssumption
  <2>.  QED  BY <2>1, Ports DEF Read, TypeOK
<1>2. CASE p \in RowWise
  <2>1. i = 1 /\ 1 \in DOMAIN Ins[p] /\ 1 \in DOMAIN Outs[p]
    BY <1>2, Ports, DataflowAssumption
  <2>. DEFINE r == read[Ins[p][1]]
              w == written[Outs[p][1]]
  <2>2. r \in Nat /\ w \in Nat /\ r' = r + 1 /\ w' = w
    BY <1>1, <2>1
  <2>3. w = InWholeRows(r)
    BY <1>2 DEF CanRead, RowRead
  <2>4. r < w + NumBeats /\ w <= InWholeRows(r + 1)
    BY <2>2, <2>3, WholeRows, WholeRowsGrow
  <2>5. w' <= InWholeRows(r') /\ r' <= w' + NumBeats
    BY <2>2, <2>4, DataflowAssumption
  <2>.  QED  BY <1>2, <2>5 DEF InsideRow, InWholeRows
<1>3. CASE p \notin RowWise
  <2>1. /\ \A j \in DOMAIN Ins[p] :
               read[Ins[p][j]] = IF j < i THEN read[s] + 1 ELSE read[s]
        /\ \A j \in DOMAIN Outs[p] : written[Outs[p][j]] = read[s]
    BY <1>3 DEF CanRead, BeatRead
  <2>2. /\ \A j \in DOMAIN Ins[p] :
               read'[Ins[p][j]] = IF j <= i THEN read[s] + 1 ELSE read[s]
        /\ read[s] \in Nat /\ i \in Nat /\ DOMAIN Ins[p] \subseteq Nat
    BY <1>1, <2>1, Ports
  <2>3. \A j \in DOMAIN Ins[p], m \in DOMAIN Outs[p] :
            read'[Ins[p][j]] - written'[Outs[p][m]] \in 0 .. 1
    BY <1>1, <2>1, <2>2
  <2>4. \A j, m \in DOMAIN Ins[p] :
            j < m => read'[Ins[p][j]] - read'[Ins[p][m]] \in 0 .. 1
    BY <2>2
  <2>5. \A j, m \in DOMAIN Outs[p] :
            j < m => written'[Outs[p][j]] - written'[Outs[p][m]] \in 0 .. 1
    BY <1>1, <1>3 DEF InsideRow
  <2>.  QED  BY <1>3, <2>3, <2>4, <2>5 DEF InsideRow
<1>.  QED  BY <1>2, <1>3

LEMMA WriteInside ==
    ASSUME NEW p \in Processes, NEW i \in DOMAIN Outs[p], TypeOK, InsideRow(p),
           CanWrite(p, i), Write(Outs[p][i])
    PROVE  InsideRow(p)'
<1>. DEFINE s == Outs[p][i]
<1>1. /\ \A j \in DOMAIN Outs[p] :
             /\ written[Outs[p][j]] \in Nat
             /\ written'[Outs[p][j]] = IF j = i THEN written[Outs[p][j]] + 1
                                       ELSE written[Outs[p][j]]
      /\ \A j \in DOMAIN Ins[p] : read[Ins[p][j]] \in Nat
      /\ read' = read
  <2>1. \A j \in DOMAIN Outs[p] : Outs[p][j] = s => j = i
    BY DataflowAssumption
  <2>.  QED  BY <2>1, Ports DEF Write, TypeOK
<1>2. CASE p \in RowWise
  <2>1. i = 1 /\ 1 \in DOMAIN Ins[p] /\ 1 \in DOMAIN Outs[p]
    BY <1>2, Ports, DataflowAssumption
  <2>. DEFINE r == read[Ins[p][1]]
              w == written[Outs[p][1]]
  <2>2. r \in Nat /\ w \in Nat /\ r' = r /\ w' = w + 1
    BY <1>1, <2>1
  <2>3. w < InWholeRows(r)
    BY <1>2 DEF CanWrite, RowToWrite
  <2>4. r <= w + NumBeats /\ InWholeRows(r) \in Nat /\ NumBeats \in Nat
    BY <1>2, <2>2, WholeRows, DataflowAssumption DEF InsideRow
  <2>5. w' <= InWholeRows(r') /\ r' <= w' + NumBeats
    BY <2>2, <2>3, <2>4
  <2>.  QED  BY <1>2, <2>5 DEF InsideRow, InWholeRows
<1>3. CASE p \notin RowWise
  <2>1. /\ \A j \in DOMAIN Ins[p] : read[Ins[p][j]] = written[s] + 1
        /\ \A j \in DOMAIN Outs[p] :
               written[Outs[p][j]] = IF j < i THEN written[s] + 1 ELSE written[s]
    BY <1>3 DEF CanWrite, BeatToWrite
  <2>2. /\ \A j \in DOMAIN Outs[p] :
               written'[Outs[p][j]] = IF j <= i THEN written[s] + 1 ELSE written[s]
        /\ written[s] \in Nat /\ i \in Nat /\ DOMAIN Outs[p] \subseteq Nat
    BY <1>1, <2>1, Ports
  <2>3. \A j \in DOMAIN Ins[p], m \in DOMAIN Outs[p] :
            read'[Ins[p][j]] - written'[Outs[p][m]] \in 0 .. 1
    BY <1>1, <2>1, <2>2
  <2>4. \A j, m \in DOMAIN Outs[p] :
            j < m => written'[Outs[p][j]] - written'[Outs[p][m]] \in 0 .. 1
    BY <2>2
  <2>5. \A j, m \in DOMAIN Ins[p] :
            j < m => read'[Ins[p][j]] - read'[Ins[p][m]] \in 0 .. 1
    BY <1>1, <1>3 DEF InsideRow
  <2>.  QED  BY <1>3, <2>3, <2>4, <2>5 DEF InsideRow
<1>.  QED  BY <1>2, <1>3

\* One step of anything.
LEMMA ReadIInv ==
    ASSUME IInv, NEW s \in Streams, HasBeat(s), Read(s),
           \A p \in Processes : \A i \in DOMAIN Ins[p] :
               Ins[p][i] = s => CanRead(p, i)
    PROVE  IInv'
<1>1. TypeOK'
  <2>1. read' \in [Streams -> Nat] /\ written' = written
    BY DEF IInv, TypeOK, Read
  <2>2. ASSUME NEW x \in Streams
        PROVE  read'[x] <= written'[x] /\ written'[x] - read'[x] <= Depth[x]
    <3>1. /\ read[x] \in Nat /\ written[x] \in Nat /\ Depth[x] \in Nat
          /\ read[x] <= written[x] /\ written[x] - read[x] <= Depth[x]
      BY DataflowAssumption DEF IInv, TypeOK, Held
    <3>2. read'[x] = IF x = s THEN read[x] + 1 ELSE read[x]
      BY DEF IInv, TypeOK, Read
    <3>3. x = s => written[x] - read[x] > 0
      BY DEF HasBeat, Held
    <3>.  QED  BY <2>1, <3>1, <3>2, <3>3
  <2>.  QED  BY <2>1, <2>2 DEF IInv, TypeOK, Held
<1>2. ASSUME NEW p \in Processes PROVE InsideRow(p)'
  <2>1. TypeOK /\ InsideRow(p)
    BY DEF IInv, WithinOneRow
  <2>2. CASE \E i \in DOMAIN Ins[p] : Ins[p][i] = s
    BY <2>1, <2>2, ReadInside
  <2>3. CASE \A i \in DOMAIN Ins[p] : Ins[p][i] # s
    BY <2>1, <2>3, ReadElsewhere
  <2>.  QED  BY <2>2, <2>3
<1>.  QED  BY <1>1, <1>2 DEF IInv, WithinOneRow

LEMMA WriteIInv ==
    ASSUME IInv, NEW s \in Streams, HasRoom(s), Write(s),
           \A p \in Processes : \A i \in DOMAIN Outs[p] :
               Outs[p][i] = s => CanWrite(p, i)
    PROVE  IInv'
<1>1. TypeOK'
  <2>1. written' \in [Streams -> Nat] /\ read' = read
    BY DEF IInv, TypeOK, Write
  <2>2. ASSUME NEW x \in Streams
        PROVE  read'[x] <= written'[x] /\ written'[x] - read'[x] <= Depth[x]
    <3>1. /\ read[x] \in Nat /\ written[x] \in Nat /\ Depth[x] \in Nat
          /\ read[x] <= written[x] /\ written[x] - read[x] <= Depth[x]
      BY DataflowAssumption DEF IInv, TypeOK, Held
    <3>2. written'[x] = IF x = s THEN written[x] + 1 ELSE written[x]
      BY DEF IInv, TypeOK, Write
    <3>3. x = s => written[x] - read[x] < Depth[x]
      BY DEF HasRoom, Held
    <3>.  QED  BY <2>1, <3>1, <3>2, <3>3
  <2>.  QED  BY <2>1, <2>2 DEF IInv, TypeOK, Held
<1>2. ASSUME NEW p \in Processes PROVE InsideRow(p)'
  <2>1. TypeOK /\ InsideRow(p)
    BY DEF IInv, WithinOneRow
  <2>2. CASE \E i \in DOMAIN Outs[p] : Outs[p][i] = s
    BY <2>1, <2>2, WriteInside
  <2>3. CASE \A i \in DOMAIN Outs[p] : Outs[p][i] # s
    BY <2>1, <2>3, WriteElsewhere
  <2>.  QED  BY <2>2, <2>3
<1>.  QED  BY <1>1, <1>2 DEF IInv, WithinOneRow

LEMMA NextIInv == IInv /\ [Next]_vars => IInv'
<1>. SUFFICES ASSUME IInv, [Next]_vars PROVE IInv'
  OBVIOUS
<1>1. ASSUME NEW p \in Processes, NEW i \in DOMAIN Ins[p],
             CanRead(p, i), Read(Ins[p][i])
      PROVE  IInv'
  <2>1. Ins[p][i] \in Streams /\ HasBeat(Ins[p][i])
    BY <1>1, Ports DEF CanRead
  <2>2. \A q \in Processes : \A j \in DOMAIN Ins[q] :
            Ins[q][j] = Ins[p][i] => CanRead(q, j)
    BY <1>1, DataflowAssumption
  <2>.  QED  BY <1>1, <2>1, <2>2, ReadIInv
<1>2. ASSUME NEW p \in Processes, NEW i \in DOMAIN Outs[p],
             CanWrite(p, i), Write(Outs[p][i])
      PROVE  IInv'
  <2>1. Outs[p][i] \in Streams /\ HasRoom(Outs[p][i])
    BY <1>2, Ports DEF CanWrite
  <2>2. \A q \in Processes : \A j \in DOMAIN Outs[q] :
            Outs[q][j] = Outs[p][i] => CanWrite(q, j)
    BY <1>2, DataflowAssumption
  <2>.  QED  BY <1>2, <2>1, <2>2, WriteIInv
<1>3. CASE Send
  <2>1. PICK s \in Sources : HasRoom(s) /\ Write(s)
    BY <1>3 DEF Send
  <2>2. s \in Streams /\ \A p \in Processes : \A i \in DOMAIN Outs[p] : Outs[p][i] # s
    BY <2>1 DEF Sources, Named
  <2>.  QED  BY <2>1, <2>2, WriteIInv
<1>4. CASE Take
  <2>1. PICK s \in Sinks : HasBeat(s) /\ Read(s)
    BY <1>4 DEF Take
  <2>2. s \in Streams /\ \A p \in Processes : \A i \in DOMAIN Ins[p] : Ins[p][i] # s
    BY <2>1 DEF Sinks, Named
  <2>.  QED  BY <2>1, <2>2, ReadIInv
<1>5. CASE UNCHANGED vars
  BY <1>5 DEF vars, IInv, TypeOK, Held, WithinOneRow, InsideRow, InWholeRows
<1>.  QED  BY <1>1, <1>2, <1>3, <1>4, <1>5 DEF Next, Step

\* In every network no stream underflows or holds more than its depth.
THEOREM StreamsCorrect == Spec => []TypeOK
<1>.  QED  BY InitIInv, NextIInv, PTL DEF Spec, IInv

\* In every network a process is inside one row.
THEOREM WithinOneRowCorrect == Spec => []WithinOneRow
<1>.  QED  BY InitIInv, NextIInv, PTL DEF Spec, IInv

-----------------------------------------------------------------------------
(* Stages, by the number of their streams. *)

\* A process that reads one stream and writes one: a beat at a time, ...
LEMMA PassStage ==
    ASSUME IInv, NEW p \in Processes, p \notin RowWise, NEW a, NEW b,
           Ins[p] = <<a>>, Outs[p] = <<b>>
    PROVE  /\ read[a] - written[b] \in 0 .. 1
           /\ Blocked(p) => \/ read[a] = written[b] /\ ~HasBeat(a)
                            \/ read[a] = written[b] + 1 /\ ~HasRoom(b)
<1>1. /\ DOMAIN Ins[p] = {1} /\ DOMAIN Outs[p] = {1}
      /\ \A j \in DOMAIN Ins[p] : j = 1
      /\ \A j \in DOMAIN Outs[p] : j = 1
      /\ Ins[p][1] = a /\ Outs[p][1] = b
  OBVIOUS
<1>2. read[a] - written[b] \in 0 .. 1 /\ read[a] \in Nat /\ written[b] \in Nat
  BY <1>1, Ports DEF IInv, TypeOK, WithinOneRow, InsideRow
<1>3. ASSUME read[a] = written[b], HasBeat(a) PROVE CanRead(p, 1)
  <2>1. ASSUME NEW j \in DOMAIN Ins[p] PROVE j = 1 /\ read[Ins[p][j]] = read[a]
    <3>1. j = 1
      BY <1>1
    <3>.  QED  BY <1>1, <1>3, <3>1
  <2>2. ASSUME NEW j \in DOMAIN Outs[p] PROVE written[Outs[p][j]] = read[a]
    BY <1>1, <1>3
  <2>.  QED  BY <1>1, <1>3, <2>1, <2>2 DEF CanRead, BeatRead
<1>4. ASSUME read[a] = written[b] + 1, HasRoom(b) PROVE CanWrite(p, 1)
  <2>1. ASSUME NEW j \in DOMAIN Ins[p] PROVE read[Ins[p][j]] = written[b] + 1
    BY <1>1, <1>4
  <2>2. ASSUME NEW j \in DOMAIN Outs[p]
        PROVE  j = 1 /\ written[Outs[p][j]] = written[b]
    <3>1. j = 1
      BY <1>1
    <3>.  QED  BY <1>1, <1>4, <3>1
  <2>.  QED  BY <1>1, <1>4, <2>1, <2>2 DEF CanWrite, BeatToWrite
<1>.  QED  BY <1>1, <1>2, <1>3, <1>4 DEF Blocked

\* ... or a row at a time.
LEMMA RowStage ==
    ASSUME IInv, NEW p \in RowWise, NEW a, NEW b,
           Ins[p] = <<a>>, Outs[p] = <<b>>
    PROVE  /\ written[b] <= read[a] /\ read[a] <= written[b] + NumBeats
           /\ Blocked(p) => \/ written[b] = InWholeRows(read[a]) /\ ~HasBeat(a)
                            \/ ~HasRoom(b)
<1>1. /\ p \in Processes
      /\ DOMAIN Ins[p] = {1} /\ DOMAIN Outs[p] = {1}
      /\ Ins[p][1] = a /\ Outs[p][1] = b
  BY DataflowAssumption
<1>2. /\ written[b] <= InWholeRows(read[a]) /\ read[a] <= written[b] + NumBeats
      /\ read[a] \in Nat /\ written[b] \in Nat
  BY <1>1, Ports DEF IInv, TypeOK, WithinOneRow, InsideRow
<1>3. InWholeRows(read[a]) <= read[a] /\ InWholeRows(read[a]) \in Nat
  BY <1>2, WholeRows
<1>4. /\ written[b] = InWholeRows(read[a]) /\ HasBeat(a) => CanRead(p, 1)
      /\ written[b] < InWholeRows(read[a]) /\ HasRoom(b) => CanWrite(p, 1)
  BY <1>1 DEF CanRead, CanWrite, RowRead, RowToWrite
<1>.  QED  BY <1>1, <1>2, <1>3, <1>4, DataflowAssumption DEF Blocked

\* A fork.
LEMMA ForkStage ==
    ASSUME IInv, NEW p \in Processes, p \notin RowWise, NEW a, NEW b, NEW c,
           Ins[p] = <<a>>, Outs[p] = <<b, c>>
    PROVE  /\ read[a] - written[b] \in 0 .. 1
           /\ written[b] - written[c] \in 0 .. 1
           /\ read[a] - written[c] \in 0 .. 1
           /\ Blocked(p) =>
                \/ read[a] = written[b] /\ read[a] = written[c] /\ ~HasBeat(a)
                \/ ~HasRoom(b)
                \/ ~HasRoom(c)
<1>1. /\ DOMAIN Ins[p] = {1} /\ DOMAIN Outs[p] = {1, 2}
      /\ 1 \in DOMAIN Outs[p] /\ 2 \in DOMAIN Outs[p] /\ 1 \in DOMAIN Ins[p]
      /\ \A j \in DOMAIN Ins[p] : j = 1
      /\ \A j \in DOMAIN Outs[p] : j = 1 \/ j = 2
      /\ Ins[p][1] = a /\ Outs[p][1] = b /\ Outs[p][2] = c
  OBVIOUS
<1>2. /\ read[a] - written[b] \in 0 .. 1 /\ read[a] - written[c] \in 0 .. 1
      /\ written[b] - written[c] \in 0 .. 1
      /\ read[a] \in Nat /\ written[b] \in Nat /\ written[c] \in Nat
  <2>1. InsideRow(p)
    BY DEF IInv, WithinOneRow
  <2>2. /\ \A i \in DOMAIN Ins[p] : read[Ins[p][i]] \in Nat
        /\ \A j \in DOMAIN Outs[p] : written[Outs[p][j]] \in Nat
    BY Ports DEF IInv, TypeOK
  <2>.  QED  BY <1>1, <2>1, <2>2 DEF InsideRow
<1>3. ASSUME read[a] = written[b], read[a] = written[c], HasBeat(a)
      PROVE  CanRead(p, 1)
  <2>1. ASSUME NEW j \in DOMAIN Ins[p] PROVE j = 1 /\ read[Ins[p][j]] = read[a]
    <3>1. j = 1
      BY <1>1
    <3>.  QED  BY <1>1, <1>3, <3>1
  <2>2. ASSUME NEW j \in DOMAIN Outs[p] PROVE written[Outs[p][j]] = read[a]
    BY <1>1, <1>3
  <2>.  QED  BY <1>1, <1>3, <2>1, <2>2 DEF CanRead, BeatRead
<1>4. read[a] = written[b] + 1 /\ read[a] = written[c] + 1 /\ HasRoom(b)
          => CanWrite(p, 1)
  BY <1>1, <1>2 DEF CanWrite, BeatToWrite
<1>5. ASSUME read[a] = written[b], read[a] = written[c] + 1, HasRoom(c)
      PROVE  CanWrite(p, 2)
  <2>1. ASSUME NEW j \in DOMAIN Ins[p] PROVE read[Ins[p][j]] = written[c] + 1
    BY <1>1, <1>5
  <2>2. ASSUME NEW j \in DOMAIN Outs[p]
        PROVE  written[Outs[p][j]] = IF j < 2 THEN written[c] + 1 ELSE written[c]
    <3>1. CASE j = 1
      <4>1. j < 2 /\ Outs[p][j] = b
        BY <1>1, <3>1
      <4>.  QED  BY <1>5, <4>1
    <3>2. CASE j = 2
      <4>1. ~(j < 2) /\ Outs[p][j] = c
        BY <1>1, <3>2
      <4>.  QED  BY <4>1
    <3>.  QED  BY <1>1, <3>1, <3>2
  <2>.  QED  BY <1>1, <1>5, <2>1, <2>2 DEF CanWrite, BeatToWrite
<1>.  QED  BY <1>1, <1>2, <1>3, <1>4, <1>5 DEF Blocked

\* A join.
LEMMA JoinStage ==
    ASSUME IInv, NEW p \in Processes, p \notin RowWise, NEW a, NEW b, NEW c,
           Ins[p] = <<a, b>>, Outs[p] = <<c>>
    PROVE  /\ read[a] - written[c] \in 0 .. 1
           /\ read[a] - read[b] \in 0 .. 1
           /\ read[b] - written[c] \in 0 .. 1
           /\ Blocked(p) =>
                \/ read[a] = written[c] /\ read[b] = read[a] /\ ~HasBeat(a)
                \/ read[a] = read[b] + 1 /\ ~HasBeat(b)
                \/ ~HasRoom(c)
<1>1. /\ DOMAIN Ins[p] = {1, 2} /\ DOMAIN Outs[p] = {1}
      /\ 1 \in DOMAIN Ins[p] /\ 2 \in DOMAIN Ins[p] /\ 1 \in DOMAIN Outs[p]
      /\ \A j \in DOMAIN Ins[p] : j = 1 \/ j = 2
      /\ \A j \in DOMAIN Outs[p] : j = 1
      /\ Ins[p][1] = a /\ Ins[p][2] = b /\ Outs[p][1] = c
  OBVIOUS
<1>2. /\ read[a] - written[c] \in 0 .. 1 /\ read[b] - written[c] \in 0 .. 1
      /\ read[a] - read[b] \in 0 .. 1
      /\ read[a] \in Nat /\ read[b] \in Nat /\ written[c] \in Nat
  <2>1. InsideRow(p)
    BY DEF IInv, WithinOneRow
  <2>2. /\ \A i \in DOMAIN Ins[p] : read[Ins[p][i]] \in Nat
        /\ \A j \in DOMAIN Outs[p] : written[Outs[p][j]] \in Nat
    BY Ports DEF IInv, TypeOK
  <2>.  QED  BY <1>1, <2>1, <2>2 DEF InsideRow
<1>3. read[a] = written[c] /\ read[b] = read[a] /\ HasBeat(a) => CanRead(p, 1)
  BY <1>1 DEF CanRead, BeatRead
<1>4. read[a] = read[b] + 1 /\ read[b] = written[c] /\ HasBeat(b) => CanRead(p, 2)
  BY <1>1, <1>2 DEF CanRead, BeatRead
<1>5. read[a] = written[c] + 1 /\ read[b] = read[a] /\ HasRoom(c) => CanWrite(p, 1)
  BY <1>1, <1>2 DEF CanWrite, BeatToWrite
<1>.  QED  BY <1>1, <1>2, <1>3, <1>4, <1>5 DEF Blocked

-----------------------------------------------------------------------------
(* The block. *)

LEMMA TopPorts ==
      /\ Ins["fan_out1"] = <<"in">> /\ Outs["fan_out1"] = <<"s_fifo1", "s_norm1_in">>
      /\ Ins["fifo1"] = <<"s_fifo1">> /\ Outs["fifo1"] = <<"s_fifo1_out">>
      /\ Ins["norm1"] = <<"s_norm1_in">> /\ Outs["norm1"] = <<"s_norm1_out">>
      /\ Ins["gemm1"] = <<"s_norm1_out">> /\ Outs["gemm1"] = <<"s_gemm1_out">>
      /\ Ins["softmax"] = <<"s_gemm1_out">> /\ Outs["softmax"] = <<"s_softmax_out">>
      /\ Ins["gemm2"] = <<"s_softmax_out">> /\ Outs["gemm2"] = <<"s_gemm2_out">>
      /\ Ins["alu1"] = <<"s_gemm2_out", "s_fifo1_out">> /\ Outs["alu1"] = <<"s_alu1">>
      /\ Ins["alu1_fifo"] = <<"s_alu1">> /\ Outs["alu1_fifo"] = <<"s_alu1_fifo">>
      /\ Ins["fan_out2"] = <<"s_alu1_fifo">> /\ Outs["fan_out2"] = <<"s_fifo2", "s_norm2_in">>
      /\ Ins["fifo2"] = <<"s_fifo2">> /\ Outs["fifo2"] = <<"s_fifo2_out">>
      /\ Ins["norm2"] = <<"s_norm2_in">> /\ Outs["norm2"] = <<"s_norm2_out">>
      /\ Ins["gemm3"] = <<"s_norm2_out">> /\ Outs["gemm3"] = <<"s_gemm3_out">>
      /\ Ins["relu"] = <<"s_gemm3_out">> /\ Outs["relu"] = <<"s_relu_out">>
      /\ Ins["gemm4"] = <<"s_relu_out">> /\ Outs["gemm4"] = <<"s_gemm4_out">>
      /\ Ins["alu2"] = <<"s_gemm4_out", "s_fifo2_out">> /\ Outs["alu2"] = <<"s_alu2_fifo">>
      /\ Ins["alu2_fifo"] = <<"s_alu2_fifo">> /\ Outs["alu2_fifo"] = <<"out">>
BY TopAssumption DEF TopIns, TopOuts

LEMMA TopKinds ==
      /\ Processes = RowWise \cup {"fan_out1", "fifo1", "alu1", "alu1_fifo",
                                   "fan_out2", "fifo2", "relu", "alu2", "alu2_fifo"}
      /\ RowWise = {"norm1", "gemm1", "softmax", "gemm2", "norm2", "gemm3", "gemm4"}
BY TopAssumption DEF TopProcesses, TopIns, TopRowWise

\* What a stream holds is between nothing and its depth.
LEMMA StreamBounds ==
    ASSUME IInv, NEW s \in Streams
    PROVE  /\ read[s] \in Nat /\ written[s] \in Nat
           /\ read[s] <= written[s] /\ written[s] <= read[s] + Depth[s]
BY DataflowAssumption DEF IInv, TypeOK, Held

LEMMA TopDepths ==
    /\ Depth["s_fifo1"] = 80 /\ Depth["s_fifo2"] = 48
    /\ Depth["s_alu1_fifo"] = 48 /\ Depth["s_alu2_fifo"] = 32
    /\ \A s \in {"s_norm1_in", "s_norm1_out", "s_gemm1_out", "s_softmax_out",
                 "s_gemm2_out", "s_fifo1_out", "s_alu1", "s_norm2_in",
                 "s_norm2_out", "s_gemm3_out", "s_relu_out", "s_gemm4_out",
                 "s_fifo2_out"} : s \in Streams /\ Depth[s] = 2
    /\ \A s \in {"in", "out"} : s \in Streams /\ Depth[s] = 1
    /\ {"s_fifo1", "s_fifo2", "s_alu1_fifo", "s_alu2_fifo"} \subseteq Streams
BY TopAssumption DEF TopDepth, TopStreams

\* A residual stream holds no more than the path beside it can: a row for each
\* row-wise process, the two beats of each stream between them, and the beat
\* by which a fork or a join is ahead.
LEMMA AttentionResidual == ASSUME IInv PROVE Held("s_fifo1") <= 4 * NumBeats + 12
<1>1. written["s_fifo1"] - written["s_norm1_in"] \in 0 .. 1
  BY ForkStage, TopPorts, TopKinds
<1>2. /\ read["s_norm1_in"] <= written["s_norm1_out"] + NumBeats
      /\ read["s_norm1_out"] <= written["s_gemm1_out"] + NumBeats
      /\ read["s_gemm1_out"] <= written["s_softmax_out"] + NumBeats
      /\ read["s_softmax_out"] <= written["s_gemm2_out"] + NumBeats
  BY RowStage, TopPorts, TopKinds
<1>3. read["s_gemm2_out"] - read["s_fifo1_out"] \in 0 .. 1
  BY JoinStage, TopPorts, TopKinds
<1>4. read["s_fifo1"] - written["s_fifo1_out"] \in 0 .. 1
  BY PassStage, TopPorts, TopKinds
<1>5. \A s \in {"s_norm1_in", "s_norm1_out", "s_gemm1_out", "s_softmax_out",
                "s_gemm2_out", "s_fifo1_out"} :
          /\ read[s] \in Nat /\ written[s] \in Nat
          /\ read[s] <= written[s] /\ written[s] <= read[s] + 2
  BY StreamBounds, TopDepths
<1>6. read["s_fifo1"] \in Nat /\ written["s_fifo1"] \in Nat
  BY StreamBounds, TopDepths
<1>7. NumBeats \in Nat
  BY DataflowAssumption
<1>.  QED  BY <1>1, <1>2, <1>3, <1>4, <1>5, <1>6, <1>7 DEF Held

LEMMA FeedForwardResidual == ASSUME IInv PROVE Held("s_fifo2") <= 3 * NumBeats + 13
<1>1. written["s_fifo2"] - written["s_norm2_in"] \in 0 .. 1
  BY ForkStage, TopPorts, TopKinds
<1>2. /\ read["s_norm2_in"] <= written["s_norm2_out"] + NumBeats
      /\ read["s_norm2_out"] <= written["s_gemm3_out"] + NumBeats
      /\ read["s_relu_out"] <= written["s_gemm4_out"] + NumBeats
  BY RowStage, TopPorts, TopKinds
<1>3. read["s_gemm4_out"] - read["s_fifo2_out"] \in 0 .. 1
  BY JoinStage, TopPorts, TopKinds
<1>4. /\ read["s_fifo2"] - written["s_fifo2_out"] \in 0 .. 1
      /\ read["s_gemm3_out"] - written["s_relu_out"] \in 0 .. 1
  BY PassStage, TopPorts, TopKinds
<1>5. \A s \in {"s_norm2_in", "s_norm2_out", "s_gemm3_out", "s_relu_out",
                "s_gemm4_out", "s_fifo2_out"} :
          /\ read[s] \in Nat /\ written[s] \in Nat
          /\ read[s] <= written[s] /\ written[s] <= read[s] + 2
  BY StreamBounds, TopDepths
<1>6. read["s_fifo2"] \in Nat /\ written["s_fifo2"] \in Nat
  BY StreamBounds, TopDepths
<1>7. NumBeats \in Nat
  BY DataflowAssumption
<1>.  QED  BY <1>1, <1>2, <1>3, <1>4, <1>5, <1>6, <1>7 DEF Held

LEMMA ResidualHasRoom == ASSUME IInv, NumBeats <= 11 PROVE ResidualNeverFull
<1>1. NumBeats \in Nat
  BY DataflowAssumption
<1>2. HasRoom("s_fifo1")
  <2>1. Held("s_fifo1") \in Int
    BY StreamBounds, TopDepths DEF Held
  <2>.  QED  BY <1>1, <2>1, AttentionResidual, TopDepths DEF HasRoom
<1>3. HasRoom("s_fifo2")
  <2>1. Held("s_fifo2") \in Int
    BY StreamBounds, TopDepths DEF Held
  <2>.  QED  BY <1>1, <2>1, FeedForwardResidual, TopDepths DEF HasRoom
<1>.  QED  BY <1>2, <1>3 DEF ResidualNeverFull

\* The depths of the residual streams hold whatever waits for the paths beside
\* them, for rows of up to eleven beats, however many rows are in the block.
THEOREM ResidualCorrect ==
    ASSUME NumBeats <= 11
    PROVE  Spec => []ResidualNeverFull
<1>1. IInv => ResidualNeverFull
  BY ResidualHasRoom
<1>.  QED  BY InitIInv, NextIInv, <1>1, PTL DEF Spec

-----------------------------------------------------------------------------
(* Rest. *)

LEMMA TopEnds == Sources = {"in"} /\ Sinks = {"out"}
<1>1. \A p \in Processes : /\ Named(Ins[p]) \subseteq Streams \ {"out"}
                           /\ Named(Outs[p]) \subseteq Streams \ {"in"}
  <2>. SUFFICES ASSUME NEW p \in Processes
                PROVE  /\ Named(Ins[p]) \subseteq Streams \ {"out"}
                       /\ Named(Outs[p]) \subseteq Streams \ {"in"}
    OBVIOUS
  <2>1. /\ \A i \in DOMAIN Ins[p] : Ins[p][i] # "out"
        /\ \A i \in DOMAIN Outs[p] : Outs[p][i] # "in"
    BY TopPorts, TopKinds
  <2>.  QED  BY <2>1, Ports DEF Named
<1>2. Streams \ {"in"} \subseteq UNION {Named(Outs[p]) : p \in Processes}
  <2>1. /\ Named(Outs["fan_out1"]) = {"s_fifo1", "s_norm1_in"}
        /\ Named(Outs["fifo1"]) = {"s_fifo1_out"}
        /\ Named(Outs["norm1"]) = {"s_norm1_out"}
        /\ Named(Outs["gemm1"]) = {"s_gemm1_out"}
        /\ Named(Outs["softmax"]) = {"s_softmax_out"}
        /\ Named(Outs["gemm2"]) = {"s_gemm2_out"}
        /\ Named(Outs["alu1"]) = {"s_alu1"}
        /\ Named(Outs["alu1_fifo"]) = {"s_alu1_fifo"}
    BY TopPorts DEF Named
  <2>2. /\ Named(Outs["fan_out2"]) = {"s_fifo2", "s_norm2_in"}
        /\ Named(Outs["fifo2"]) = {"s_fifo2_out"}
        /\ Named(Outs["norm2"]) = {"s_norm2_out"}
        /\ Named(Outs["gemm3"]) = {"s_gemm3_out"}
        /\ Named(Outs["relu"]) = {"s_relu_out"}
        /\ Named(Outs["gemm4"]) = {"s_gemm4_out"}
        /\ Named(Outs["alu2"]) = {"s_alu2_fifo"}
        /\ Named(Outs["alu2_fifo"]) = {"out"}
    BY TopPorts DEF Named
  <2>.  QED  BY <2>1, <2>2, TopKinds, TopAssumption DEF TopStreams
<1>3. Streams \ {"out"} \subseteq UNION {Named(Ins[p]) : p \in Processes}
  <2>1. /\ Named(Ins["fan_out1"]) = {"in"}
        /\ Named(Ins["fifo1"]) = {"s_fifo1"}
        /\ Named(Ins["norm1"]) = {"s_norm1_in"}
        /\ Named(Ins["gemm1"]) = {"s_norm1_out"}
        /\ Named(Ins["softmax"]) = {"s_gemm1_out"}
        /\ Named(Ins["gemm2"]) = {"s_softmax_out"}
        /\ Named(Ins["alu1"]) = {"s_gemm2_out", "s_fifo1_out"}
        /\ Named(Ins["alu1_fifo"]) = {"s_alu1"}
    BY TopPorts DEF Named
  <2>2. /\ Named(Ins["fan_out2"]) = {"s_alu1_fifo"}
        /\ Named(Ins["fifo2"]) = {"s_fifo2"}
        /\ Named(Ins["norm2"]) = {"s_norm2_in"}
        /\ Named(Ins["gemm3"]) = {"s_norm2_out"}
        /\ Named(Ins["relu"]) = {"s_gemm3_out"}
        /\ Named(Ins["gemm4"]) = {"s_relu_out"}
        /\ Named(Ins["alu2"]) = {"s_gemm4_out", "s_fifo2_out"}
        /\ Named(Ins["alu2_fifo"]) = {"s_alu2_fifo"}
    BY TopPorts DEF Named
  <2>.  QED  BY <2>1, <2>2, TopKinds, TopAssumption DEF TopStreams
<1>4. "in" \in Streams /\ "out" \in Streams
  BY TopDepths
<1>.  QED  BY <1>1, <1>2, <1>3, <1>4 DEF Sources, Sinks

\* A blocked half of the block has nothing left in its streams but what waits
\* for the rest of its row: every whole row it was given has gone on.
LEMMA AttentionRests ==
    ASSUME IInv, NumBeats <= 11, AtRest, ~HasBeat("s_alu1_fifo")
    PROVE  /\ ~HasBeat("in")
           /\ written["s_alu1_fifo"] = InWholeRows(written["in"])
<1>1. /\ \A s \in {"s_norm1_in", "s_norm1_out", "s_gemm1_out", "s_softmax_out",
                   "s_gemm2_out", "s_fifo1_out", "s_alu1"} :
             /\ read[s] \in Nat /\ written[s] \in Nat /\ read[s] <= written[s]
             /\ ~HasBeat(s) <=> read[s] = written[s]
             /\ ~HasBeat(s) => HasRoom(s)
      /\ \A s \in {"in", "s_fifo1", "s_alu1_fifo"} :
             /\ read[s] \in Nat /\ written[s] \in Nat /\ read[s] <= written[s]
             /\ ~HasBeat(s) <=> read[s] = written[s]
             /\ ~HasBeat(s) => HasRoom(s)
  BY StreamBounds, TopDepths DEF HasBeat, HasRoom, Held
<1>2. HasRoom("s_fifo1")
  BY ResidualHasRoom DEF ResidualNeverFull
<1>3. \A p \in Processes : Blocked(p)
  BY DEF AtRest
<1>4. ~HasBeat("s_alu1") /\ written["s_alu1_fifo"] = written["s_alu1"]
  <2>1. \/ read["s_alu1"] = written["s_alu1_fifo"] /\ ~HasBeat("s_alu1")
        \/ ~HasRoom("s_alu1_fifo")
    BY <1>3, PassStage, TopPorts, TopKinds
  <2>.  QED  BY <1>1, <2>1
<1>5. /\ read["s_gemm2_out"] - written["s_alu1"] \in 0 .. 1
      /\ read["s_fifo1_out"] - written["s_alu1"] \in 0 .. 1
      /\ \/ /\ read["s_gemm2_out"] = written["s_alu1"]
            /\ read["s_fifo1_out"] = read["s_gemm2_out"]
            /\ ~HasBeat("s_gemm2_out")
         \/ /\ read["s_gemm2_out"] = read["s_fifo1_out"] + 1
            /\ ~HasBeat("s_fifo1_out")
  <2>1. HasRoom("s_alu1")
    BY <1>1, <1>4
  <2>.  QED  BY <1>3, <2>1, JoinStage, TopPorts, TopKinds
<1>6. /\ written["s_fifo1"] - written["s_norm1_in"] \in 0 .. 1
      /\ read["s_fifo1"] - written["s_fifo1_out"] \in 0 .. 1
      /\ ~HasBeat("s_fifo1_out")
             => /\ ~HasBeat("s_fifo1")
                /\ read["s_fifo1"] = written["s_fifo1_out"]
  <2>1. \/ read["s_fifo1"] = written["s_fifo1_out"] /\ ~HasBeat("s_fifo1")
        \/ ~HasRoom("s_fifo1_out")
    BY <1>3, PassStage, TopPorts, TopKinds
  <2>2. read["s_fifo1"] - written["s_fifo1_out"] \in 0 .. 1
    BY PassStage, TopPorts, TopKinds
  <2>3. written["s_fifo1"] - written["s_norm1_in"] \in 0 .. 1
    BY ForkStage, TopPorts, TopKinds
  <2>.  QED  BY <1>1, <2>1, <2>2, <2>3
<1>7. /\ written["s_gemm2_out"] <= read["s_softmax_out"]
      /\ written["s_softmax_out"] <= read["s_gemm1_out"]
      /\ written["s_gemm1_out"] <= read["s_norm1_out"]
      /\ written["s_norm1_out"] <= read["s_norm1_in"]
  BY RowStage, TopPorts, TopKinds
\* The join is not waiting for the residual: that is there when the result is.
<1>8. /\ read["s_gemm2_out"] = written["s_alu1"]
      /\ ~HasBeat("s_gemm2_out")
  <2>1. written["s_gemm2_out"] <= written["s_fifo1"]
    BY <1>1, <1>6, <1>7
  <2>2. CASE /\ read["s_gemm2_out"] = read["s_fifo1_out"] + 1
             /\ ~HasBeat("s_fifo1_out")
    <3>1. read["s_fifo1_out"] = written["s_fifo1"]
      BY <1>1, <1>6, <2>2
    <3>.  QED  BY <1>1, <2>1, <2>2, <3>1
  <2>.  QED  BY <1>5, <2>2
<1>9. /\ written["s_gemm2_out"] = InWholeRows(read["s_softmax_out"])
      /\ ~HasBeat("s_softmax_out")
  BY <1>1, <1>3, <1>8, RowStage, TopPorts, TopKinds
<1>10. /\ written["s_softmax_out"] = InWholeRows(read["s_gemm1_out"])
       /\ ~HasBeat("s_gemm1_out")
  BY <1>1, <1>3, <1>9, RowStage, TopPorts, TopKinds
<1>11. /\ written["s_gemm1_out"] = InWholeRows(read["s_norm1_out"])
       /\ ~HasBeat("s_norm1_out")
  BY <1>1, <1>3, <1>10, RowStage, TopPorts, TopKinds
<1>12. /\ written["s_norm1_out"] = InWholeRows(read["s_norm1_in"])
       /\ ~HasBeat("s_norm1_in")
  BY <1>1, <1>3, <1>11, RowStage, TopPorts, TopKinds
<1>13. written["s_norm1_in"] = written["in"] /\ ~HasBeat("in")
  <2>1. \/ read["in"] = written["s_norm1_in"] /\ ~HasBeat("in")
        \/ ~HasRoom("s_fifo1")
        \/ ~HasRoom("s_norm1_in")
    BY <1>3, ForkStage, TopPorts, TopKinds
  <2>.  QED  BY <1>1, <1>2, <1>12, <2>1
<1>14. written["s_gemm2_out"] = InWholeRows(written["in"])
  <2>1. /\ read["s_norm1_in"] = written["in"]
        /\ read["s_norm1_out"] = InWholeRows(written["in"])
    BY <1>1, <1>11, <1>12, <1>13
  <2>2. InWholeRows(InWholeRows(written["in"])) = InWholeRows(written["in"])
    BY <1>1, WholeOfWhole
  <2>3. /\ read["s_gemm1_out"] = InWholeRows(written["in"])
        /\ read["s_softmax_out"] = InWholeRows(written["in"])
    BY <1>1, <1>9, <1>10, <1>11, <2>1, <2>2
  <2>.  QED  BY <1>9, <2>2, <2>3
<1>15. written["s_alu1_fifo"] = written["s_gemm2_out"]
  BY <1>1, <1>4, <1>8
<1>.  QED  BY <1>13, <1>14, <1>15

LEMMA FeedForwardRests ==
    ASSUME IInv, NumBeats <= 11, AtRest
    PROVE  /\ ~HasBeat("s_alu1_fifo")
           /\ read["out"] = InWholeRows(written["s_alu1_fifo"])
<1>1. /\ \A s \in {"s_norm2_in", "s_norm2_out", "s_gemm3_out", "s_relu_out",
                   "s_gemm4_out", "s_fifo2_out"} :
             /\ read[s] \in Nat /\ written[s] \in Nat /\ read[s] <= written[s]
             /\ ~HasBeat(s) <=> read[s] = written[s]
             /\ ~HasBeat(s) => HasRoom(s)
      /\ \A s \in {"s_alu1_fifo", "s_fifo2", "s_alu2_fifo", "out"} :
             /\ read[s] \in Nat /\ written[s] \in Nat /\ read[s] <= written[s]
             /\ ~HasBeat(s) <=> read[s] = written[s]
             /\ ~HasBeat(s) => HasRoom(s)
  BY StreamBounds, TopDepths DEF HasBeat, HasRoom, Held
<1>2. HasRoom("s_fifo2")
  BY ResidualHasRoom DEF ResidualNeverFull
<1>3. \A p \in Processes : Blocked(p)
  BY DEF AtRest
<1>4. ~HasBeat("s_alu2_fifo") /\ read["out"] = written["s_alu2_fifo"]
  <2>1. ~HasBeat("out")
    BY TopEnds DEF AtRest
  <2>2. \/ read["s_alu2_fifo"] = written["out"] /\ ~HasBeat("s_alu2_fifo")
        \/ ~HasRoom("out")
    BY <1>3, PassStage, TopPorts, TopKinds
  <2>.  QED  BY <1>1, <2>1, <2>2
<1>5. /\ read["s_gemm4_out"] - written["s_alu2_fifo"] \in 0 .. 1
      /\ read["s_fifo2_out"] - written["s_alu2_fifo"] \in 0 .. 1
      /\ \/ /\ read["s_gemm4_out"] = written["s_alu2_fifo"]
            /\ read["s_fifo2_out"] = read["s_gemm4_out"]
            /\ ~HasBeat("s_gemm4_out")
         \/ /\ read["s_gemm4_out"] = read["s_fifo2_out"] + 1
            /\ ~HasBeat("s_fifo2_out")
  <2>1. HasRoom("s_alu2_fifo")
    BY <1>1, <1>4
  <2>.  QED  BY <1>3, <2>1, JoinStage, TopPorts, TopKinds
<1>6. /\ written["s_fifo2"] - written["s_norm2_in"] \in 0 .. 1
      /\ ~HasBeat("s_fifo2_out")
             => /\ ~HasBeat("s_fifo2")
                /\ read["s_fifo2"] = written["s_fifo2_out"]
  <2>1. \/ read["s_fifo2"] = written["s_fifo2_out"] /\ ~HasBeat("s_fifo2")
        \/ ~HasRoom("s_fifo2_out")
    BY <1>3, PassStage, TopPorts, TopKinds
  <2>2. written["s_fifo2"] - written["s_norm2_in"] \in 0 .. 1
    BY ForkStage, TopPorts, TopKinds
  <2>.  QED  BY <1>1, <2>1, <2>2
<1>7. /\ written["s_gemm4_out"] <= read["s_relu_out"]
      /\ read["s_gemm3_out"] - written["s_relu_out"] \in 0 .. 1
      /\ written["s_gemm3_out"] <= read["s_norm2_out"]
      /\ written["s_norm2_out"] <= read["s_norm2_in"]
  BY RowStage, PassStage, TopPorts, TopKinds
\* The join is not waiting for the residual: that is there when the result is.
<1>8. /\ read["s_gemm4_out"] = written["s_alu2_fifo"]
      /\ ~HasBeat("s_gemm4_out")
  <2>1. written["s_gemm4_out"] <= written["s_fifo2"]
    BY <1>1, <1>6, <1>7
  <2>2. CASE /\ read["s_gemm4_out"] = read["s_fifo2_out"] + 1
             /\ ~HasBeat("s_fifo2_out")
    <3>1. read["s_fifo2_out"] = written["s_fifo2"]
      BY <1>1, <1>6, <2>2
    <3>.  QED  BY <1>1, <2>1, <2>2, <3>1
  <2>.  QED  BY <1>5, <2>2
<1>9. /\ written["s_gemm4_out"] = InWholeRows(read["s_relu_out"])
      /\ ~HasBeat("s_relu_out")
  BY <1>1, <1>3, <1>8, RowStage, TopPorts, TopKinds
<1>10. /\ written["s_relu_out"] = read["s_gemm3_out"]
       /\ ~HasBeat("s_gemm3_out")
  <2>1. \/ read["s_gemm3_out"] = written["s_relu_out"] /\ ~HasBeat("s_gemm3_out")
        \/ ~HasRoom("s_relu_out")
    BY <1>3, PassStage, TopPorts, TopKinds
  <2>.  QED  BY <1>1, <1>9, <2>1
<1>11. /\ written["s_gemm3_out"] = InWholeRows(read["s_norm2_out"])
       /\ ~HasBeat("s_norm2_out")
  BY <1>1, <1>3, <1>10, RowStage, TopPorts, TopKinds
<1>12. /\ written["s_norm2_out"] = InWholeRows(read["s_norm2_in"])
       /\ ~HasBeat("s_norm2_in")
  BY <1>1, <1>3, <1>11, RowStage, TopPorts, TopKinds
<1>13. written["s_norm2_in"] = written["s_alu1_fifo"] /\ ~HasBeat("s_alu1_fifo")
  <2>1. \/ read["s_alu1_fifo"] = written["s_norm2_in"] /\ ~HasBeat("s_alu1_fifo")
        \/ ~HasRoom("s_fifo2")
        \/ ~HasRoom("s_norm2_in")
    BY <1>3, ForkStage, TopPorts, TopKinds
  <2>.  QED  BY <1>1, <1>2, <1>12, <2>1
<1>14. written["s_gemm4_out"] = InWholeRows(written["s_alu1_fifo"])
  <2>1. /\ read["s_norm2_in"] = written["s_alu1_fifo"]
        /\ read["s_norm2_out"] = InWholeRows(written["s_alu1_fifo"])
    BY <1>1, <1>11, <1>12, <1>13
  <2>2. InWholeRows(InWholeRows(written["s_alu1_fifo"]))
            = InWholeRows(written["s_alu1_fifo"])
    BY <1>1, WholeOfWhole
  <2>3. read["s_relu_out"] = InWholeRows(written["s_alu1_fifo"])
    BY <1>1, <1>9, <1>10, <1>11, <2>1, <2>2
  <2>.  QED  BY <1>9, <2>2, <2>3
<1>15. read["out"] = written["s_gemm4_out"]
  BY <1>1, <1>4, <1>8
<1>.  QED  BY <1>13, <1>14, <1>15

\* The block cannot lock up: whatever the interleaving, and however many rows
\* follow each other, it comes to rest only when every whole row has left.
THEOREM NoLockUp ==
    ASSUME NumBeats <= 11
    PROVE  Spec => []RestsOnlyWhenDone
<1>1. IInv => RestsOnlyWhenDone
  <2>. SUFFICES ASSUME IInv, AtRest
                PROVE  read["out"] = InWholeRows(written["in"])
    BY TopEnds DEF RestsOnlyWhenDone
  <2>1. /\ ~HasBeat("s_alu1_fifo")
        /\ read["out"] = InWholeRows(written["s_alu1_fifo"])
    BY FeedForwardRests
  <2>2. written["s_alu1_fifo"] = InWholeRows(written["in"])
    BY <2>1, AttentionRests
  <2>3. written["in"] \in Nat
    BY StreamBounds, TopDepths
  <2>.  QED  BY <2>1, <2>2, <2>3, WholeOfWhole
<1>.  QED  BY InitIInv, NextIInv, <1>1, PTL DEF Spec
=============================================================================
