---------------------------- MODULE SerialProofs ----------------------------
(***************************************************************************)
(* Proofs about the serial interfaces: the UART, the LIN bus on it, and    *)
(* the SPI controller with its DMA channels.                               *)
(***************************************************************************)
EXTENDS Devices, SequenceTheorems, TLAPS

(* The other parts leave each of them alone.                               *)
LEMMA SerialSteps ==
  ASSUME [Next]_vars
  PROVE  /\ UartNext \/ UNCHANGED uartVars
         /\ LinNext \/ UNCHANGED linVars
         /\ SpiNext \/ UNCHANGED spiVars
BY DEF Next, Uart, Lin, Spi, Cdc, Mouse, Cyclic, I2C, Mc, Encoder, List, Hash, Ring,
   vars, serialVars, otherVars

-----------------------------------------------------------------------------
(***************************************************************************)
(* No byte is left in the FIFO without anybody being about to fetch it.    *)
(* This is inductive.                                                      *)
(***************************************************************************)
THEOREM NoneLeftBehind == Spec => []UartNoneLeftBehind
<1>1. Init => UartNoneLeftBehind
  BY DEF Init, UartInit, UartNoneLeftBehind
<1>2. UartNoneLeftBehind /\ [Next]_vars => UartNoneLeftBehind'
  <2> SUFFICES ASSUME UartNoneLeftBehind, [Next]_vars PROVE UartNoneLeftBehind'
    OBVIOUS
  <2>1. CASE Arrive
    BY <2>1 DEF Arrive, UartNoneLeftBehind
  <2>2. CASE UartInterrupt
    BY <2>2 DEF UartInterrupt, EnterIsr, Drain, LeaveIsr, UartNoneLeftBehind
  <2>3. CASE BeginRead \/ ReadByte \/ EndRead \/ UNCHANGED uartVars
    <3>1. UNCHANGED <<uartFifo, uartIrq, inIsr>>
      BY <2>3 DEF BeginRead, ReadByte, EndRead, uartVars
    <3> QED
      BY <3>1 DEF UartNoneLeftBehind
  <2> QED
    BY <2>1, <2>2, <2>3, SerialSteps DEF UartNext
<1> QED
  BY <1>1, <1>2, PTL DEF Spec

-----------------------------------------------------------------------------
Ops == {"none", "read", "line", "char", "sequence"}
Searching == {"char", "sequence"}

UartTyped ==
    /\ uartFifo \in Seq(UartBytes) /\ uartQueue \in Seq(UartBytes) /\ buf \in Seq(UartBytes)
    /\ reader \in [op : Ops, terminator : Seq(UartBytes), size : Nat]
    /\ reader.op \notin Searching => reader.terminator = <<>>
    /\ Len(buf) <= reader.size

LEMMA PutTyped ==
  ASSUME NEW queue \in Seq(UartBytes), NEW byte \in UartBytes, NEW size
  PROVE  Put(queue, byte, size) \in Seq(UartBytes)
BY AppendProperties DEF Put

LEMMA BeginReadSeen ==
  ASSUME BeginRead
  PROVE  /\ reader' \in [op : Ops \ {"none"}, terminator : Seq(UartBytes), size : Nat]
         /\ reader'.op \notin Searching => reader'.terminator = <<>>
         /\ buf' = <<>> /\ UNCHANGED <<uartFifo, uartQueue>>
<1>1. PICK op \in {"read", "line", "char", "sequence"}, size \in BufSizes :
       \E t \in CASE op = "sequence" -> Terminators
                  [] op = "char" -> {u \in Terminators : Len(u) = 1}
                  [] OTHER -> {<<>>} :
           reader' = [op |-> op, terminator |-> t, size |-> Wanted(op, size)]
  BY DEF BeginRead
<1>2. PICK t \in CASE op = "sequence" -> Terminators
                   [] op = "char" -> {u \in Terminators : Len(u) = 1}
                   [] OTHER -> {<<>>} :
           reader' = [op |-> op, terminator |-> t, size |-> Wanted(op, size)]
  BY <1>1
<1>3. Wanted(op, size) \in Nat
  BY UartAssumption DEF Wanted
<1>4. t \in Seq(UartBytes) /\ (op \notin Searching => t = <<>>)
  <2>1. CASE op = "sequence"
    BY <1>2, <2>1, UartAssumption DEF Searching
  <2>2. CASE op = "char"
    BY <1>2, <2>2, UartAssumption DEF Searching
  <2>3. CASE op \in {"read", "line"}
    BY <1>2, <2>3, EmptySeq
  <2> QED
    BY <2>1, <2>2, <2>3
<1> QED
  BY <1>2, <1>3, <1>4 DEF BeginRead, Ops

(* Whether a terminator is complete with the byte of b at i.               *)
EndsAt(b, i) ==
    CASE reader.op = "line" -> b[i] \in LineEnds
      [] reader.op = "read" -> FALSE
      [] OTHER -> EndsWith(SubSeq(b, 1, i), reader.terminator)

(* A sequence does not end with a longer one.                              *)
LEMMA TooShort ==
  ASSUME NEW b, NEW t, Len(b) \in Nat, Len(t) \in Nat, Len(b) < Len(t)
  PROVE  ~EndsWith(b, t)
<1>1. ~(Len(b) >= Len(t))
  OBVIOUS
<1> QED
  BY <1>1, Zenon DEF EndsWith

(* With as many bytes as a terminator has, the call looks for it; with     *)
(* fewer it cannot be there, and "terminated" stays what it was.           *)
LEMMA FoundMeans ==
  ASSUME UartTyped, reader.op # "none", NEW b \in Seq(UartBytes), b # <<>>
  PROVE  \/ Found(b) <=> EndsAt(b, Len(b))
         \/ /\ Len(b) < Len(reader.terminator) /\ ~EndsAt(b, Len(b))
            /\ Found(b) <=> terminated
<1> DEFINE t == reader.terminator
<1>1. Len(t) \in Nat /\ Len(b) \in Nat /\ SubSeq(b, 1, Len(b)) = b
  BY SubSeqFull DEF UartTyped
<1>2. CASE reader.op = "line" \/ reader.op = "read"
  BY <1>2 DEF Found, EndsAt
<1>3. CASE reader.op # "line" /\ reader.op # "read"
  <2>1. EndsAt(b, Len(b)) <=> EndsWith(b, t)
    BY <1>1, <1>3 DEF EndsAt
  <2>2. CASE Len(b) >= Len(t)
    BY <1>3, <2>1, <2>2 DEF Found
  <2>3. CASE Len(b) < Len(t)
    <3>1. ~EndsWith(b, t)
      BY <1>1, <2>3, TooShort
    <3>2. Found(b) <=> terminated
      BY <1>1, <1>3, <2>3 DEF Found
    <3> QED
      BY <2>1, <2>3, <3>1, <3>2
  <2> QED
    BY <1>1, <2>2, <2>3
<1> QED
  BY <1>2, <1>3

(* A byte that is appended changes nothing about those before it.          *)
LEMMA EndsAtKept ==
  ASSUME NEW b \in Seq(UartBytes), NEW c \in Seq(UartBytes), Len(c) = Len(b) + 1,
         \A j \in 1..Len(b) : c[j] = b[j], NEW i \in 1..Len(b)
  PROVE  EndsAt(c, i) <=> EndsAt(b, i)
<1>1. Len(b) \in Nat /\ Len(c) \in Nat /\ i \in Int /\ 1 <= i /\ i <= Len(b)
  BY LenProperties
<1>2. /\ SubSeq(b, 1, i) \in Seq(UartBytes) /\ Len(SubSeq(b, 1, i)) = i - 1 + 1
      /\ \A j \in 1..i - 1 + 1 : SubSeq(b, 1, i)[j] = b[1 + j - 1]
  <2>1. \A j \in 1..i : b[j] \in UartBytes
    BY <1>1, ElementOfSeq
  <2> QED
    BY <1>1, <2>1, SubSeqProperties
<1>3. /\ SubSeq(c, 1, i) \in Seq(UartBytes) /\ Len(SubSeq(c, 1, i)) = i - 1 + 1
      /\ \A j \in 1..i - 1 + 1 : SubSeq(c, 1, i)[j] = c[1 + j - 1]
  <2>1. \A j \in 1..i : c[j] \in UartBytes
    BY <1>1, ElementOfSeq
  <2> QED
    BY <1>1, <2>1, SubSeqProperties
<1> DEFINE u == SubSeq(b, 1, i)
           v == SubSeq(c, 1, i)
<1>4. /\ u \in Seq(UartBytes) /\ v \in Seq(UartBytes) /\ Len(u) = i /\ Len(v) = i
      /\ \A j \in 1..i : u[j] = b[j] /\ v[j] = c[j]
  BY <1>1, <1>2, <1>3
<1> HIDE DEF u, v
<1>5. u = v
  <2>1. Len(u) = Len(v) /\ \A j \in 1..Len(u) : u[j] = v[j]
    BY <1>1, <1>4
  <2> QED
    BY <1>4, <2>1, SeqEqual
<1> QED
  BY <1>1, <1>5 DEF EndsAt, u, v

(***************************************************************************)
(* No byte before the last ends the call, and "terminated" is that of the  *)
(* last, unless that is the first of several: it is not initialised.       *)
(***************************************************************************)
ReadUpTo ==
    reader.op # "none" =>
        /\ \A i \in 1..Len(buf) - 1 : ~EndsAt(buf, i)
        /\ buf # <<>> /\ ~CutShort => (terminated <=> EndsAt(buf, Len(buf)))

LEMMA ReadByteKeeps ==
  ASSUME UartTyped, ReadUpTo, ReadByte
  PROVE  UartTyped' /\ ReadUpTo'
<1> DEFINE n == Len(buf)
<1>1. n \in Nat /\ (buf # <<>> <=> n # 0)
  BY EmptySeq, LenProperties DEF UartTyped
<1>2. n < reader.size /\ (buf # <<>> => ~terminated)
  BY <1>1 DEF ReadByte, Finished, UartTyped
<1>3. /\ buf' \in Seq(UartBytes) /\ buf' # <<>> /\ Len(buf') = n + 1
      /\ \A i \in 1..n : buf'[i] = buf[i]
      /\ uartQueue' \in Seq(UartBytes) /\ UNCHANGED <<uartFifo, reader>>
  <2>1. Head(uartQueue) \in UartBytes /\ Tail(uartQueue) \in Seq(UartBytes)
    BY HeadTailProperties DEF ReadByte, UartTyped
  <2> QED
    BY <2>1, AppendProperties DEF ReadByte, UartTyped
<1>4. UartTyped'
  BY <1>1, <1>2, <1>3 DEF UartTyped
<1>5. ASSUME reader.op # "none"
      PROVE  /\ \A i \in 1..n : ~EndsAt(buf, i)
             /\ CutShort' \/ (terminated' <=> EndsAt(buf', n + 1))
  <2>1. \A i \in 1..n : ~EndsAt(buf, i)
    <3>1. \A i \in 1..n - 1 : ~EndsAt(buf, i)
      BY <1>5 DEF ReadUpTo
    <3>2. ASSUME n # 0 PROVE ~EndsAt(buf, n)
      <4>1. CASE CutShort
        <5>1. n < Len(reader.terminator) /\ Len(reader.terminator) \in Nat
          BY <4>1 DEF CutShort, UartTyped
        <5>2. SubSeq(buf, 1, n) = buf
          BY SubSeqFull DEF UartTyped
        <5>3. ~EndsWith(SubSeq(buf, 1, n), reader.terminator)
          BY <1>1, <5>1, <5>2, TooShort
        <5>4. reader.op # "line"
          BY <4>1, EmptySeq DEF CutShort, UartTyped, Searching
        <5> QED
          BY <5>3, <5>4 DEF EndsAt
      <4>2. CASE ~CutShort
        BY <1>1, <1>2, <1>5, <3>2, <4>2 DEF ReadUpTo
      <4> QED
        BY <4>1, <4>2
    <3> QED
      BY <1>1, <3>1, <3>2
  <2>2. terminated' <=> Found(buf')
    BY Zenon DEF ReadByte
  <2>3. CASE Found(buf') <=> EndsAt(buf', Len(buf'))
    BY <1>3, <2>1, <2>2, <2>3
  <2>4. CASE /\ Len(buf') < Len(reader.terminator) /\ ~EndsAt(buf', Len(buf'))
             /\ Found(buf') <=> terminated
    <3>1. CASE n = 0
      BY <1>1, <1>3, <2>1, <2>4, <3>1 DEF CutShort, UartTyped
    <3>2. CASE n # 0
      <4>1. ~terminated
        BY <1>1, <1>2, <3>2
      <4> QED
        BY <1>3, <2>1, <2>2, <2>4, <4>1
    <3> QED
      BY <3>1, <3>2
  <2> QED
    BY <1>3, <1>5, <2>3, <2>4, FoundMeans
<1>6. ReadUpTo'
  <2>1. ASSUME NEW i \in 1..Len(buf') - 1 PROVE EndsAt(buf, i)' <=> EndsAt(buf, i)
    <3>1. i \in 1..n /\ buf \in Seq(UartBytes)
      BY <1>1, <1>3 DEF UartTyped
    <3>2. EndsAt(buf', i) <=> EndsAt(buf, i)
      BY <1>3, <3>1, EndsAtKept
    <3>3. EndsAt(buf, i)' <=> EndsAt(buf', i)
      BY <1>3 DEF EndsAt
    <3> QED
      BY <3>2, <3>3
  <2>2. EndsAt(buf, Len(buf))' <=> EndsAt(buf', n + 1)
    BY <1>3 DEF EndsAt
  <2>3. \A i \in 1..Len(buf') - 1 : i \in 1..n
    BY <1>1, <1>3
  <2> QED
    BY <1>3, <1>5, <2>1, <2>2, <2>3 DEF ReadUpTo
<1> QED
  BY <1>4, <1>6

LEMMA UartStep ==
  ASSUME UartTyped, ReadUpTo, [Next]_vars
  PROVE  UartTyped' /\ ReadUpTo'
<1>1. CASE Arrive
  <2>1. PICK byte \in UartBytes : uartFifo' = Put(uartFifo, byte, UartFifoSize)
    BY <1>1 DEF Arrive
  <2> QED
    BY <1>1, <2>1, PutTyped DEF Arrive, readerVars, UartTyped, ReadUpTo, EndsAt, CutShort
<1>2. CASE UartInterrupt
  <2>1. uartFifo' \in Seq(UartBytes) /\ uartQueue' \in Seq(UartBytes)
    <3>1. CASE Drain
      <4>1. Head(uartFifo) \in UartBytes /\ Tail(uartFifo) \in Seq(UartBytes)
        BY <3>1, HeadTailProperties DEF Drain, UartTyped
      <4> QED
        BY <3>1, <4>1, PutTyped DEF Drain, UartTyped
    <3>2. CASE EnterIsr \/ LeaveIsr
      BY <3>2 DEF EnterIsr, LeaveIsr, UartTyped
    <3> QED
      BY <1>2, <3>1, <3>2 DEF UartInterrupt
  <2>2. UNCHANGED readerVars
    BY <1>2 DEF UartInterrupt
  <2> QED
    BY <2>1, <2>2 DEF readerVars, UartTyped, ReadUpTo, EndsAt, CutShort
<1>3. CASE BeginRead
  <2>1. 0 <= reader'.size /\ reader'.op \in Ops \ {"none"}
    BY <1>3, BeginReadSeen
  <2> QED
    BY <1>3, <2>1, BeginReadSeen, EmptySeq DEF UartTyped, ReadUpTo, Ops
<1>4. CASE ReadByte
  BY <1>4, ReadByteKeeps
<1>5. CASE EndRead
  <2>1. reader' = Idle /\ buf' = <<>> /\ UNCHANGED <<uartFifo, uartQueue>>
    BY <1>5 DEF EndRead
  <2> QED
    BY <2>1, EmptySeq DEF Idle, UartTyped, ReadUpTo, Ops, Searching
<1>6. CASE UNCHANGED uartVars
  BY <1>6 DEF uartVars, UartTyped, ReadUpTo, EndsAt, CutShort
<1> QED
  BY <1>1, <1>2, <1>3, <1>4, <1>5, <1>6, SerialSteps DEF UartNext

(***************************************************************************)
(* A reading call reads no further than the first terminator, whatever it  *)
(* is, and ends with it or with a full buffer or, when the terminator has  *)
(* several bytes, cut short after the first byte.                          *)
(***************************************************************************)
THEOREM StopsAtTerminator == Spec => []UartStopsAtTerminator
<1>1. Init => UartTyped /\ ReadUpTo
  BY EmptySeq DEF Init, UartInit, Idle, UartTyped, ReadUpTo, Ops, Searching
<1>2. UartTyped /\ ReadUpTo /\ [Next]_vars => UartTyped' /\ ReadUpTo'
  BY UartStep
<1>3. UartTyped /\ ReadUpTo => UartStopsAtTerminator
  <2> SUFFICES ASSUME UartTyped, ReadUpTo, reader.op # "none", Finished
               PROVE  /\ \A i \in 1..Len(buf) - 1 : ~TerminatedAt(i)
                      /\ Len(buf) = reader.size \/ TerminatedAt(Len(buf)) \/ CutShort
    BY DEF UartStopsAtTerminator, ReadDone
  <2>1. \A i : TerminatedAt(i) <=> EndsAt(buf, i)
    BY DEF TerminatedAt, EndsAt
  <2> QED
    BY <2>1 DEF Finished, ReadUpTo
<1> QED
  BY <1>1, <1>2, <1>3, PTL DEF Spec

-----------------------------------------------------------------------------
(***************************************************************************)
(* On the LIN bus and in the receive buffers is nothing but headers, data  *)
(* and the checksums of published frames.                                  *)
(***************************************************************************)
LinBytes(frames) ==
    {Sync} \cup {Pid(id) : id \in Ids} \cup Data \cup {Checksum(f[1], f[2]) : f \in frames}

LinCarried ==
    /\ wanted \in Ids \cup {None}
    /\ published \subseteq (Ids \cup {None}) \X Data
    /\ \A s \in {masterWire, slaveWire, masterFifo, masterQueue, slaveFifo} :
           s \in Seq(LinBytes(published))

(* What was on the bus stays allowed when another frame is published.      *)
LEMMA LinBytesGrow ==
  ASSUME NEW frames, NEW more, frames \subseteq more, NEW s \in Seq(LinBytes(frames))
  PROVE  s \in Seq(LinBytes(more))
<1>1. LinBytes(frames) \subseteq LinBytes(more)
  BY DEF LinBytes
<1> QED
  BY <1>1, SeqMonotonic

(* Publishing a frame keeps to it.                                         *)
LEMMA LinPublishes ==
  ASSUME NEW frames, NEW wire \in Seq(LinBytes(frames)), NEW id, NEW d \in Data
  PROVE  wire \o Frame(id, d) \in Seq(LinBytes(frames \cup {<<id, d>>}))
<1> DEFINE B == LinBytes(frames \cup {<<id, d>>})
<1>1. d \in B /\ Checksum(id, d) \in B
  <2>1. Checksum(<<id, d>>[1], <<id, d>>[2]) \in B
    BY DEF LinBytes
  <2> QED
    BY <2>1 DEF LinBytes
<1>2. Frame(id, d) \in Seq(B)
  <2> HIDE DEF B
  <2> QED
    BY <1>1 DEF Frame
<1>3. wire \in Seq(B)
  BY LinBytesGrow
<1> QED
  BY <1>2, <1>3, ConcatProperties

(* Receiving keeps to it.                                                  *)
LEMMA LinReceives ==
  ASSUME NEW S, NEW fifo \in Seq(S), NEW byte \in S
  PROVE  Received(fifo, byte) \in Seq(S)
BY AppendProperties DEF Received

LEMMA LinLineCarries ==
  ASSUME LinCarried, Line
  PROVE  LinCarried'
<1> DEFINE S == Seq(LinBytes(published))
<1>1. ASSUME NEW wire \in S, wire # <<>>, Carry(Head(wire)), Tail(wire) \in S
      PROVE  /\ masterFifo' \in S /\ slaveFifo' \in S
             /\ UNCHANGED <<masterQueue, wanted, published>>
  <2>1. Head(wire) \in LinBytes(published)
    BY <1>1, HeadTailProperties
  <2> QED
    BY <1>1, <2>1, LinReceives DEF Carry, LinCarried, masterVars
<1>2. masterWire \in S /\ slaveWire \in S /\ masterQueue \in S
  BY DEF LinCarried
<1>3. CASE masterWire # <<>> /\ Carry(Head(masterWire)) /\ masterWire' = Tail(masterWire)
           /\ UNCHANGED slaveWire
  <2>1. Tail(masterWire) \in S
    BY <1>2, <1>3, HeadTailProperties
  <2> QED
    BY <1>1, <1>2, <1>3, <2>1 DEF LinCarried
<1>4. CASE slaveWire # <<>> /\ Carry(Head(slaveWire)) /\ slaveWire' = Tail(slaveWire)
           /\ UNCHANGED masterWire
  <2>1. Tail(slaveWire) \in S
    BY <1>2, <1>4, HeadTailProperties
  <2> QED
    BY <1>1, <1>2, <1>4, <2>1 DEF LinCarried
<1> QED
  BY <1>3, <1>4 DEF Line

LEMMA LinStepCarries ==
  ASSUME LinCarried, LinNext
  PROVE  LinCarried'
<1> DEFINE S == Seq(LinBytes(published))
<1>1. masterWire \in S /\ slaveWire \in S /\ masterFifo \in S /\ masterQueue \in S
      /\ slaveFifo \in S
  BY DEF LinCarried
<1>2. \A s \in S : s # <<>> => Tail(s) \in S
  BY HeadTailProperties
<1>3. CASE LinInterrupt
  <2> DEFINE all == masterQueue \o masterFifo
             n == IF Len(all) < LinQueueSize THEN Len(all) ELSE LinQueueSize
  <2>1. all \in S
    BY <1>1, ConcatProperties
  <2>2. n \in Int /\ n <= Len(all)
    BY <2>1, LenProperties, LinAssumption
  <2>3. \A i \in 1..n : all[i] \in LinBytes(published)
    <3>1. Len(all) \in Nat
      BY <2>1, LenProperties
    <3>2. ASSUME NEW i \in 1..n PROVE i \in 1..Len(all)
      <4> HIDE DEF n, all
      <4> QED
        BY <2>2, <3>1, <3>2
    <3> QED
      BY <2>1, <3>2, ElementOfSeq
  <2>4. SubSeq(all, 1, n) \in S
    <3> HIDE DEF n, all
    <3> QED
      BY <2>2, <2>3, SubSeqProperties
  <2>5. masterQueue' = SubSeq(all, 1, n) /\ masterFifo' = <<>>
    BY <1>3 DEF LinInterrupt
  <2> QED
    BY <1>1, <1>3, <2>4, <2>5, EmptySeq
       DEF LinInterrupt, LinCarried, masterVars, historyVars
<1>4. CASE Line
  BY <1>4, LinLineCarries
<1>5. ASSUME NEW id \in Ids, SendHeader(id)
      PROVE  LinCarried'
  <2>1. <<Sync, Pid(id)>> \in S
    <3>1. Sync \in LinBytes(published) /\ Pid(id) \in LinBytes(published)
      BY DEF LinBytes
    <3> QED
      BY <3>1
  <2> QED
    BY <1>1, <1>5, <2>1, EmptySeq DEF SendHeader, LinCarried
<1>6. CASE OnIdReceived
  <2>1. CASE UNCHANGED <<masterWire, wanted, published>>
    BY <1>1, <1>6, <2>1 DEF OnIdReceived, LinCarried
  <2>2. ASSUME EndReceive, NEW d \in Data, masterWire' = masterWire \o Frame(wanted, d),
               published' = published \cup {<<wanted, d>>}
        PROVE  LinCarried'
    <3>1. masterWire' \in Seq(LinBytes(published'))
      BY <1>1, <2>2, LinPublishes
    <3>2. \A s \in S : s \in Seq(LinBytes(published'))
      BY <2>2, LinBytesGrow
    <3>3. wanted' = None /\ UNCHANGED <<masterFifo, masterQueue, slaveWire, slaveFifo>>
      BY <1>6, <2>2 DEF OnIdReceived, EndReceive
    <3>4. published' \subseteq (Ids \cup {None}) \X Data
      BY <2>2 DEF LinCarried
    <3>5. /\ masterFifo' \in Seq(LinBytes(published'))
          /\ masterQueue' \in Seq(LinBytes(published'))
          /\ slaveWire' \in Seq(LinBytes(published'))
          /\ slaveFifo' \in Seq(LinBytes(published'))
      BY <1>1, <3>2, <3>3
    <3> QED
      BY <3>1, <3>3, <3>4, <3>5 DEF LinCarried
  <2> QED
    BY <1>6, <2>1, <2>2 DEF OnIdReceived
<1>7. CASE ReceiveFrame
  <2>1. masterQueue' \in S /\ wanted' \in {wanted, None}
    BY <1>1, <1>2, <1>7
       DEF ReceiveFrame, ReceiveSync, ReceiveId, ReceiveData, TimeUp, GetChar, EndReceive
  <2> QED
    BY <1>1, <1>7, <2>1 DEF ReceiveFrame, LinCarried
<1>8. CASE Slave
  <2>1. slaveFifo' \in S
    BY <1>1, <1>2, <1>8 DEF Slave, SlaveSync, SlaveId
  <2>2. CASE UNCHANGED <<slaveWire, published>>
    BY <1>1, <1>8, <2>1, <2>2 DEF Slave, LinCarried, masterVars
  <2>3. ASSUME NEW id \in SlaveIds, NEW d \in Data, slaveWire' = slaveWire \o Frame(id, d),
               published' = published \cup {<<id, d>>}
        PROVE  LinCarried'
    <3>1. slaveWire' \in Seq(LinBytes(published'))
      BY <1>1, <2>3, LinPublishes
    <3>2. \A s \in S : s \in Seq(LinBytes(published'))
      BY <2>3, LinBytesGrow
    <3>3. UNCHANGED <<wanted, masterFifo, masterQueue, masterWire>>
      BY <1>8 DEF Slave, masterVars
    <3>4. published' \subseteq (Ids \cup {None}) \X Data
      BY <2>3, LinAssumption DEF LinCarried
    <3>5. /\ masterFifo' \in Seq(LinBytes(published'))
          /\ masterQueue' \in Seq(LinBytes(published'))
          /\ masterWire' \in Seq(LinBytes(published'))
          /\ slaveFifo' \in Seq(LinBytes(published'))
      BY <1>1, <2>1, <3>2, <3>3
    <3> QED
      BY <3>1, <3>3, <3>4, <3>5 DEF LinCarried
  <2> QED
    BY <1>8, <2>2, <2>3 DEF Slave, SlaveSync, SlaveId
<1> QED
  BY <1>3, <1>4, <1>5, <1>6, <1>7, <1>8 DEF LinNext

(* A checksum that was received is that of a published frame.              *)
LEMMA LinAcceptsKeeps ==
  ASSUME LinCarried, LinAcceptsPublished, LinNext
  PROVE  LinAcceptsPublished'
<1>1. CASE ReceiveFrame
  <2>1. CASE UNCHANGED accepted
    BY <1>1, <2>1 DEF ReceiveFrame, LinAcceptsPublished
  <2>2. CASE /\ ReceiveData /\ masterQueue # <<>>
             /\ Head(masterQueue) = Checksum(wanted, frame[1])
             /\ accepted' = accepted \cup {<<wanted, frame[1]>>}
    <3>1. Head(masterQueue) \in LinBytes(published)
      BY <2>2, HeadTailProperties DEF LinCarried
    <3>2. PICK f \in published : Head(masterQueue) = Checksum(f[1], f[2])
      BY <2>2, <3>1, LinAssumption DEF LinBytes, Sync, Pid, Checksum
    <3>3. f[1] = wanted /\ f[2] = frame[1]
      BY <2>2, <3>2 DEF Checksum
    <3>4. f = <<wanted, frame[1]>>
      BY <3>3 DEF LinCarried
    <3> QED
      BY <1>1, <2>2, <3>4 DEF ReceiveFrame, LinAcceptsPublished
  <2> QED
    BY <1>1, <2>1, <2>2
       DEF ReceiveFrame, ReceiveSync, ReceiveId, ReceiveData, TimeUp, GetChar, ChecksumMatches
<1>2. CASE \/ LinInterrupt \/ Line \/ OnIdReceived \/ Slave
           \/ \E id \in Ids : SendHeader(id)
  <2>1. UNCHANGED accepted /\ published \subseteq published'
    BY <1>2 DEF LinInterrupt, Line, Carry, OnIdReceived, Slave, SlaveSync, SlaveId, SendHeader,
                historyVars
  <2> QED
    BY <2>1 DEF LinAcceptsPublished
<1> QED
  BY <1>1, <1>2 DEF LinNext

(***************************************************************************)
(* What receiveFrame() accepts was published for that identifier.          *)
(***************************************************************************)
THEOREM AcceptsPublished == Spec => []LinAcceptsPublished
<1>1. Init => LinCarried /\ LinAcceptsPublished
  BY EmptySeq DEF Init, LinInit, LinCarried, LinAcceptsPublished
<1>2. LinCarried /\ LinAcceptsPublished /\ [Next]_vars => LinCarried' /\ LinAcceptsPublished'
  <2>1. CASE UNCHANGED linVars
    BY <2>1 DEF linVars, LinCarried, LinAcceptsPublished
  <2> QED
    BY <2>1, SerialSteps, LinStepCarries, LinAcceptsKeeps
<1> QED
  BY <1>1, <1>2, PTL DEF Spec

-----------------------------------------------------------------------------
(***************************************************************************)
(* Which bytes of its FIFO the slave will take for identifiers, and        *)
(* whether it will take the next one that comes for one; pc is slavePc.    *)
(***************************************************************************)
TakenForId(fifo, pc, i) == IF i = 1 THEN pc = "id" ELSE fifo[i - 1] = Sync
AwaitsId(fifo, pc) == IF fifo = <<>> THEN pc = "id" ELSE fifo[Len(fifo)] = Sync

(***************************************************************************)
(* The identifiers the slave was called with, and those it will take from  *)
(* its FIFO, are those of different ones of the first k headers, in their  *)
(* order: n gives the header of a call, p that of a byte of the FIFO.      *)
(***************************************************************************)
HeaderOf(calls, hs, fifo, pc, k, n, p) ==
    /\ \A i \in 1..Len(calls) : calls[i] = hs[n[i]]
    /\ \A i, j \in 1..Len(calls) : i < j => n[i] < n[j]
    /\ \A i \in 1..Len(fifo) : TakenForId(fifo, pc, i) =>
           /\ p[i] \in 1..k /\ fifo[i] = Pid(hs[p[i]])
           /\ \A j \in 1..Len(calls) : n[j] < p[i]
    /\ \A i, j \in 1..Len(fifo) :
           i < j /\ TakenForId(fifo, pc, i) /\ TakenForId(fifo, pc, j) => p[i] < p[j]

InOrder(calls, hs, fifo, pc, k) ==
    \E n \in [1..Len(calls) -> 1..k], p \in [1..Len(fifo) -> Nat] :
        HeaderOf(calls, hs, fifo, pc, k, n, p)

(* Another header changes nothing for those before it.                     *)
LEMMA HeaderAppended ==
  ASSUME NEW cs \in Seq(Ids), NEW hs \in Seq(Ids), NEW S, NEW f \in Seq(S), NEW pc,
         NEW k \in 0..Len(hs), NEW id \in Ids, InOrder(cs, hs, f, pc, k)
  PROVE  InOrder(cs, Append(hs, id), f, pc, k)
<1> DEFINE h == Append(hs, id)
<1>1. PICK n \in [1..Len(cs) -> 1..k], p \in [1..Len(f) -> Nat] :
         HeaderOf(cs, hs, f, pc, k, n, p)
  BY DEF InOrder
<1>2. Len(hs) \in Nat /\ \A i \in 1..Len(hs) : h[i] = hs[i]
  BY AppendProperties, LenProperties
<1>3. \A i \in 1..k : h[i] = hs[i]
  BY <1>2
<1> HIDE DEF h
<1>4. HeaderOf(cs, h, f, pc, k, n, p)
  BY <1>1, <1>3 DEF HeaderOf
<1> QED
  BY <1>4 DEF InOrder, h

(* A byte joins the FIFO; if it will be taken for an identifier, it is     *)
(* that of the header after the first k.                                   *)
LEMMA ByteJoins ==
  ASSUME NEW cs \in Seq(Ids), NEW hs \in Seq(Ids), NEW S, NEW f \in Seq(S), NEW pc,
         NEW k \in Nat, NEW b \in S, InOrder(cs, hs, f, pc, k)
  PROVE  /\ ~AwaitsId(f, pc) => InOrder(cs, hs, Append(f, b), pc, k)
         /\ b = Pid(hs[k + 1]) => InOrder(cs, hs, Append(f, b), pc, k + 1)
<1>1. PICK n \in [1..Len(cs) -> 1..k], p \in [1..Len(f) -> Nat] :
         HeaderOf(cs, hs, f, pc, k, n, p)
  BY DEF InOrder
<1>2. PICK g : g = Append(f, b)
  OBVIOUS
<1>3. PICK L \in Nat : L = Len(f)
  BY LenProperties
<1>4. PICK C \in Nat : C = Len(cs)
  BY LenProperties
<1>5. Len(g) = L + 1 /\ g[L + 1] = b /\ \A i \in 1..L : g[i] = f[i]
  BY <1>2, <1>3, AppendProperties
<1>6. PICK q : q = [i \in 1..(L + 1) |-> IF i = L + 1 THEN k + 1 ELSE p[i]]
  OBVIOUS
<1>7. q \in [1..(L + 1) -> Nat] /\ q[L + 1] = k + 1 /\ \A i \in 1..L : q[i] = p[i]
  BY <1>3, <1>6
<1>8. \A i \in 1..L : TakenForId(g, pc, i) <=> TakenForId(f, pc, i)
  BY <1>5 DEF TakenForId
<1>9. TakenForId(g, pc, L + 1) <=> AwaitsId(f, pc)
  <2>1. CASE L = 0
    <3>1. f = <<>>
      <4>1. f # <<>> => Len(f) # 0
        BY EmptySeq
      <4> QED
        BY <1>3, <2>1, <4>1
    <3>2. L + 1 = 1
      BY <2>1
    <3> QED
      BY <3>1, <3>2 DEF TakenForId, AwaitsId
  <2>2. CASE L # 0
    <3>1. f # <<>> /\ L \in 1..L /\ (L + 1) - 1 = L /\ L + 1 # 1
      BY <1>3, <2>2, EmptySeq
    <3> QED
      BY <1>3, <1>5, <3>1 DEF TakenForId, AwaitsId
  <2> QED
    BY <2>1, <2>2
<1>10. /\ \A i \in 1..C : cs[i] = hs[n[i]] /\ n[i] \in 1..k
       /\ \A i, j \in 1..C : i < j => n[i] < n[j]
       /\ \A i \in 1..L : TakenForId(f, pc, i) =>
            /\ p[i] \in 1..k /\ f[i] = Pid(hs[p[i]])
            /\ \A j \in 1..C : n[j] < p[i]
       /\ \A i, j \in 1..L :
            i < j /\ TakenForId(f, pc, i) /\ TakenForId(f, pc, j) => p[i] < p[j]
  BY <1>1, <1>3, <1>4 DEF HeaderOf
<1>11. ASSUME ~AwaitsId(f, pc) PROVE InOrder(cs, hs, g, pc, k)
  <2>1. \A i \in 1..(L + 1) : TakenForId(g, pc, i) => i \in 1..L /\ TakenForId(f, pc, i)
    BY <1>8, <1>9, <1>11
  <2>2. HeaderOf(cs, hs, g, pc, k, n, q)
    BY <1>4, <1>5, <1>7, <1>10, <2>1 DEF HeaderOf
  <2> QED
    BY <1>5, <1>7, <2>2 DEF InOrder
<1>12. ASSUME b = Pid(hs[k + 1]) PROVE InOrder(cs, hs, g, pc, k + 1)
  <2>1. \A i \in 1..(L + 1) : i \in 1..L \/ i = L + 1
    OBVIOUS
  <2>2. \A i \in 1..(L + 1) : TakenForId(g, pc, i) =>
          /\ q[i] \in 1..(k + 1) /\ g[i] = Pid(hs[q[i]])
          /\ \A j \in 1..C : n[j] < q[i]
    <3>1. ASSUME NEW i \in 1..L, TakenForId(g, pc, i)
          PROVE  /\ q[i] \in 1..(k + 1) /\ g[i] = Pid(hs[q[i]])
                 /\ \A j \in 1..C : n[j] < q[i]
      <4>1. TakenForId(f, pc, i) /\ q[i] = p[i] /\ g[i] = f[i]
        BY <1>5, <1>7, <1>8, <3>1
      <4>2. p[i] \in 1..k /\ f[i] = Pid(hs[p[i]]) /\ \A j \in 1..C : n[j] < p[i]
        BY <1>10, <4>1
      <4>3. p[i] \in 1..(k + 1)
        BY <4>2
      <4> QED
        BY <4>1, <4>2, <4>3
    <3>2. /\ q[L + 1] \in 1..(k + 1) /\ g[L + 1] = Pid(hs[q[L + 1]])
          /\ \A j \in 1..C : n[j] < q[L + 1]
      <4>1. ASSUME NEW j \in 1..C PROVE n[j] < q[L + 1]
        <5>1. n[j] \in 1..k
          BY <1>10
        <5> QED
          BY <1>7, <5>1
      <4> QED
        BY <1>5, <1>7, <1>12, <4>1
    <3> QED
      BY <2>1, <3>1, <3>2
  <2>3. ASSUME NEW i \in 1..(L + 1), NEW j \in 1..(L + 1), i < j,
               TakenForId(g, pc, i), TakenForId(g, pc, j)
        PROVE  q[i] < q[j]
    <3>1. i \in 1..L /\ TakenForId(f, pc, i)
      BY <1>8, <2>3
    <3>2. p[i] \in 1..k
      BY <1>10, <3>1
    <3>3. CASE j = L + 1
      BY <1>7, <3>1, <3>2, <3>3
    <3>4. CASE j \in 1..L
      BY <1>7, <1>8, <1>10, <2>3, <3>1, <3>4
    <3> QED
      BY <2>1, <3>3, <3>4
  <2>4. HeaderOf(cs, hs, g, pc, k + 1, n, q)
    BY <1>4, <1>5, <1>10, <2>2, <2>3 DEF HeaderOf
  <2>5. n \in [1..Len(cs) -> 1..(k + 1)]
    BY <1>1
  <2> QED
    BY <1>5, <1>7, <2>4, <2>5 DEF InOrder
<1> QED
  BY <1>2, <1>11, <1>12

(* The slave takes a byte out of the FIFO: if it takes it for an           *)
(* identifier, it is that of a header after those of the calls so far.     *)
LEMMA ByteLeaves ==
  ASSUME NEW cs \in Seq(Ids), NEW hs \in Seq(Ids), NEW S, NEW f \in Seq(S), f # <<>>,
         NEW k \in 0..Len(hs), NEW pc, NEW next, InOrder(cs, hs, f, pc, k),
         next = "id" <=> Head(f) = Sync
  PROVE  /\ InOrder(cs, hs, Tail(f), next, k)
         /\ pc = "id" => \E m \in 1..k : /\ Head(f) = Pid(hs[m])
                                         /\ InOrder(Append(cs, hs[m]), hs, Tail(f), next, k)
         /\ AwaitsId(Tail(f), next) <=> AwaitsId(f, pc)
<1>1. PICK n \in [1..Len(cs) -> 1..k], p \in [1..Len(f) -> Nat] :
         HeaderOf(cs, hs, f, pc, k, n, p)
  BY DEF InOrder
<1>2. PICK g : g = Tail(f)
  OBVIOUS
<1>3. PICK L \in Nat : L = Len(g) /\ Len(f) = L + 1
  <2>1. g \in Seq(S) /\ Len(g) = Len(f) - 1
    BY <1>2, HeadTailProperties
  <2>2. Len(g) \in Nat /\ Len(f) \in Nat
    BY <2>1, LenProperties
  <2> QED
    BY <2>1, <2>2
<1>4. PICK C \in Nat : C = Len(cs)
  BY LenProperties
<1>5. Head(f) = f[1] /\ g \in Seq(S) /\ \A i \in 1..L : g[i] = f[i + 1]
  BY <1>2, <1>3, HeadTailProperties
<1>6. PICK q : q = [i \in 1..L |-> p[i + 1]]
  OBVIOUS
<1>7. q \in [1..L -> Nat] /\ \A i \in 1..L : q[i] = p[i + 1]
  BY <1>3, <1>6
<1>8. \A i \in 1..L : TakenForId(g, next, i) <=> TakenForId(f, pc, i + 1)
  <2>1. ASSUME NEW i \in 1..L PROVE TakenForId(g, next, i) <=> TakenForId(f, pc, i + 1)
    <3>1. CASE i = 1
      BY <1>5, <3>1 DEF TakenForId
    <3>2. CASE i # 1
      <4>1. i - 1 \in 1..L /\ (i - 1) + 1 = i /\ (i + 1) - 1 = i /\ i + 1 # 1
        BY <3>2
      <4> QED
        BY <1>5, <3>2, <4>1 DEF TakenForId
    <3> QED
      BY <3>1, <3>2
  <2> QED
    BY <2>1
<1>9. /\ \A i \in 1..C : cs[i] = hs[n[i]] /\ n[i] \in 1..k
      /\ \A i, j \in 1..C : i < j => n[i] < n[j]
      /\ \A i \in 1..(L + 1) : TakenForId(f, pc, i) =>
           /\ p[i] \in 1..k /\ f[i] = Pid(hs[p[i]])
           /\ \A j \in 1..C : n[j] < p[i]
      /\ \A i, j \in 1..(L + 1) :
           i < j /\ TakenForId(f, pc, i) /\ TakenForId(f, pc, j) => p[i] < p[j]
  BY <1>1, <1>3, <1>4 DEF HeaderOf
<1>10. \A i \in 1..L : i + 1 \in 1..(L + 1)
  OBVIOUS
<1>11. \A i \in 1..L : TakenForId(g, next, i) =>
         /\ q[i] \in 1..k /\ g[i] = Pid(hs[q[i]])
         /\ \A j \in 1..C : n[j] < q[i]
  <2>1. ASSUME NEW i \in 1..L, TakenForId(g, next, i)
        PROVE  /\ q[i] \in 1..k /\ g[i] = Pid(hs[q[i]])
               /\ \A j \in 1..C : n[j] < q[i]
    <3>1. /\ TakenForId(f, pc, i + 1) /\ i + 1 \in 1..(L + 1)
          /\ q[i] = p[i + 1] /\ g[i] = f[i + 1]
      BY <1>5, <1>7, <1>8, <1>10, <2>1
    <3>2. /\ p[i + 1] \in 1..k /\ f[i + 1] = Pid(hs[p[i + 1]])
          /\ \A j \in 1..C : n[j] < p[i + 1]
      BY <1>9, <3>1
    <3> QED
      BY <3>1, <3>2
  <2> QED
    BY <2>1
<1>12. \A i, j \in 1..L :
         i < j /\ TakenForId(g, next, i) /\ TakenForId(g, next, j) => q[i] < q[j]
  <2>1. ASSUME NEW i \in 1..L, NEW j \in 1..L, i < j,
               TakenForId(g, next, i), TakenForId(g, next, j)
        PROVE  q[i] < q[j]
    <3>1. i + 1 < j + 1 /\ TakenForId(f, pc, i + 1) /\ TakenForId(f, pc, j + 1)
      BY <1>8, <2>1
    <3>2. p[i + 1] < p[j + 1]
      BY <1>9, <1>10, <3>1
    <3> QED
      BY <1>7, <3>2
  <2> QED
    BY <2>1
<1>13. InOrder(cs, hs, g, next, k)
  <2>1. HeaderOf(cs, hs, g, next, k, n, q)
    BY <1>3, <1>4, <1>9, <1>11, <1>12 DEF HeaderOf
  <2> QED
    BY <1>3, <1>7, <2>1 DEF InOrder
<1>14. ASSUME pc = "id"
       PROVE  \E m \in 1..k : Head(f) = Pid(hs[m]) /\ InOrder(Append(cs, hs[m]), hs, g, next, k)
  <2>1. PICK m : m = p[1]
    OBVIOUS
  <2>2. TakenForId(f, pc, 1) /\ 1 \in 1..(L + 1)
    BY <1>14 DEF TakenForId
  <2>3. m \in 1..k /\ f[1] = Pid(hs[m]) /\ \A j \in 1..C : n[j] < m
    BY <1>9, <2>1, <2>2
  <2>4. hs[m] \in Ids
    <3>1. Len(hs) \in Nat
      BY LenProperties
    <3>2. m \in 1..Len(hs)
      BY <2>3, <3>1
    <3> QED
      BY <3>2, ElementOfSeq
  <2>5. PICK c : c = Append(cs, hs[m])
    OBVIOUS
  <2>6. Len(c) = C + 1 /\ c[C + 1] = hs[m] /\ \A i \in 1..C : c[i] = cs[i]
    BY <1>4, <2>4, <2>5, AppendProperties
  <2>7. PICK r : r = [i \in 1..(C + 1) |-> IF i = C + 1 THEN m ELSE n[i]]
    OBVIOUS
  <2>8. r \in [1..(C + 1) -> 1..k] /\ r[C + 1] = m /\ \A i \in 1..C : r[i] = n[i]
    BY <1>4, <2>3, <2>7
  <2>9. \A i \in 1..(C + 1) : i \in 1..C \/ i = C + 1
    OBVIOUS
  <2>10. \A i \in 1..(C + 1) : c[i] = hs[r[i]]
    BY <1>9, <2>6, <2>8, <2>9
  <2>11. ASSUME NEW i \in 1..(C + 1), NEW j \in 1..(C + 1), i < j PROVE r[i] < r[j]
    <3>1. i \in 1..C /\ r[i] = n[i]
      BY <2>8, <2>11
    <3>2. CASE j = C + 1
      BY <2>3, <2>8, <3>1, <3>2
    <3>3. CASE j \in 1..C
      BY <1>9, <2>8, <2>11, <3>1, <3>3
    <3> QED
      BY <2>9, <3>2, <3>3
  <2>12. ASSUME NEW i \in 1..L, TakenForId(g, next, i), NEW j \in 1..(C + 1)
         PROVE  r[j] < q[i]
    <3>1. m < q[i]
      <4>1. TakenForId(f, pc, i + 1) /\ 1 < i + 1 /\ i + 1 \in 1..(L + 1)
        BY <1>8, <1>10, <2>12
      <4>2. p[1] < p[i + 1]
        BY <1>9, <2>2, <4>1
      <4> QED
        BY <1>7, <2>1, <4>2
    <3> QED
      BY <1>11, <2>8, <2>9, <2>12, <3>1
  <2>13. HeaderOf(c, hs, g, next, k, r, q)
    BY <1>3, <1>11, <1>12, <2>6, <2>10, <2>11, <2>12 DEF HeaderOf
  <2>14. InOrder(c, hs, g, next, k)
    BY <1>3, <1>7, <2>6, <2>8, <2>13 DEF InOrder
  <2> QED
    BY <1>5, <2>3, <2>5, <2>14
<1>15. AwaitsId(g, next) <=> AwaitsId(f, pc)
  <2>1. CASE L = 0
    <3>1. g = <<>>
      BY <1>3, <1>5, <2>1, EmptySeq
    <3>2. f[Len(f)] = Head(f)
      BY <1>3, <1>5, <2>1
    <3> QED
      BY <3>1, <3>2 DEF AwaitsId
  <2>2. CASE L # 0
    <3>1. g # <<>> /\ L \in 1..L
      BY <1>3, <2>2, EmptySeq
    <3>2. g[Len(g)] = f[Len(f)]
      BY <1>3, <1>5, <3>1
    <3> QED
      BY <3>1, <3>2 DEF AwaitsId
  <2> QED
    BY <2>1, <2>2
<1> QED
  BY <1>2, <1>13, <1>14, <1>15
-----------------------------------------------------------------------------
(***************************************************************************)
(* While nothing is disturbed and nobody sends 0x55 as data, a 0x55 on its *)
(* way to the slave is followed by the identifier of the last header.      *)
(***************************************************************************)
Undisturbed == ~disturbed /\ \A f \in published : f[2] # Sync

LastPid == Pid(headers[Len(headers)])

(* The slave has not got the identifier of the last header yet.            *)
IdToCome ==
    \/ AwaitsId(slaveFifo, slavePc)
    \/ masterWire # <<>> /\ masterWire[1] = Sync

HeadersHeard == IF IdToCome THEN Len(headers) - 1 ELSE Len(headers)

SyncsFollowed ==
    /\ \A i \in 1..Len(slaveWire) : slaveWire[i] # Sync
    /\ \A i \in 1..Len(masterWire) :
           masterWire[i] = Sync => i = 1 /\ Len(masterWire) >= 2 /\ masterWire[2] = LastPid
    /\ AwaitsId(slaveFifo, slavePc) => masterWire # <<>> /\ masterWire[1] = LastPid
    /\ IdToCome => Len(headers) # 0

CallsInOrder == InOrder(called, headers, slaveFifo, slavePc, HeadersHeard)

LinOrder ==
    /\ LinCarried
    /\ headers \in Seq(Ids) /\ Len(slaveFifo) <= LinFifoSize
    /\ Undisturbed => called \in Seq(Ids) /\ SyncsFollowed /\ CallsInOrder

(* Types that the proofs below need.                                       *)
LEMMA LinOrderTypes ==
  ASSUME LinOrder
  PROVE  /\ headers \in Seq(Ids) /\ Len(headers) \in Nat
         /\ slaveFifo \in Seq(LinBytes(published)) /\ Len(slaveFifo) \in Nat
         /\ slaveWire \in Seq(LinBytes(published)) /\ Len(slaveWire) \in Nat
         /\ masterWire \in Seq(LinBytes(published)) /\ Len(masterWire) \in Nat
         /\ Undisturbed => called \in Seq(Ids) /\ HeadersHeard \in 0..Len(headers)
<1>1. /\ headers \in Seq(Ids)
      /\ slaveFifo \in Seq(LinBytes(published))
      /\ slaveWire \in Seq(LinBytes(published))
      /\ masterWire \in Seq(LinBytes(published))
      /\ Undisturbed => called \in Seq(Ids)
  BY DEF LinOrder, LinCarried
<1>2. Len(headers) \in Nat
  BY <1>1, LenProperties
<1>3. Undisturbed => HeadersHeard \in 0..Len(headers)
  BY <1>2 DEF LinOrder, SyncsFollowed, HeadersHeard
<1> QED
  BY <1>1, <1>2, <1>3, LenProperties

(* An identifier and a checksum are no sync bytes.                         *)
LEMMA PidIsNoSync ==
  /\ \A id : Pid(id) # Sync /\ Unprotected(Pid(id)) = {id}
  /\ \A id, d : Checksum(id, d) # Sync
<1>1. ASSUME NEW id PROVE Pid(id)[1] = "id" /\ Pid(id)[2] = id
  BY DEF Pid
<1>2. ASSUME NEW id, NEW d PROVE Checksum(id, d)[1] = "checksum"
  BY DEF Checksum
<1>3. Sync[1] = "sync"
  BY DEF Sync
<1> QED
  BY <1>1, <1>2, <1>3 DEF Unprotected

(* Nothing undoes a disturbance.                                           *)
LEMMA UndisturbedBefore ==
  ASSUME LinNext, Undisturbed'
  PROVE  Undisturbed
<1>1. published \subseteq published'
  BY DEF LinNext, LinInterrupt, Line, Carry, SendHeader, OnIdReceived, ReceiveFrame, Slave,
         SlaveSync, SlaveId, historyVars
<1>2. disturbed => disturbed'
  <2>1. CASE Line
    BY <2>1 DEF Line, Carry
  <2>2. CASE LinInterrupt \/ OnIdReceived \/ ReceiveFrame \/ Slave \/ \E id \in Ids : SendHeader(id)
    <3>1. disturbed' = disturbed
      BY <2>2 DEF LinInterrupt, OnIdReceived, ReceiveFrame, Slave, SendHeader, historyVars
    <3> QED
      BY <3>1
  <2> QED
    BY <2>1, <2>2 DEF LinNext
<1> QED
  BY <1>1, <1>2 DEF Undisturbed

(* A wire with data and checksum on it after what was there.               *)
LEMMA FrameOnWire ==
  ASSUME NEW frames, NEW wire \in Seq(LinBytes(frames)), NEW id, NEW d \in Data, d # Sync
  PROVE  /\ Len(wire \o Frame(id, d)) = Len(wire) + 2
         /\ \A i \in 1..Len(wire) : (wire \o Frame(id, d))[i] = wire[i]
         /\ \A i \in 1..(Len(wire) + 2) :
                (wire \o Frame(id, d))[i] = Sync => i \in 1..Len(wire)
<1> DEFINE B == LinBytes(frames \cup {<<id, d>>})  t == Frame(id, d)
<1>1. wire \in Seq(B) /\ Len(wire) \in Nat
  BY LinBytesGrow, LenProperties
<1>2. t \in Seq(B) /\ Len(t) = 2 /\ t[1] = d /\ t[2] = Checksum(id, d)
  <2>1. d \in B /\ Checksum(id, d) \in B
    <3>1. <<id, d>> \in frames \cup {<<id, d>>} /\ <<id, d>>[1] = id /\ <<id, d>>[2] = d
      OBVIOUS
    <3> QED
      BY <3>1 DEF LinBytes
  <2> QED
    BY <2>1 DEF Frame
<1>3. Checksum(id, d) # Sync
  BY PidIsNoSync
<1> HIDE DEF B, t
<1>4. /\ Len(wire \o t) = Len(wire) + Len(t)
      /\ \A i \in 1..(Len(wire) + Len(t)) :
             (wire \o t)[i] = IF i <= Len(wire) THEN wire[i] ELSE t[i - Len(wire)]
  BY <1>1, <1>2, ConcatProperties
<1>5. \A i \in 1..(Len(wire) + 2) : i \in 1..Len(wire) \/ i = Len(wire) + 1 \/ i = Len(wire) + 2
  BY <1>1
<1>6. (wire \o t)[Len(wire) + 1] = d /\ (wire \o t)[Len(wire) + 2] = Checksum(id, d)
  BY <1>1, <1>2, <1>4
<1>7. \A i \in 1..Len(wire) : (wire \o t)[i] = wire[i]
  BY <1>1, <1>2, <1>4
<1>8. \A i \in 1..(Len(wire) + 2) : (wire \o t)[i] = Sync => i \in 1..Len(wire)
  BY <1>3, <1>5, <1>6
<1> QED
  BY <1>2, <1>4, <1>7, <1>8 DEF t

(* A byte that came for the slave decides whether it awaits an identifier. *)
LEMMA LastByteDecides ==
  ASSUME NEW S, NEW f \in Seq(S), NEW b \in S, NEW pc
  PROVE  AwaitsId(Append(f, b), pc) <=> b = Sync
BY AppendProperties DEF AwaitsId

(* A byte of the master reaches the slave.                                 *)
LEMMA MasterByteInOrder ==
  ASSUME LinOrder, Undisturbed, masterWire # <<>>, slaveWire = <<>>,
         masterWire' = Tail(masterWire), slaveFifo' = Append(slaveFifo, Head(masterWire)),
         UNCHANGED <<slaveWire, slavePc, headers, called>>
  PROVE  SyncsFollowed' /\ CallsInOrder'
<1>1. PICK b : b = Head(masterWire)
  OBVIOUS
<1>2. /\ b \in LinBytes(published) /\ b = masterWire[1] /\ 1 \in 1..Len(masterWire)
      /\ masterWire' \in Seq(LinBytes(published))
      /\ Len(masterWire') \in Nat /\ Len(masterWire') = Len(masterWire) - 1
      /\ \A i \in 1..Len(masterWire') : masterWire'[i] = masterWire[i + 1]
  <2>1. masterWire' \in Seq(LinBytes(published)) /\ Len(masterWire') = Len(masterWire) - 1
    BY LinOrderTypes, HeadTailProperties
  <2>2. Len(masterWire') \in Nat /\ Len(masterWire) \in Nat
    BY <2>1, LinOrderTypes, LenProperties
  <2> QED
    BY <1>1, <2>1, <2>2, LinOrderTypes, HeadTailProperties
<1>3. SyncsFollowed /\ CallsInOrder
  BY DEF LinOrder
<1>4. \A i \in 1..Len(masterWire') : masterWire'[i] # Sync
  <2>1. \A i \in 1..Len(masterWire') : i + 1 \in 1..Len(masterWire) /\ i + 1 # 1
    BY <1>2, LinOrderTypes
  <2> QED
    BY <1>2, <1>3, <2>1 DEF SyncsFollowed
<1>5. AwaitsId(slaveFifo, slavePc)' <=> b = Sync
  BY <1>1, <1>2, LinOrderTypes, LastByteDecides
<1>6. IdToCome' <=> b = Sync
  <2>1. masterWire' # <<>> => 1 \in 1..Len(masterWire')
    BY <1>2, EmptySeq
  <2> QED
    BY <1>4, <1>5, <2>1 DEF IdToCome
<1>7. \A i \in 1..Len(slaveWire') : slaveWire'[i] # Sync
  BY <1>3 DEF SyncsFollowed
<1>8. CASE b = Sync
  <2>1. IdToCome /\ Len(masterWire) >= 2 /\ masterWire[2] = LastPid
    BY <1>2, <1>3, <1>8 DEF IdToCome, SyncsFollowed
  <2>2. ~AwaitsId(slaveFifo, slavePc)
    BY <1>2, <1>3, <1>8, PidIsNoSync DEF SyncsFollowed, LastPid
  <2>3. HeadersHeard' = HeadersHeard /\ LastPid' = LastPid
    BY <1>6, <1>8, <2>1 DEF HeadersHeard, LastPid
  <2>4. SyncsFollowed'
    <3>1. 1 \in 1..Len(masterWire') /\ masterWire'[1] = LastPid' /\ masterWire' # <<>>
      BY <1>2, <2>1, <2>3, EmptySeq
    <3>2. Len(headers') # 0
      BY <1>3, <2>1 DEF SyncsFollowed
    <3> QED
      BY <1>4, <1>7, <3>1, <3>2 DEF SyncsFollowed
  <2>5. CallsInOrder'
    <3>1. HeadersHeard \in Nat
      BY LinOrderTypes
    <3>2. InOrder(called, headers, Append(slaveFifo, b), slavePc, HeadersHeard)
      BY <1>2, <1>3, <2>2, <3>1, LinOrderTypes, ByteJoins DEF CallsInOrder
    <3> QED
      BY <1>1, <2>3, <3>2 DEF CallsInOrder
  <2> QED
    BY <2>4, <2>5
<1>9. CASE b # Sync
  <2>1. ~IdToCome' /\ HeadersHeard' = Len(headers)
    BY <1>6, <1>9 DEF HeadersHeard
  <2>2. SyncsFollowed'
    BY <1>4, <1>5, <1>7, <1>9, <2>1 DEF SyncsFollowed
  <2>3. CASE AwaitsId(slaveFifo, slavePc)
    <3>1. PICK k \in Nat : k + 1 = Len(headers) /\ HeadersHeard = k
      <4>1. IdToCome /\ Len(headers) # 0
        BY <1>3, <2>3 DEF IdToCome, SyncsFollowed
      <4>2. Len(headers) - 1 \in Nat /\ (Len(headers) - 1) + 1 = Len(headers)
        BY <4>1, LinOrderTypes
      <4>3. HeadersHeard = Len(headers) - 1
        BY <4>1 DEF HeadersHeard
      <4> QED
        BY <4>2, <4>3
    <3>2. b = Pid(headers[k + 1])
      BY <1>2, <1>3, <2>3, <3>1 DEF SyncsFollowed, LastPid
    <3>3. InOrder(called, headers, slaveFifo, slavePc, k)
      BY <1>3, <3>1 DEF CallsInOrder
    <3>4. InOrder(called, headers, Append(slaveFifo, b), slavePc, k + 1)
      BY <1>2, <3>2, <3>3, LinOrderTypes, ByteJoins
    <3>5. CallsInOrder'
      BY <1>1, <2>1, <3>1, <3>4 DEF CallsInOrder
    <3> QED
      BY <2>2, <3>5
  <2>4. CASE ~AwaitsId(slaveFifo, slavePc)
    <3>1. HeadersHeard = Len(headers)
      BY <1>2, <1>9, <2>4 DEF HeadersHeard, IdToCome
    <3>2. InOrder(called, headers, Append(slaveFifo, b), slavePc, HeadersHeard)
      BY <1>2, <1>3, <2>4, <3>1, LinOrderTypes, ByteJoins DEF CallsInOrder
    <3>3. CallsInOrder'
      BY <1>1, <2>1, <3>1, <3>2 DEF CallsInOrder
    <3> QED
      BY <2>2, <3>3
  <2> QED
    BY <2>3, <2>4
<1> QED
  BY <1>8, <1>9

(* A byte of the slave reaches it.                                         *)
LEMMA SlaveByteInOrder ==
  ASSUME LinOrder, Undisturbed, slaveWire # <<>>, masterWire = <<>>,
         slaveWire' = Tail(slaveWire), slaveFifo' = Append(slaveFifo, Head(slaveWire)),
         UNCHANGED <<masterWire, slavePc, headers, called>>
  PROVE  SyncsFollowed' /\ CallsInOrder'
<1>1. PICK b : b = Head(slaveWire)
  OBVIOUS
<1>2. /\ b \in LinBytes(published) /\ b = slaveWire[1] /\ 1 \in 1..Len(slaveWire)
      /\ Len(slaveWire') \in Nat /\ Len(slaveWire') = Len(slaveWire) - 1
      /\ \A i \in 1..Len(slaveWire') : slaveWire'[i] = slaveWire[i + 1]
  <2>1. slaveWire' \in Seq(LinBytes(published)) /\ Len(slaveWire') = Len(slaveWire) - 1
    BY LinOrderTypes, HeadTailProperties
  <2>2. Len(slaveWire') \in Nat /\ Len(slaveWire) \in Nat
    BY <2>1, LinOrderTypes, LenProperties
  <2> QED
    BY <1>1, <2>1, <2>2, LinOrderTypes, HeadTailProperties
<1>3. SyncsFollowed /\ CallsInOrder
  BY DEF LinOrder
<1>4. b # Sync /\ \A i \in 1..Len(slaveWire') : slaveWire'[i] # Sync
  <2>1. \A i \in 1..Len(slaveWire') : i + 1 \in 1..Len(slaveWire)
    BY <1>2, LinOrderTypes
  <2> QED
    BY <1>2, <1>3, <2>1 DEF SyncsFollowed
<1>5. ~AwaitsId(slaveFifo, slavePc)' /\ ~AwaitsId(slaveFifo, slavePc)
  <2>1. ~AwaitsId(slaveFifo, slavePc)'
    BY <1>1, <1>2, <1>4, LinOrderTypes, LastByteDecides
  <2> QED
    BY <1>3, <2>1 DEF SyncsFollowed
<1>6. ~IdToCome /\ ~IdToCome' /\ HeadersHeard = Len(headers) /\ HeadersHeard' = Len(headers)
  BY <1>5 DEF IdToCome, HeadersHeard
<1>7. Len(masterWire') = 0
  BY EmptySeq
<1>8. SyncsFollowed'
  BY <1>4, <1>5, <1>6, <1>7 DEF SyncsFollowed
<1>9. CallsInOrder'
  <2>1. InOrder(called, headers, Append(slaveFifo, b), slavePc, HeadersHeard)
    BY <1>2, <1>3, <1>5, <1>6, LinOrderTypes, ByteJoins DEF CallsInOrder
  <2> QED
    BY <1>1, <1>6, <2>1 DEF CallsInOrder
<1> QED
  BY <1>8, <1>9
(* A byte reaches the slave.                                               *)
LEMMA LineInOrder ==
  ASSUME LinOrder, Undisturbed, Undisturbed', Line
  PROVE  SyncsFollowed' /\ CallsInOrder' /\ UNCHANGED <<headers, called>>
<1>1. ASSUME NEW byte, Carry(byte)
      PROVE  /\ slaveFifo' = Append(slaveFifo, byte)
             /\ ~(masterWire # <<>> /\ slaveWire # <<>>)
             /\ UNCHANGED <<slavePc, headers, called>>
  <2>1. Len(slaveFifo) # LinFifoSize /\ ~(masterWire # <<>> /\ slaveWire # <<>>)
    BY <1>1 DEF Carry, Undisturbed
  <2>2. Len(slaveFifo) < LinFifoSize
    BY <2>1, LinOrderTypes, LinAssumption DEF LinOrder
  <2> QED
    BY <1>1, <2>1, <2>2 DEF Carry, Received
<1>2. CASE /\ masterWire # <<>> /\ Carry(Head(masterWire))
           /\ masterWire' = Tail(masterWire) /\ UNCHANGED slaveWire
  BY <1>1, <1>2, MasterByteInOrder
<1>3. CASE /\ slaveWire # <<>> /\ Carry(Head(slaveWire))
           /\ slaveWire' = Tail(slaveWire) /\ UNCHANGED masterWire
  BY <1>1, <1>3, SlaveByteInOrder
<1> QED
  BY <1>2, <1>3 DEF Line

(* The master sends a header.                                              *)
LEMMA HeaderInOrder ==
  ASSUME LinOrder, Undisturbed, NEW id \in Ids, SendHeader(id)
  PROVE  SyncsFollowed' /\ CallsInOrder' /\ headers' \in Seq(Ids) /\ UNCHANGED called
<1>1. SyncsFollowed /\ CallsInOrder /\ called \in Seq(Ids)
  BY DEF LinOrder
<1>2. /\ masterWire = <<>> /\ masterWire' = <<Sync, Pid(id)>>
      /\ headers' = Append(headers, id)
      /\ UNCHANGED <<slaveWire, slaveFifo, slavePc, called>>
  BY DEF SendHeader
<1>3. /\ headers' \in Seq(Ids) /\ Len(headers') = Len(headers) + 1
      /\ headers'[Len(headers) + 1] = id
  BY <1>2, LinOrderTypes, AppendProperties
<1>4. ~AwaitsId(slaveFifo, slavePc) /\ ~AwaitsId(slaveFifo, slavePc)'
  BY <1>1, <1>2 DEF SyncsFollowed
<1>5. /\ Len(masterWire') = 2 /\ masterWire' # <<>>
      /\ masterWire'[1] = Sync /\ masterWire'[2] = Pid(id) /\ Pid(id) # Sync
  BY <1>2, PidIsNoSync
<1>6. ~IdToCome /\ IdToCome'
  BY <1>2, <1>4, <1>5 DEF IdToCome
<1>7. HeadersHeard = Len(headers)
  BY <1>6 DEF HeadersHeard
<1>8. HeadersHeard' = Len(headers)
  <2>1. HeadersHeard' = Len(headers') - 1
    BY <1>6 DEF HeadersHeard
  <2> QED
    BY <1>3, <2>1, LinOrderTypes
<1>9. SyncsFollowed'
  <2>1. LastPid' = Pid(id)
    BY <1>3 DEF LastPid
  <2>2. Len(headers') # 0
    BY <1>3, LinOrderTypes
  <2>3. \A i \in 1..2 : i = 1 \/ i = 2
    OBVIOUS
  <2>4. \A i \in 1..Len(masterWire') : masterWire'[i] = Sync =>
          i = 1 /\ Len(masterWire') >= 2 /\ masterWire'[2] = LastPid'
    BY <1>5, <2>1, <2>3
  <2>5. \A i \in 1..Len(slaveWire') : slaveWire'[i] # Sync
    BY <1>1, <1>2 DEF SyncsFollowed
  <2> QED
    BY <1>4, <2>2, <2>4, <2>5 DEF SyncsFollowed
<1>10. CallsInOrder'
  <2>1. HeadersHeard \in 0..Len(headers)
    BY LinOrderTypes
  <2>2. InOrder(called, Append(headers, id), slaveFifo, slavePc, HeadersHeard)
    BY <1>1, <2>1, LinOrderTypes, HeaderAppended DEF CallsInOrder
  <2> QED
    BY <1>2, <1>7, <1>8, <2>2 DEF CallsInOrder
<1> QED
  BY <1>2, <1>3, <1>9, <1>10

(* The master publishes the frame, or goes to receive it.                  *)
LEMMA MasterFrameInOrder ==
  ASSUME LinOrder, Undisturbed, Undisturbed', OnIdReceived
  PROVE  SyncsFollowed' /\ CallsInOrder' /\ UNCHANGED <<headers, called>>
<1>1. SyncsFollowed /\ CallsInOrder
  BY DEF LinOrder
<1>2. UNCHANGED <<slaveWire, slaveFifo, slavePc, headers, called>>
  BY DEF OnIdReceived
<1>3. CASE UNCHANGED masterWire
  <2>1. /\ IdToCome' = IdToCome /\ LastPid' = LastPid
        /\ AwaitsId(slaveFifo, slavePc)' = AwaitsId(slaveFifo, slavePc)
    BY <1>2, <1>3 DEF IdToCome, LastPid
  <2>2. HeadersHeard' = HeadersHeard
    BY <1>2, <2>1 DEF HeadersHeard
  <2>3. SyncsFollowed'
    BY <1>1, <1>2, <1>3, <2>1 DEF SyncsFollowed
  <2>4. CallsInOrder'
    BY <1>1, <1>2, <2>2 DEF CallsInOrder
  <2> QED
    BY <1>2, <2>3, <2>4
<1>4. ASSUME NEW d \in Data, masterWire' = masterWire \o Frame(wanted, d),
             published' = published \cup {<<wanted, d>>}
      PROVE  SyncsFollowed' /\ CallsInOrder'
  <2>1. d # Sync
    <3>1. <<wanted, d>> \in published' /\ <<wanted, d>>[2] = d
      BY <1>4
    <3> QED
      BY <3>1 DEF Undisturbed
  <2>2. /\ Len(masterWire') = Len(masterWire) + 2
        /\ \A i \in 1..Len(masterWire) : masterWire'[i] = masterWire[i]
        /\ \A i \in 1..(Len(masterWire) + 2) : masterWire'[i] = Sync => i \in 1..Len(masterWire)
    BY <1>4, <2>1, LinOrderTypes, FrameOnWire
  <2>3. PICK W \in Nat : W = Len(masterWire)
    BY LinOrderTypes
  <2>4. masterWire # <<>> => 1 \in 1..W
    <3>1. masterWire # <<>> => W # 0
      BY <2>3, LinOrderTypes, EmptySeq
    <3> QED
      BY <3>1
  <2>5. masterWire' # <<>>
    <3>1. Len(masterWire') # 0
      BY <2>2, <2>3
    <3> QED
      BY <3>1, EmptySeq
  <2>6. W = 0 => masterWire = <<>> /\ masterWire'[1] # Sync
    <3>1. W = 0 => masterWire = <<>>
      BY <2>3, LinOrderTypes, EmptySeq
    <3>2. W = 0 => ~(1 \in 1..W) /\ 1 \in 1..(W + 2)
      OBVIOUS
    <3> QED
      BY <2>2, <2>3, <3>1, <3>2
  <2>7. IdToCome' <=> IdToCome
    <3>1. W # 0 => 1 \in 1..W /\ masterWire # <<>>
      BY <2>3, EmptySeq
    <3> QED
      BY <1>2, <2>2, <2>3, <2>5, <2>6, <3>1 DEF IdToCome
  <2>8. LastPid' = LastPid /\ HeadersHeard' = HeadersHeard
    BY <1>2, <2>7 DEF LastPid, HeadersHeard
  <2>9. ASSUME NEW i \in 1..Len(masterWire'), masterWire'[i] = Sync
        PROVE  i = 1 /\ Len(masterWire') >= 2 /\ masterWire'[2] = LastPid'
    <3>1. i \in 1..W /\ masterWire[i] = Sync
      BY <2>2, <2>3, <2>9
    <3>2. i = 1 /\ W >= 2 /\ masterWire[2] = LastPid
      BY <1>1, <2>3, <3>1 DEF SyncsFollowed
    <3>3. 2 \in 1..W
      BY <3>2
    <3> QED
      BY <2>2, <2>3, <2>8, <3>2, <3>3
  <2>10. AwaitsId(slaveFifo, slavePc)' => masterWire'[1] = LastPid'
    <3>1. AwaitsId(slaveFifo, slavePc)' => masterWire # <<>> /\ masterWire[1] = LastPid
      BY <1>1, <1>2 DEF SyncsFollowed
    <3> QED
      BY <2>2, <2>3, <2>4, <2>8, <3>1
  <2>11. SyncsFollowed'
    <3>1. \A i \in 1..Len(slaveWire') : slaveWire'[i] # Sync
      BY <1>1, <1>2 DEF SyncsFollowed
    <3>2. IdToCome' => Len(headers') # 0
      BY <1>1, <1>2, <2>7 DEF SyncsFollowed
    <3> QED
      BY <2>5, <2>9, <2>10, <3>1, <3>2 DEF SyncsFollowed
  <2>12. CallsInOrder'
    BY <1>1, <1>2, <2>8 DEF CallsInOrder
  <2> QED
    BY <2>11, <2>12
<1> QED
  BY <1>2, <1>3, <1>4 DEF OnIdReceived
(* The slave reads a byte: the sync byte, or one it takes for an           *)
(* identifier, and then it may send its frame.                             *)
LEMMA SlaveReadsInOrder ==
  ASSUME LinOrder, Undisturbed, Undisturbed', Slave
  PROVE  SyncsFollowed' /\ CallsInOrder' /\ called' \in Seq(Ids) /\ UNCHANGED headers
<1>1. SyncsFollowed /\ CallsInOrder /\ called \in Seq(Ids)
  BY DEF LinOrder
<1>2. /\ slaveFifo # <<>> /\ slaveFifo' = Tail(slaveFifo)
      /\ UNCHANGED <<masterWire, headers>>
  BY DEF Slave, SlaveSync, SlaveId
<1>3. PICK next : next = IF Head(slaveFifo) = Sync THEN "id" ELSE "sync"
  OBVIOUS
<1>4. PICK k \in 0..Len(headers) : k = HeadersHeard
  BY LinOrderTypes
<1>5. /\ InOrder(called, headers, slaveFifo', next, k)
      /\ slavePc = "id" =>
             \E m \in 1..k : /\ Head(slaveFifo) = Pid(headers[m])
                             /\ InOrder(Append(called, headers[m]), headers, slaveFifo', next, k)
      /\ AwaitsId(slaveFifo', next) <=> AwaitsId(slaveFifo, slavePc)
  <2>1. next = "id" <=> Head(slaveFifo) = Sync
    BY <1>3
  <2>2. InOrder(called, headers, slaveFifo, slavePc, k)
    BY <1>1, <1>4 DEF CallsInOrder
  <2>3. slaveFifo \in Seq(LinBytes(published)) /\ headers \in Seq(Ids)
    BY LinOrderTypes
  <2>4. /\ InOrder(called, headers, Tail(slaveFifo), next, k)
        /\ slavePc = "id" =>
             \E m \in 1..k :
                 /\ Head(slaveFifo) = Pid(headers[m])
                 /\ InOrder(Append(called, headers[m]), headers, Tail(slaveFifo), next, k)
        /\ AwaitsId(Tail(slaveFifo), next) <=> AwaitsId(slaveFifo, slavePc)
    BY <1>1, <1>2, <2>1, <2>2, <2>3, ByteLeaves
  <2> QED
    BY <1>2, <2>4
<1>6. ASSUME slavePc' = next, \A i \in 1..Len(slaveWire') : slaveWire'[i] # Sync
      PROVE  SyncsFollowed' /\ HeadersHeard' = k
  <2>1. /\ AwaitsId(slaveFifo, slavePc)' <=> AwaitsId(slaveFifo, slavePc)
        /\ IdToCome' <=> IdToCome
        /\ LastPid' = LastPid
    BY <1>2, <1>5, <1>6 DEF IdToCome, LastPid
  <2>2. HeadersHeard' = k
    BY <1>2, <1>4, <2>1 DEF HeadersHeard
  <2>3. SyncsFollowed'
    BY <1>1, <1>2, <1>6, <2>1 DEF SyncsFollowed
  <2> QED
    BY <2>2, <2>3
<1>7. CASE SlaveSync
  <2>1. slavePc' = next /\ UNCHANGED <<slaveWire, called>>
    BY <1>3, <1>7 DEF SlaveSync
  <2>2. \A i \in 1..Len(slaveWire') : slaveWire'[i] # Sync
    BY <1>1, <2>1 DEF SyncsFollowed
  <2>3. SyncsFollowed' /\ HeadersHeard' = k
    BY <1>6, <2>1, <2>2
  <2>4. CallsInOrder'
    BY <1>2, <1>5, <2>1, <2>3 DEF CallsInOrder
  <2> QED
    BY <1>1, <1>2, <2>1, <2>3, <2>4
<1>8. CASE SlaveId
  <2>1. PICK m \in 1..k :
          /\ Head(slaveFifo) = Pid(headers[m])
          /\ InOrder(Append(called, headers[m]), headers, slaveFifo', next, k)
    BY <1>5, <1>8 DEF SlaveId
  <2>2. slavePc' = next
    BY <1>3, <1>8, <2>1, PidIsNoSync DEF SlaveId
  <2>3. Unprotected(Head(slaveFifo)) = {headers[m]}
    BY <2>1, PidIsNoSync
  <2>4. /\ called' = Append(called, headers[m])
        /\ \/ UNCHANGED slaveWire
           \/ \E d \in Data : /\ slaveWire' = slaveWire \o Frame(headers[m], d)
                              /\ published' = published \cup {<<headers[m], d>>}
    BY <1>8, <2>3 DEF SlaveId
  <2>5. headers[m] \in Ids
    <3>1. m \in 1..Len(headers)
      BY LinOrderTypes
    <3> QED
      BY <3>1, LinOrderTypes, ElementOfSeq
  <2>6. called' \in Seq(Ids)
    BY <1>1, <2>4, <2>5, AppendProperties
  <2>7. \A i \in 1..Len(slaveWire') : slaveWire'[i] # Sync
    <3>1. CASE UNCHANGED slaveWire
      BY <1>1, <3>1 DEF SyncsFollowed
    <3>2. ASSUME NEW d \in Data, slaveWire' = slaveWire \o Frame(headers[m], d),
                 published' = published \cup {<<headers[m], d>>}
          PROVE  \A i \in 1..Len(slaveWire') : slaveWire'[i] # Sync
      <4>1. d # Sync
        <5>1. <<headers[m], d>> \in published' /\ <<headers[m], d>>[2] = d
          BY <3>2
        <5> QED
          BY <5>1 DEF Undisturbed
      <4>2. /\ Len(slaveWire') = Len(slaveWire) + 2
            /\ \A i \in 1..Len(slaveWire) : slaveWire'[i] = slaveWire[i]
            /\ \A i \in 1..(Len(slaveWire) + 2) :
                   slaveWire'[i] = Sync => i \in 1..Len(slaveWire)
        BY <3>2, <4>1, LinOrderTypes, FrameOnWire
      <4> QED
        BY <1>1, <4>2 DEF SyncsFollowed
    <3> QED
      BY <2>4, <3>1, <3>2
  <2>8. SyncsFollowed' /\ HeadersHeard' = k
    BY <1>6, <2>2, <2>7
  <2>9. CallsInOrder'
    BY <1>2, <2>1, <2>2, <2>4, <2>8 DEF CallsInOrder
  <2> QED
    BY <1>2, <2>6, <2>8, <2>9
<1> QED
  BY <1>7, <1>8 DEF Slave

(* Every step of the LIN bus keeps the order.                              *)
LEMMA LinStepInOrder ==
  ASSUME LinOrder, LinNext
  PROVE  LinOrder'
<1>1. LinCarried'
  BY LinStepCarries DEF LinOrder
<1>2. headers' \in Seq(Ids)
  <2>1. CASE \E id \in Ids : SendHeader(id)
    BY <2>1, LinOrderTypes, AppendProperties DEF SendHeader
  <2>2. CASE LinInterrupt \/ Line \/ OnIdReceived \/ ReceiveFrame \/ Slave
    <3>1. headers' = headers
      BY <2>2 DEF LinInterrupt, Line, Carry, OnIdReceived, ReceiveFrame, Slave, historyVars
    <3> QED
      BY <3>1, LinOrderTypes
  <2> QED
    BY <2>1, <2>2 DEF LinNext
<1>3. Len(slaveFifo') <= LinFifoSize
  <2>1. CASE UNCHANGED slaveFifo
    BY <2>1 DEF LinOrder
  <2>2. CASE Slave
    <3>1. slaveFifo # <<>> /\ slaveFifo' = Tail(slaveFifo)
      BY <2>2 DEF Slave, SlaveSync, SlaveId
    <3>2. Len(slaveFifo') = Len(slaveFifo) - 1
      BY <3>1, LinOrderTypes, HeadTailProperties
    <3> QED
      BY <3>2, LinOrderTypes, LinAssumption DEF LinOrder
  <2>3. CASE Line
    <3>1. PICK byte \in LinBytes(published) : slaveFifo' = Received(slaveFifo, byte)
      BY <2>3, LinOrderTypes, HeadTailProperties DEF Line, Carry
    <3>2. CASE Len(slaveFifo) < LinFifoSize
      <4>1. Len(slaveFifo') = Len(slaveFifo) + 1
        BY <3>1, <3>2, LinOrderTypes, AppendProperties DEF Received
      <4> QED
        BY <3>2, <4>1, LinOrderTypes, LinAssumption
    <3>3. CASE ~(Len(slaveFifo) < LinFifoSize)
      BY <3>1, <3>3 DEF Received, LinOrder
    <3> QED
      BY <3>2, <3>3
  <2> QED
    BY <2>1, <2>2, <2>3 DEF LinNext, LinInterrupt, SendHeader, OnIdReceived, ReceiveFrame
<1>4. ASSUME Undisturbed' PROVE called' \in Seq(Ids) /\ SyncsFollowed' /\ CallsInOrder'
  <2>1. Undisturbed /\ called \in Seq(Ids) /\ SyncsFollowed /\ CallsInOrder
    BY <1>4, UndisturbedBefore DEF LinOrder
  <2>2. CASE Line
    BY <1>4, <2>1, <2>2, LineInOrder
  <2>3. CASE \E id \in Ids : SendHeader(id)
    BY <2>1, <2>3, HeaderInOrder
  <2>4. CASE OnIdReceived
    BY <1>4, <2>1, <2>4, MasterFrameInOrder
  <2>5. CASE Slave
    BY <1>4, <2>1, <2>5, SlaveReadsInOrder
  <2>6. CASE LinInterrupt \/ ReceiveFrame
    <3>1. UNCHANGED <<masterWire, slaveWire, slaveFifo, slavePc, headers, called>>
      BY <2>6 DEF LinInterrupt, ReceiveFrame, historyVars
    <3> QED
      BY <2>1, <3>1
         DEF SyncsFollowed, CallsInOrder, HeadersHeard, IdToCome, LastPid
  <2> QED
    BY <2>2, <2>3, <2>4, <2>5, <2>6 DEF LinNext
<1> QED
  BY <1>1, <1>2, <1>3, <1>4 DEF LinOrder

(***************************************************************************)
(* While nothing is disturbed and nobody sends 0x55 as data, the slave is  *)
(* called for the master's headers only, in their order.                   *)
(***************************************************************************)
THEOREM CalledForHeaders == Spec => []LinCalledForHeaders
<1>1. Init => LinOrder
  <2> SUFFICES ASSUME Init PROVE LinOrder
    OBVIOUS
  <2>1. LinCarried
    <3>1. /\ wanted = None /\ published = {}
          /\ \A s \in {masterWire, slaveWire, masterFifo, masterQueue, slaveFifo} : s = <<>>
      BY DEF Init, LinInit
    <3>2. <<>> \in Seq(LinBytes(published))
      BY EmptySeq
    <3> QED
      BY <3>1, <3>2 DEF LinCarried
  <2>2. /\ headers = <<>> /\ called = <<>> /\ slaveFifo = <<>> /\ masterWire = <<>>
        /\ slaveWire = <<>> /\ slavePc = "sync"
    BY DEF Init, LinInit
  <2>3. Len(<<>>) = 0 /\ <<>> \in Seq(Ids)
    BY EmptySeq
  <2>4. ~AwaitsId(slaveFifo, slavePc) /\ ~IdToCome
    BY <2>2 DEF IdToCome, AwaitsId
  <2>5. SyncsFollowed
    BY <2>2, <2>3, <2>4 DEF SyncsFollowed
  <2>6. CallsInOrder
    <3>1. PICK e : e = [i \in 1..0 |-> 0]
      OBVIOUS
    <3>2. e \in [1..0 -> 1..0] /\ e \in [1..0 -> Nat] /\ HeadersHeard = 0
      BY <2>2, <2>3, <2>4, <3>1 DEF HeadersHeard
    <3>3. HeaderOf(<<>>, <<>>, <<>>, "sync", 0, e, e)
      BY <2>3 DEF HeaderOf
    <3>4. InOrder(<<>>, <<>>, <<>>, "sync", 0)
      BY <2>3, <3>2, <3>3 DEF InOrder
    <3> QED
      BY <2>2, <3>2, <3>4 DEF CallsInOrder
  <2>7. Len(slaveFifo) <= LinFifoSize
    BY <2>2, <2>3, LinAssumption
  <2> QED
    BY <2>1, <2>2, <2>3, <2>5, <2>6, <2>7 DEF LinOrder
<1>2. LinOrder /\ [Next]_vars => LinOrder'
  <2>1. CASE UNCHANGED linVars
    BY <2>1 DEF linVars, LinOrder, LinCarried, Undisturbed, SyncsFollowed, CallsInOrder,
                HeadersHeard, IdToCome, LastPid
  <2> QED
    BY <2>1, SerialSteps, LinStepInOrder
<1>3. LinOrder => LinCalledForHeaders
  <2> SUFFICES ASSUME LinOrder, Undisturbed PROVE IsSubsequence(called, headers)
    BY DEF LinCalledForHeaders, Undisturbed
  <2>1. PICK k \in 0..Len(headers) : InOrder(called, headers, slaveFifo, slavePc, k)
    BY LinOrderTypes DEF LinOrder, CallsInOrder
  <2>2. PICK n \in [1..Len(called) -> 1..k], p \in [1..Len(slaveFifo) -> Nat] :
           HeaderOf(called, headers, slaveFifo, slavePc, k, n, p)
    BY <2>1 DEF InOrder
  <2>3. DOMAIN called = 1..Len(called) /\ DOMAIN headers = 1..Len(headers)
    BY LinOrderTypes, LenProperties
  <2>4. n \in [DOMAIN called -> DOMAIN headers]
    <3>1. 1..k \subseteq 1..Len(headers)
      BY LinOrderTypes
    <3> QED
      BY <2>2, <2>3, <3>1
  <2> QED
    BY <2>2, <2>3, <2>4 DEF HeaderOf, IsSubsequence
<1> QED
  BY <1>1, <1>2, <1>3, PTL DEF Spec
-----------------------------------------------------------------------------
(***************************************************************************)
(* A channel that is set up or enabled has bytes left to move, and those   *)
(* of a call are set up until they are enabled.                            *)
(***************************************************************************)
DmaTyped ==
    /\ dmaMode \in [SpiChannels -> {"stop", "set", "on"}]
    /\ dmaLeft \in [SpiChannels -> Nat]
    /\ \A c \in SpiChannels : dmaMode[c] # "stop" => dmaLeft[c] # 0
    /\ spiPc \in {"set", "taken"} => \A c \in ChannelsOf(spiOp) : dmaMode[c] = "set"

(***************************************************************************)
(* In a call that reads, the receive channel's semaphore is given only     *)
(* after it has stopped, and it stops when nothing is left.  What the DMA  *)
(* has not moved yet is missing in the buffer, and unless something        *)
(* foreign is there, all bytes are the call's.                             *)
(***************************************************************************)
SpiReading ==
    spiPc # "idle" /\ Reads(spiOp) =>
        /\ spiPc = "taken" => "rx" \notin ready
        /\ spiPc \notin {"set", "taken"} =>
               /\ dmaMode["rx"] # "set"
               /\ dmaMode["rx"] = "stop" => dmaLeft["rx"] = 0
               /\ "rx" \in ready \/ spiPc = "finish" => dmaMode["rx"] = "stop"
        /\ ~foreign => /\ txFifo \in Seq({spiCalls}) /\ rxFifo \in Seq({spiCalls})
                       /\ spiBuf \in Seq({spiCalls})
                       /\ Len(spiBuf) + dmaLeft["rx"] = spiLen

SpiInv == DmaTyped /\ SpiReading

LEMMA BothChannels ==
  /\ SpiChannels = {"tx", "rx"}
  /\ \A op : ChannelsOf(op) \subseteq SpiChannels
  /\ \A op : Reads(op) => ChannelsOf(op) = SpiChannels
BY DEF SpiChannels, Reads, ChannelsOf

LEMMA OneMoved ==
  ASSUME NEW done \in Nat, NEW left \in Nat, NEW all, done + left = all
  PROVE  done + 1 + (left - 1) = all
OBVIOUS

(* One byte moved by a channel that is enabled.                            *)
LEMMA MovedKeeps ==
  ASSUME DmaTyped, NEW c \in SpiChannels, dmaMode[c] = "on", Moved(c),
         UNCHANGED <<spiPc, spiOp>>
  PROVE  /\ DmaTyped'
         /\ dmaLeft'[c] = dmaLeft[c] - 1
         /\ dmaMode'[c] = "on" \/ (dmaMode'[c] = "stop" /\ dmaLeft'[c] = 0)
         /\ \A d \in SpiChannels \ {c} : dmaMode'[d] = dmaMode[d] /\ dmaLeft'[d] = dmaLeft[d]
<1>1. dmaLeft[c] \in Nat /\ dmaLeft[c] # 0
  BY DEF DmaTyped
<1>2. dmaLeft' = [dmaLeft EXCEPT ![c] = dmaLeft[c] - 1]
  BY DEF Moved
<1>3. dmaLeft[c] - 1 \in Nat
  BY <1>1
<1>4. /\ dmaLeft' \in [SpiChannels -> Nat] /\ dmaLeft'[c] = dmaLeft[c] - 1
      /\ \A d \in SpiChannels \ {c} : dmaLeft'[d] = dmaLeft[d]
  BY <1>2, <1>3 DEF DmaTyped
<1>5. CASE dmaLeft[c] = 1
  <2>1. dmaMode' = [dmaMode EXCEPT ![c] = "stop"]
    BY <1>5 DEF Moved
  <2>2. /\ dmaMode' \in [SpiChannels -> {"stop", "set", "on"}] /\ dmaMode'[c] = "stop"
        /\ \A d \in SpiChannels \ {c} : dmaMode'[d] = dmaMode[d]
    BY <2>1 DEF DmaTyped
  <2>3. spiPc' \in {"set", "taken"} => \A d \in ChannelsOf(spiOp') : dmaMode'[d] = "set"
    BY <2>2, BothChannels DEF DmaTyped
  <2>4. \A d \in SpiChannels : dmaMode'[d] # "stop" => dmaLeft'[d] # 0
    BY <1>4, <2>2 DEF DmaTyped
  <2>5. dmaLeft'[c] = 0
    BY <1>4, <1>5
  <2> QED
    BY <1>4, <2>2, <2>3, <2>4, <2>5 DEF DmaTyped
<1>6. CASE dmaLeft[c] # 1
  <2>1. UNCHANGED dmaMode
    BY <1>6 DEF Moved
  <2> QED
    BY <1>1, <1>4, <1>6, <2>1 DEF DmaTyped
<1> QED
  BY <1>5, <1>6

LEMMA DmaTransmitKeeps ==
  ASSUME SpiInv, Hardware, DmaTransmit
  PROVE  SpiInv'
<1>1. /\ DmaTyped' /\ UNCHANGED <<spiPc, spiOp, spiLen, ready, spiCalls, foreign, rxFifo, spiBuf>>
      /\ dmaMode'["rx"] = dmaMode["rx"] /\ dmaLeft'["rx"] = dmaLeft["rx"]
  BY MovedKeeps, BothChannels DEF Hardware, DmaTransmit, SpiInv
<1>2. txFifo \in Seq({spiCalls}) => txFifo' \in Seq({spiCalls})
  BY AppendProperties DEF DmaTransmit
<1> QED
  BY <1>1, <1>2 DEF SpiInv, SpiReading

LEMMA DmaReceiveKeeps ==
  ASSUME SpiInv, Hardware, DmaReceive
  PROVE  SpiInv'
<1>1. /\ DmaTyped' /\ UNCHANGED <<spiPc, spiOp, spiLen, ready, spiCalls, foreign, txFifo>>
      /\ dmaLeft'["rx"] = dmaLeft["rx"] - 1
      /\ dmaMode'["rx"] = "on" \/ (dmaMode'["rx"] = "stop" /\ dmaLeft'["rx"] = 0)
  BY MovedKeeps, BothChannels DEF Hardware, DmaReceive, SpiInv
<1>2. dmaMode["rx"] = "on" /\ dmaLeft["rx"] \in Nat /\ dmaLeft["rx"] # 0
  BY BothChannels DEF DmaReceive, SpiInv, DmaTyped
<1>3. ASSUME rxFifo \in Seq({spiCalls}), spiBuf \in Seq({spiCalls}),
             Len(spiBuf) + dmaLeft["rx"] = spiLen
      PROVE  /\ rxFifo' \in Seq({spiCalls}) /\ spiBuf' \in Seq({spiCalls})
             /\ Len(spiBuf') + dmaLeft'["rx"] = spiLen
  <2>1. Head(rxFifo) \in {spiCalls} /\ rxFifo' \in Seq({spiCalls})
    BY <1>3, HeadTailProperties DEF DmaReceive
  <2>2. spiBuf' \in Seq({spiCalls}) /\ Len(spiBuf') = Len(spiBuf) + 1 /\ Len(spiBuf) \in Nat
    BY <1>3, <2>1, AppendProperties, LenProperties DEF DmaReceive
  <2>3. Len(spiBuf) + 1 + (dmaLeft["rx"] - 1) = spiLen
    BY <1>2, <1>3, <2>2, OneMoved, ZenonT(30)
  <2> QED
    BY <1>1, <2>1, <2>2, <2>3, Zenon
<1> QED
  BY <1>1, <1>2, <1>3 DEF SpiInv, SpiReading

LEMMA ShiftKeeps ==
  ASSUME SpiInv, Hardware, Shift
  PROVE  SpiInv'
<1>1. UNCHANGED <<spiPc, spiOp, spiLen, ready, spiCalls, foreign, dmaMode, dmaLeft, spiBuf>>
  BY DEF Hardware, Shift, dmaVars
<1>2. ASSUME rxFifo \in Seq({spiCalls}), txFifo \in Seq({spiCalls})
      PROVE  rxFifo' \in Seq({spiCalls}) /\ txFifo' \in Seq({spiCalls})
  <2>1. Head(txFifo) \in {spiCalls} /\ txFifo' \in Seq({spiCalls})
    BY <1>2, HeadTailProperties DEF Shift
  <2> QED
    BY <1>2, <2>1, AppendProperties DEF Shift
<1> QED
  BY <1>1, <1>2 DEF SpiInv, SpiReading, DmaTyped

LEMMA SpiInterruptKeeps ==
  ASSUME SpiInv, SpiInterrupt
  PROVE  SpiInv'
<1>1. UNCHANGED <<spiPc, spiOp, spiLen, spiCalls, dmaMode, dmaLeft, txFifo, spiBuf>>
  BY DEF SpiInterrupt, dmaVars
<1>2. ~foreign' => ~foreign
  BY Zenon DEF SpiInterrupt
<1>3. rxFifo \in Seq({spiCalls}) => rxFifo' \in Seq({spiCalls})
  BY EmptySeq DEF SpiInterrupt
<1>4. "rx" \in ready' => "rx" \in ready \/ dmaMode["rx"] = "stop"
  BY DEF SpiInterrupt, CompleteChannels
<1>5. spiPc = "taken" /\ Reads(spiOp) => dmaMode["rx"] = "set"
  BY BothChannels DEF SpiInv, DmaTyped
<1>6. DmaTyped'
  BY <1>1 DEF SpiInv, DmaTyped
<1> QED
  BY <1>1, <1>2, <1>3, <1>4, <1>5, <1>6 DEF SpiInv, SpiReading

LEMMA BeginCallKeeps ==
  ASSUME SpiInv, BeginCall
  PROVE  SpiInv'
<1>1. PICK op \in {"read", "write", "writeAndRead", "writeNoRead"}, n \in SpiLengths :
           /\ spiOp' = op /\ spiLen' = n
           /\ dmaMode' = [c \in SpiChannels |-> IF c \in ChannelsOf(op) THEN "set" ELSE dmaMode[c]]
           /\ dmaLeft' = [c \in SpiChannels |-> IF c \in ChannelsOf(op) THEN n ELSE dmaLeft[c]]
  BY DEF BeginCall
<1>2. n \in Nat /\ n # 0
  BY SpiAssumption
<1>3. DmaTyped'
  <2>1. dmaMode' \in [SpiChannels -> {"stop", "set", "on"}]
    BY <1>1 DEF SpiInv, DmaTyped
  <2>2. dmaLeft' \in [SpiChannels -> Nat]
    BY <1>1, <1>2 DEF SpiInv, DmaTyped
  <2>3. \A c \in SpiChannels : dmaMode'[c] # "stop" => dmaLeft'[c] # 0
    BY <1>1, <1>2 DEF SpiInv, DmaTyped
  <2>4. \A c \in ChannelsOf(spiOp') : dmaMode'[c] = "set"
    BY <1>1, BothChannels
  <2> QED
    BY <2>1, <2>2, <2>3, <2>4 DEF DmaTyped
<1>4. Reads(op) => dmaMode'["rx"] = "set" /\ dmaLeft'["rx"] = spiLen'
  BY <1>1, BothChannels
<1>5. ~foreign' => rxFifo' = <<>> /\ txFifo' = <<>>
  <2>1. ~foreign' => rxFifo = <<>> /\ txFifo = <<>>
    BY Zenon DEF BeginCall
  <2> QED
    BY <2>1 DEF BeginCall, ssiVars
<1>6. spiPc' = "set" /\ spiBuf' = <<>>
  BY DEF BeginCall
<1>7. <<>> \in Seq({spiCalls'}) /\ Len(spiBuf') + spiLen' = spiLen'
  BY <1>1, <1>2, <1>6, EmptySeq
<1> QED
  BY <1>1, <1>3, <1>4, <1>5, <1>6, <1>7 DEF SpiInv, SpiReading

LEMMA SpiTaskKeeps ==
  ASSUME SpiInv, SpiTask
  PROVE  SpiInv'
<1>1. UNCHANGED <<spiOp, spiLen, spiCalls, foreign, dmaLeft, txFifo, rxFifo, spiBuf>>
  BY DEF SpiTask, ssiVars
<1>2. CASE TakeOld
  BY <1>1, <1>2, BothChannels DEF TakeOld, SpiInv, SpiReading, DmaTyped
<1>3. CASE Enable
  <2>1. dmaMode' \in [SpiChannels -> {"stop", "set", "on"}]
    BY <1>3 DEF Enable, SpiInv, DmaTyped
  <2>2. Reads(spiOp) => dmaMode'["rx"] = "on"
    BY <1>3, BothChannels DEF Enable
  <2>3. spiPc' = "waitFirst" /\ ready' = ready /\ spiPc = "taken"
    BY <1>3 DEF Enable
  <2>4. \A c \in SpiChannels : dmaMode'[c] # "stop" => dmaLeft'[c] # 0
    <3>1. dmaMode' = [c \in SpiChannels |->
                        IF c \in ChannelsOf(spiOp) THEN "on" ELSE dmaMode[c]]
      BY <1>3 DEF Enable
    <3>2. \A c \in ChannelsOf(spiOp) : dmaMode[c] = "set"
      BY <2>3 DEF SpiInv, DmaTyped
    <3> QED
      BY <1>1, <3>1, <3>2 DEF SpiInv, DmaTyped
  <2>5. DmaTyped'
    BY <1>1, <2>1, <2>3, <2>4 DEF SpiInv, DmaTyped
  <2> QED
    BY <1>1, <2>2, <2>3, <2>5 DEF SpiInv, SpiReading, DmaTyped
<1>4. CASE TakeFirst
  <2>1. Reads(spiOp) => spiPc' = "waitSecond"
    <3>1. Reads(spiOp) => Len(Waits(spiOp)) # 1
      BY DEF Reads, Waits
    <3> QED
      BY <1>4, <3>1 DEF TakeFirst
  <2> QED
    BY <1>1, <1>4, <2>1 DEF TakeFirst, SpiInv, SpiReading, DmaTyped
<1>5. CASE TakeSecond
  <2>1. Reads(spiOp) => "rx" \in ready
    BY <1>5 DEF TakeSecond, Reads, Waits
  <2> QED
    BY <1>1, <1>5, <2>1 DEF TakeSecond, SpiInv, SpiReading, DmaTyped
<1>6. CASE EndCall
  BY <1>1, <1>6 DEF EndCall, SpiInv, SpiReading, DmaTyped
<1> QED
  BY <1>2, <1>3, <1>4, <1>5, <1>6 DEF SpiTask

LEMMA SpiStep ==
  ASSUME SpiInv, [Next]_vars
  PROVE  SpiInv'
<1>1. CASE SpiTimeout
  BY <1>1 DEF SpiTimeout, ReceiveTimeout, dmaVars, SpiInv, DmaTyped, SpiReading
<1>2. CASE UNCHANGED spiVars
  BY <1>2 DEF spiVars, SpiInv, DmaTyped, SpiReading
<1>3. CASE Hardware
  BY <1>3, DmaTransmitKeeps, DmaReceiveKeeps, ShiftKeeps DEF Hardware
<1> QED
  BY <1>1, <1>2, <1>3, SerialSteps, SpiInterruptKeeps, BeginCallKeeps, SpiTaskKeeps DEF SpiNext

(***************************************************************************)
(* A call that reads returns after all its bytes, and with bytes of its    *)
(* own, unless something foreign was in the FIFOs or bytes were taken away. *)
(***************************************************************************)
THEOREM ReadsItsBytes == Spec => []SpiReadsItsBytes
<1>1. Init => SpiInv
  BY DEF Init, SpiInit, SpiInv, DmaTyped, SpiReading
<1>2. SpiInv /\ [Next]_vars => SpiInv'
  BY SpiStep
<1>3. SpiInv => SpiReadsItsBytes
  <2> SUFFICES ASSUME SpiInv, spiPc = "finish", Reads(spiOp), ~foreign
               PROVE  spiBuf = [i \in 1..spiLen |-> spiCalls]
    BY DEF SpiReadsItsBytes
  <2>1. spiBuf \in Seq({spiCalls}) /\ Len(spiBuf) + dmaLeft["rx"] = spiLen /\ dmaLeft["rx"] = 0
    BY DEF SpiInv, SpiReading
  <2>2. Len(spiBuf) \in Nat /\ spiBuf \in [1..Len(spiBuf) -> {spiCalls}]
    BY <2>1, LenProperties
  <2>3. Len(spiBuf) = spiLen
    BY <2>1, <2>2
  <2> QED
    BY <2>2, <2>3
<1> QED
  BY <1>1, <1>2, <1>3, PTL DEF Spec

-----------------------------------------------------------------------------
(***************************************************************************)
(* The UART's FIFO and queue, and those of the LIN bus, never grow past    *)
(* their size.                                                             *)
(***************************************************************************)
UartRoom == Len(uartFifo) <= UartFifoSize /\ Len(uartQueue) <= UartQueueSize

LEMMA PutFits ==
  ASSUME NEW queue \in Seq(UartBytes), NEW byte \in UartBytes, NEW size \in Nat,
         Len(queue) <= size
  PROVE  Len(Put(queue, byte, size)) <= size
<1>1. Len(queue) \in Nat /\ Len(Append(queue, byte)) = Len(queue) + 1
  BY AppendProperties, LenProperties
<1> QED
  BY <1>1 DEF Put

LEMMA UartRoomKept ==
  ASSUME UartTyped, UartRoom, [Next]_vars
  PROVE  UartRoom'
<1>1. UartFifoSize \in Nat /\ UartQueueSize \in Nat
  BY UartAssumption
<1>2. ASSUME NEW queue \in Seq(UartBytes), queue # <<>>, NEW size \in Nat, Len(queue) <= size
      PROVE  Len(Tail(queue)) <= size /\ Head(queue) \in UartBytes
  <2>1. Len(Tail(queue)) = Len(queue) - 1 /\ Head(queue) \in UartBytes /\ Len(queue) \in Nat
    BY <1>2, HeadTailProperties, LenProperties
  <2> QED
    BY <1>2, <2>1
<1>3. CASE Arrive
  BY <1>1, <1>3, PutFits DEF Arrive, UartTyped, UartRoom
<1>4. CASE Drain /\ UartInterrupt
  <2>1. /\ uartFifo # <<>> /\ uartFifo' = Tail(uartFifo)
        /\ uartQueue' = Put(uartQueue, Head(uartFifo), UartQueueSize)
    BY <1>4 DEF Drain
  <2>2. Len(uartFifo') <= UartFifoSize /\ Head(uartFifo) \in UartBytes
    BY <1>1, <1>2, <2>1 DEF UartTyped, UartRoom
  <2>3. Len(uartQueue') <= UartQueueSize
    BY <1>1, <2>1, <2>2, PutFits DEF UartTyped, UartRoom
  <2> QED
    BY <2>2, <2>3 DEF UartRoom
<1>5. CASE ReadByte
  <2>1. uartQueue # <<>> /\ uartQueue' = Tail(uartQueue) /\ uartFifo' = uartFifo
    BY <1>5 DEF ReadByte
  <2> QED
    BY <1>1, <1>2, <2>1 DEF UartTyped, UartRoom
<1>6. CASE UNCHANGED <<uartFifo, uartQueue>>
  BY <1>6 DEF UartRoom
<1> QED
  BY <1>3, <1>4, <1>5, <1>6, SerialSteps
     DEF UartNext, UartInterrupt, EnterIsr, LeaveIsr, BeginRead, EndRead, uartVars

LinRoom ==
    /\ Len(masterFifo) <= LinFifoSize /\ Len(slaveFifo) <= LinFifoSize
    /\ Len(masterQueue) <= LinQueueSize
    /\ Len(frame) <= 1

LEMMA ReceivedFits ==
  ASSUME NEW S, NEW fifo \in Seq(S), NEW byte \in S, Len(fifo) <= LinFifoSize
  PROVE  Len(Received(fifo, byte)) <= LinFifoSize
<1>1. Len(fifo) \in Nat /\ Len(Append(fifo, byte)) = Len(fifo) + 1
  BY AppendProperties, LenProperties
<1> QED
  BY <1>1, LinAssumption DEF Received

LEMMA LinRoomKept ==
  ASSUME LinCarried, LinRoom, [Next]_vars
  PROVE  LinRoom'
<1> DEFINE B == LinBytes(published)
<1>1. /\ LinFifoSize \in Nat /\ LinQueueSize \in Nat
      /\ Len(<<>>) = 0 /\ \A x : Len(<<x>>) = 1
  BY LinAssumption, EmptySeq
<1>2. \A s \in {masterWire, slaveWire, masterFifo, masterQueue, slaveFifo} : s \in Seq(B)
  BY DEF LinCarried
<1> HIDE DEF B
<1>3. ASSUME NEW queue \in Seq(B), queue # <<>>, NEW size \in Nat, Len(queue) <= size
      PROVE  Len(Tail(queue)) <= size /\ Head(queue) \in B
  <2>1. Len(Tail(queue)) = Len(queue) - 1 /\ Head(queue) \in B /\ Len(queue) \in Nat
    BY <1>3, HeadTailProperties, LenProperties
  <2> QED
    BY <1>3, <2>1
<1>4. CASE Line
  <2>1. PICK byte \in B : Carry(byte)
    <3>1. masterWire # <<>> => Head(masterWire) \in B
      BY <1>2, HeadTailProperties
    <3>2. slaveWire # <<>> => Head(slaveWire) \in B
      BY <1>2, HeadTailProperties
    <3> QED
      BY <1>4, <3>1, <3>2 DEF Line
  <2>2. Len(masterFifo') <= LinFifoSize /\ Len(slaveFifo') <= LinFifoSize
    BY <1>2, <2>1, ReceivedFits DEF Carry, LinRoom
  <2> QED
    BY <2>1, <2>2 DEF Carry, masterVars, LinRoom
<1>5. CASE \E id \in Ids : SendHeader(id)
  BY <1>1, <1>5 DEF SendHeader, LinRoom
<1>6. CASE OnIdReceived
  BY <1>1, <1>6 DEF OnIdReceived, EndReceive, LinRoom
<1>7. CASE ReceiveFrame
  <2>1. Len(masterQueue') <= LinQueueSize
    <3>1. masterQueue' = masterQueue \/ (masterQueue # <<>> /\ masterQueue' = Tail(masterQueue))
      BY <1>7 DEF ReceiveFrame, ReceiveSync, ReceiveId, ReceiveData, TimeUp, GetChar
    <3> QED
      BY <1>1, <1>2, <1>3, <3>1 DEF LinRoom
  <2>2. frame' \in {frame, <<>>, <<Head(masterQueue)>>}
    BY <1>7 DEF ReceiveFrame, ReceiveSync, ReceiveId, ReceiveData, TimeUp, EndReceive
  <2>3. Len(frame') <= 1
    <3>1. CASE frame' = frame
      BY <3>1 DEF LinRoom
    <3>2. CASE frame' = <<>>
      BY <1>1, <3>2
    <3>3. CASE frame' = <<Head(masterQueue)>>
      <4>1. Len(<<Head(masterQueue)>>) = 1
        BY <1>1
      <4> QED
        BY <3>3, <4>1
    <3> QED
      BY <2>2, <3>1, <3>2, <3>3
  <2> QED
    BY <1>7, <2>1, <2>3 DEF ReceiveFrame, LinRoom
<1>8. CASE Slave
  <2>1. slaveFifo # <<>> /\ slaveFifo' = Tail(slaveFifo)
    BY <1>8 DEF Slave, SlaveSync, SlaveId
  <2>2. Len(slaveFifo') <= LinFifoSize
    BY <1>1, <1>2, <1>3, <2>1 DEF LinRoom
  <2> QED
    BY <1>8, <2>2 DEF Slave, masterVars, LinRoom
<1>9. CASE LinInterrupt
  <2>1. PICK all : all = masterQueue \o masterFifo
    OBVIOUS
  <2>2. all \in Seq(B) /\ Len(all) \in Nat
    BY <1>2, <2>1, ConcatProperties, LenProperties
  <2>3. PICK m \in Nat : /\ m <= LinQueueSize /\ m <= Len(all)
                         /\ masterQueue' = SubSeq(all, 1, m)
    <3>1. PICK m : m = IF Len(all) < LinQueueSize THEN Len(all) ELSE LinQueueSize
      OBVIOUS
    <3>2. masterQueue' = SubSeq(all, 1, m)
      BY <1>9, <2>1, <3>1, Zenon DEF LinInterrupt
    <3>3. m \in Nat /\ m <= LinQueueSize /\ m <= Len(all)
      BY <1>1, <2>2, <3>1
    <3> QED
      BY <3>2, <3>3
  <2>4. Len(masterQueue') = m
    <3>1. \A i \in 1..m : all[i] \in B
      BY <2>2, <2>3, ElementOfSeq
    <3>2. Len(SubSeq(all, 1, m)) = IF 1 <= m THEN m - 1 + 1 ELSE 0
      BY <3>1, SubSeqProperties
    <3> QED
      BY <2>3, <3>2
  <2> QED
    BY <1>1, <1>9, <2>3, <2>4 DEF LinInterrupt, masterVars, LinRoom
<1>10. CASE UNCHANGED linVars
  BY <1>10 DEF linVars, LinRoom
<1> QED
  BY <1>4, <1>5, <1>6, <1>7, <1>8, <1>9, <1>10, SerialSteps DEF LinNext
-----------------------------------------------------------------------------
(***************************************************************************)
(* Who has the receive channel.  A channel's semaphore is given when it    *)
(* leaves "active", and a call begins when nothing is active: so that of a *)
(* call that does not use it is stopped, and what it has to move yet fits  *)
(* into the buffer.                                                        *)
(***************************************************************************)
SpiOps == {"none", "read", "write", "writeAndRead", "writeNoRead"}
InUse(c) == c \in active \/ (spiPc \in {"set", "taken"} /\ c \in ChannelsOf(spiOp))

SpiShare ==
    /\ spiOp \in SpiOps
    /\ active \subseteq ChannelsOf(spiOp) /\ ready \subseteq SpiChannels
    /\ active \cap ready = {}
    /\ spiPc \in {"idle", "set", "taken", "finish"} => active = {}
    /\ spiPc = "taken" => ready \cap ChannelsOf(spiOp) = {}
    /\ spiPc = "waitSecond" => "tx" \notin active \cup ready
    /\ InUse("rx") \/ dmaMode["rx"] = "stop"

SpiRoom ==
    /\ spiLen \in Nat /\ spiCalls \in Nat
    /\ txFifo \in Seq(Nat) /\ rxFifo \in Seq(Nat) /\ spiBuf \in Seq(Nat)
    /\ dmaMode["rx"] # "stop" => Len(spiBuf) + dmaLeft["rx"] = spiLen
    /\ Len(spiBuf) <= spiLen

LEMMA SpiShareKept ==
  ASSUME SpiInv, SpiShare, [Next]_vars
  PROVE  SpiShare'
<1>1. CASE BeginCall
  <2>1. PICK op \in {"read", "write", "writeAndRead", "writeNoRead"} :
          /\ spiOp' = op
          /\ dmaMode' = [c \in SpiChannels |-> IF c \in ChannelsOf(op) THEN "set" ELSE dmaMode[c]]
    BY <1>1 DEF BeginCall
  <2>2. /\ spiPc = "idle" /\ spiPc' = "set" /\ UNCHANGED <<active, ready>>
        /\ active = {}
    BY <1>1 DEF BeginCall, SpiShare
  <2>3. dmaMode["rx"] = "stop"
    BY <2>2 DEF SpiShare, InUse
  <2>4. InUse("rx")' \/ dmaMode'["rx"] = "stop"
    BY <2>1, <2>2, <2>3, BothChannels DEF InUse
  <2> QED
    BY <2>1, <2>2, <2>4 DEF SpiShare, SpiOps
<1>2. CASE SpiTask
  <2>1. UNCHANGED spiOp
    BY <1>2 DEF SpiTask
  <2>2. CASE TakeOld
    BY <2>1, <2>2 DEF TakeOld, SpiShare, InUse
  <2>3. CASE Enable
    <3>1. /\ spiPc = "taken" /\ spiPc' = "waitFirst" /\ active = {}
          /\ active' = ChannelsOf(spiOp) /\ ready' = ready
      BY <2>3 DEF Enable, SpiShare
    <3>2. "rx" \in active' \/ dmaMode'["rx"] = "stop"
      BY <2>3, <3>1, BothChannels DEF Enable, SpiShare, InUse
    <3> QED
      BY <2>1, <3>1, <3>2 DEF SpiShare, InUse
  <2>4. CASE TakeFirst
    <3>1. Waits(spiOp)[1] = "tx"
      BY DEF Waits
    <3>2. /\ spiPc = "waitFirst" /\ "tx" \in ready /\ ready' = ready \ {"tx"}
          /\ spiPc' = IF Len(Waits(spiOp)) = 1 THEN "finish" ELSE "waitSecond"
          /\ UNCHANGED <<active, dmaMode>>
      BY <2>4, <3>1 DEF TakeFirst
    <3>3. "tx" \notin active
      BY <3>2 DEF SpiShare
    <3>4. Len(Waits(spiOp)) = 1 => ChannelsOf(spiOp) = {"tx"}
      BY DEF Waits, ChannelsOf
    <3>5. spiPc' = "finish" => active = {}
      BY <3>2, <3>3, <3>4 DEF SpiShare
    <3>6. spiPc' \in {"finish", "waitSecond"}
      BY <3>2
    <3> QED
      BY <2>1, <3>2, <3>3, <3>5, <3>6 DEF SpiShare, InUse
  <2>5. CASE TakeSecond
    <3>1. /\ spiPc = "waitSecond" /\ Waits(spiOp)[2] \in ready /\ ready' = ready \ {Waits(spiOp)[2]}
          /\ spiPc' = "finish" /\ UNCHANGED <<active, dmaMode>>
      BY <2>5 DEF TakeSecond
    <3>2. "tx" \notin active /\ "tx" \notin ready
      BY <3>1 DEF SpiShare
    <3>3. "rx" \in ready
      BY <3>1, <3>2 DEF SpiShare, SpiChannels
    <3>4. active = {}
      BY <3>2, <3>3, BothChannels DEF SpiShare
    <3> QED
      BY <2>1, <3>1, <3>4 DEF SpiShare, InUse
  <2>6. CASE EndCall
    BY <2>1, <2>6 DEF EndCall, SpiShare, InUse
  <2> QED
    BY <1>2, <2>2, <2>3, <2>4, <2>5, <2>6 DEF SpiTask
<1>3. CASE Hardware
  <2>1. UNCHANGED <<spiPc, spiOp, active, ready>>
    BY <1>3 DEF Hardware
  <2>2. dmaMode["rx"] = "stop" => dmaMode'["rx"] = "stop"
    <3>1. CASE DmaTransmit
      BY <1>3, <2>1, <3>1, MovedKeeps, BothChannels DEF DmaTransmit, SpiInv
    <3>2. CASE DmaReceive
      BY <3>2 DEF DmaReceive
    <3>3. CASE Shift
      BY <3>3 DEF Shift, dmaVars
    <3> QED
      BY <1>3, <3>1, <3>2, <3>3 DEF Hardware
  <2> QED
    BY <2>1, <2>2 DEF SpiShare, InUse
<1>4. CASE SpiInterrupt
  <2>1. /\ active' = active \ CompleteChannels /\ ready' = ready \cup CompleteChannels
        /\ UNCHANGED <<spiPc, spiOp, dmaMode>>
    BY <1>4 DEF SpiInterrupt, dmaVars
  <2>2. CompleteChannels \subseteq active
    BY DEF CompleteChannels
  <2>3. "rx" \in CompleteChannels => dmaMode["rx"] = "stop"
    BY DEF CompleteChannels
  <2>4. active \subseteq SpiChannels
    BY BothChannels DEF SpiShare
  <2> QED
    BY <2>1, <2>2, <2>3, <2>4 DEF SpiShare, InUse
<1>5. CASE SpiTimeout \/ UNCHANGED spiVars
  <2>1. UNCHANGED <<spiPc, spiOp, active, ready, dmaMode>>
    BY <1>5 DEF SpiTimeout, ReceiveTimeout, dmaVars, spiVars
  <2> QED
    BY <2>1 DEF SpiShare, InUse
<1> QED
  BY <1>1, <1>2, <1>3, <1>4, <1>5, SerialSteps DEF SpiNext

LEMMA SpiRoomKept ==
  ASSUME SpiInv, SpiShare, SpiRoom, [Next]_vars
  PROVE  SpiRoom'
<1>1. dmaLeft["rx"] \in Nat /\ Len(spiBuf) \in Nat
  BY BothChannels, LenProperties DEF SpiInv, DmaTyped, SpiRoom
<1>2. CASE BeginCall
  <2>1. PICK op \in {"read", "write", "writeAndRead", "writeNoRead"}, n \in SpiLengths :
          /\ spiOp' = op /\ spiLen' = n
          /\ dmaMode' = [c \in SpiChannels |-> IF c \in ChannelsOf(op) THEN "set" ELSE dmaMode[c]]
          /\ dmaLeft' = [c \in SpiChannels |-> IF c \in ChannelsOf(op) THEN n ELSE dmaLeft[c]]
    BY <1>2 DEF BeginCall
  <2>2. /\ spiBuf' = <<>> /\ Len(spiBuf') = 0 /\ spiBuf' \in Seq(Nat)
        /\ spiCalls' \in Nat /\ n \in Nat /\ UNCHANGED <<txFifo, rxFifo>>
    BY <1>2, EmptySeq, SpiAssumption DEF BeginCall, SpiRoom, ssiVars
  <2>3. dmaMode["rx"] = "stop"
    BY <1>2 DEF BeginCall, SpiShare, InUse
  <2>4. dmaMode'["rx"] # "stop" => dmaLeft'["rx"] = n
    BY <2>1, <2>3, BothChannels
  <2> QED
    BY <2>1, <2>2, <2>4 DEF SpiRoom
<1>3. CASE SpiTask
  <2>1. UNCHANGED <<spiLen, dmaLeft, spiBuf, spiCalls, txFifo, rxFifo>>
    BY <1>3 DEF SpiTask, ssiVars
  <2>2. dmaMode'["rx"] # "stop" => dmaMode["rx"] # "stop"
    <3>1. CASE Enable
      BY <3>1, BothChannels DEF Enable, SpiInv, DmaTyped
    <3>2. CASE UNCHANGED dmaMode
      BY <3>2
    <3> QED
      BY <1>3, <3>1, <3>2 DEF SpiTask, TakeOld, TakeFirst, TakeSecond, EndCall
  <2> QED
    BY <2>1, <2>2 DEF SpiRoom
<1>4. CASE Hardware /\ DmaTransmit
  <2>1. /\ UNCHANGED <<spiPc, spiOp, spiLen, spiCalls, rxFifo, spiBuf>>
        /\ txFifo' = Append(txFifo, spiCalls)
    BY <1>4 DEF Hardware, DmaTransmit
  <2>2. dmaMode'["rx"] = dmaMode["rx"] /\ dmaLeft'["rx"] = dmaLeft["rx"]
    BY <1>4, <2>1, MovedKeeps, BothChannels DEF DmaTransmit, SpiInv
  <2>3. txFifo' \in Seq(Nat)
    BY <2>1, AppendProperties DEF SpiRoom
  <2> QED
    BY <2>1, <2>2, <2>3 DEF SpiRoom
<1>5. CASE Hardware /\ DmaReceive
  <2>1. /\ UNCHANGED <<spiPc, spiOp, spiLen, spiCalls, txFifo>>
        /\ rxFifo # <<>> /\ rxFifo' = Tail(rxFifo) /\ spiBuf' = Append(spiBuf, Head(rxFifo))
        /\ dmaMode["rx"] = "on"
    BY <1>5 DEF Hardware, DmaReceive
  <2>2. dmaLeft'["rx"] = dmaLeft["rx"] - 1 /\ dmaLeft["rx"] # 0
    BY <1>5, <2>1, MovedKeeps, BothChannels DEF DmaReceive, SpiInv, DmaTyped
  <2>3. rxFifo' \in Seq(Nat) /\ Head(rxFifo) \in Nat
    BY <2>1, HeadTailProperties DEF SpiRoom
  <2>4. spiBuf' \in Seq(Nat) /\ Len(spiBuf') = Len(spiBuf) + 1
    BY <2>1, <2>3, AppendProperties DEF SpiRoom
  <2>5. PICK done \in Nat, left \in Nat, all \in Nat :
          done = Len(spiBuf) /\ left = dmaLeft["rx"] /\ all = spiLen
    BY <1>1 DEF SpiRoom
  <2>6. done + left = all /\ left # 0
    BY <2>1, <2>2, <2>5 DEF SpiRoom
  <2>7. (done + 1) + (left - 1) = all /\ done + 1 <= all
    BY <2>6
  <2> QED
    BY <2>1, <2>2, <2>3, <2>4, <2>5, <2>7 DEF SpiRoom
<1>6. CASE Hardware /\ Shift
  <2>1. /\ UNCHANGED <<spiLen, spiCalls, dmaMode, dmaLeft, spiBuf>>
        /\ txFifo # <<>> /\ txFifo' = Tail(txFifo) /\ rxFifo' = Append(rxFifo, Head(txFifo))
    BY <1>6 DEF Hardware, Shift, dmaVars
  <2>2. txFifo' \in Seq(Nat) /\ Head(txFifo) \in Nat
    BY <2>1, HeadTailProperties DEF SpiRoom
  <2>3. rxFifo' \in Seq(Nat)
    BY <2>1, <2>2, AppendProperties DEF SpiRoom
  <2> QED
    BY <2>1, <2>2, <2>3 DEF SpiRoom
<1>7. CASE SpiInterrupt
  <2>1. /\ UNCHANGED <<spiLen, spiCalls, dmaMode, dmaLeft, spiBuf, txFifo>>
        /\ rxFifo' \in {rxFifo, <<>>}
    BY <1>7 DEF SpiInterrupt, dmaVars
  <2>2. rxFifo' \in Seq(Nat)
    BY <2>1, EmptySeq DEF SpiRoom
  <2> QED
    BY <2>1, <2>2 DEF SpiRoom
<1>8. CASE SpiTimeout \/ UNCHANGED spiVars
  <2>1. UNCHANGED <<spiLen, spiCalls, dmaMode, dmaLeft, spiBuf, txFifo, rxFifo>>
    BY <1>8 DEF SpiTimeout, ReceiveTimeout, dmaVars, spiVars
  <2> QED
    BY <2>1 DEF SpiRoom
<1> QED
  BY <1>2, <1>3, <1>4, <1>5, <1>6, <1>7, <1>8, SerialSteps DEF SpiNext, Hardware

-----------------------------------------------------------------------------
(* The serial interfaces' part of the type invariant.                      *)
SerialTypes ==
    /\ Len(uartFifo) <= UartFifoSize /\ Len(uartQueue) <= UartQueueSize
    /\ Len(buf) <= reader.size
    /\ Len(masterFifo) <= LinFifoSize /\ Len(slaveFifo) <= LinFifoSize
    /\ Len(masterQueue) <= LinQueueSize
    /\ wanted \in Ids \cup {None} /\ Len(frame) <= 1
    /\ active \subseteq SpiChannels /\ ready \subseteq SpiChannels
    /\ \A c \in SpiChannels : dmaLeft[c] \in Nat
    /\ Len(spiBuf) <= spiLen

LEMMA SerialTypesAlways == Spec => []SerialTypes
<1> DEFINE Inv == /\ UartTyped /\ ReadUpTo /\ UartRoom
                  /\ LinCarried /\ LinRoom
                  /\ SpiInv /\ SpiShare /\ SpiRoom
<1>1. Init => Inv
  <2> SUFFICES ASSUME Init PROVE Inv
    OBVIOUS
  <2>1. Len(<<>>) = 0 /\ \A S : <<>> \in Seq(S)
    BY EmptySeq
  <2>2. UartTyped /\ ReadUpTo
    BY <2>1 DEF Init, UartInit, Idle, UartTyped, ReadUpTo, Ops, Searching
  <2>3. UartRoom
    BY <2>1, UartAssumption DEF Init, UartInit, UartRoom
  <2>4. LinCarried
    BY EmptySeq DEF Init, LinInit, LinCarried
  <2>5. LinRoom
    BY <2>1, LinAssumption DEF Init, LinInit, LinRoom
  <2>6. SpiInv
    BY DEF Init, SpiInit, SpiInv, DmaTyped, SpiReading
  <2>7. SpiShare
    BY BothChannels DEF Init, SpiInit, SpiShare, SpiOps
  <2>8. SpiRoom
    BY <2>1, BothChannels DEF Init, SpiInit, SpiRoom
  <2> QED
    BY <2>2, <2>3, <2>4, <2>5, <2>6, <2>7, <2>8
<1>2. Inv /\ [Next]_vars => Inv'
  <2> SUFFICES ASSUME Inv, [Next]_vars PROVE Inv'
    OBVIOUS
  <2>1. UartTyped' /\ ReadUpTo' /\ UartRoom'
    BY UartStep, UartRoomKept
  <2>2. LinCarried'
    <3>1. CASE LinNext
      BY <3>1, LinStepCarries
    <3>2. CASE UNCHANGED linVars
      BY <3>2 DEF linVars, LinCarried
    <3> QED
      BY <3>1, <3>2, SerialSteps
  <2>3. LinRoom'
    BY LinRoomKept
  <2>4. SpiInv' /\ SpiShare' /\ SpiRoom'
    BY SpiStep, SpiShareKept, SpiRoomKept
  <2> QED
    BY <2>1, <2>2, <2>3, <2>4
<1>3. Inv => SerialTypes
  <2> SUFFICES ASSUME Inv PROVE SerialTypes
    OBVIOUS
  <2>1. active \subseteq SpiChannels
    BY BothChannels DEF SpiShare
  <2> QED
    BY <2>1 DEF SerialTypes, UartTyped, UartRoom, LinCarried, LinRoom, SpiInv, DmaTyped,
                SpiShare, SpiRoom
<1> QED
  BY <1>1, <1>2, <1>3, PTL DEF Spec
=============================================================================
