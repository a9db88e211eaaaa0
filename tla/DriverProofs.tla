---------------------------- MODULE DriverProofs ----------------------------
(***************************************************************************)
(* Proofs about the peripheral drivers, the methods of the I2C controller  *)
(* they use, the data of a cyclic CAN message and the containers, and the  *)
(* types of all parts of Devices.                                          *)
(***************************************************************************)
EXTENDS SerialProofs, USBProofs, QueueLemmas

(* The other parts leave each of them alone.                               *)
LEMMA DriverSteps ==
  ASSUME [Next]_vars
  PROVE  /\ CyclicNext \/ UNCHANGED cyclicVars
         /\ MethodsNext \/ UNCHANGED methodVars
         /\ McNext \/ UNCHANGED mcVars
         /\ EncNext \/ UNCHANGED encVars
BY DEF Next, Uart, Lin, Spi, Cdc, Mouse, Cyclic, I2C, Mc, Encoder, List, Hash, Ring,
   vars, serialVars, otherVars

-----------------------------------------------------------------------------
(***************************************************************************)
(* What update() makes of the difference of two positions modulo 4 that    *)
(* are at most one apart.                                                  *)
(***************************************************************************)
LEMMA QuarterStep ==
  ASSUME NEW old \in Int, NEW new \in Int, new - old \in {-1, 0, 1}
  PROVE  /\ ((old % 4) - (new % 4)) % 2 = 1 <=> new # old
         /\ new # old => Direction((old % 4) - (new % 4)) = new - old
<1> DEFINE a == old % 4
           b == new % 4
<1>1. a \in 0..3 /\ b \in 0..3
  OBVIOUS
<1>2. /\ new = old => b = a
      /\ new = old + 1 => b = a + 1 \/ (a = 3 /\ b = 0)
      /\ new = old - 1 => b = a - 1 \/ (a = 0 /\ b = 3)
  OBVIOUS
<1>3. new = old \/ new = old + 1 \/ new = old - 1
  OBVIOUS
<1>4. CASE new = old
  BY <1>1, <1>2, <1>4 DEF Direction
<1>5. CASE new = old + 1
  BY <1>1, <1>2, <1>5 DEF Direction
<1>6. CASE new = old - 1
  BY <1>1, <1>2, <1>6 DEF Direction
<1> QED
  BY <1>3, <1>4, <1>5, <1>6

(* The full steps that read() hands out and the rest it keeps.             *)
LEMMA StepsAndRest ==
  ASSUME NEW delta \in Int, NEW type \in Nat \ {0}
  PROVE  type * (delta \div type) + (delta % type) = delta /\ delta % type \in Int
OBVIOUS

(***************************************************************************)
(* As long as nothing was missed, the last code is that of the position of *)
(* the last update(), and what was handed out and what is kept add up to   *)
(* how far the shaft has turned; within read() the full steps are both     *)
(* handed out and not yet taken away.                                      *)
(***************************************************************************)
EncTyped ==
    /\ shaft \in Int /\ sampled \in Int /\ start \in Int
    /\ encType \in Nat \ {0} /\ encLast \in 0..3
    /\ encDelta \in Int /\ handedOut \in Int

EncCounted ==
    /\ ~encInit => ~reading /\ handedOut = 0
    /\ encInit /\ ~missed =>
           /\ encLast = sampled % 4
           /\ ~reading => handedOut + encDelta = sampled - start
           /\ reading => handedOut + Rest = sampled - start

EncInv == EncTyped /\ EncCounted

LEMMA UpdateKeeps ==
  ASSUME EncInv, UpdateEncoder
  PROVE  EncInv'
<1>1. sampled' = shaft /\ UNCHANGED <<shaft, encType, reading, handedOut>>
  BY DEF UpdateEncoder
<1>2. CASE FirstUpdate
  <2>1. encLast' = shaft % 4 /\ encDelta' = 0 /\ start' = shaft
    BY <1>2 DEF FirstUpdate
  <2>2. EncTyped'
    <3>1. shaft % 4 \in 0..3
      BY DEF EncInv, EncTyped
    <3> QED
      BY <1>1, <2>1, <3>1 DEF EncInv, EncTyped
  <2>3. ~reading /\ handedOut = 0
    BY <1>2 DEF FirstUpdate, EncInv, EncCounted
  <2>4. shaft \in Int
    BY DEF EncInv, EncTyped
  <2>5. 0 + 0 = shaft - shaft
    BY <2>4
  <2> QED
    BY <1>1, <2>1, <2>2, <2>3, <2>5 DEF EncInv, EncCounted
<1>3. CASE Update
  <2> DEFINE diff == encLast - (shaft % 4)
  <2>1. /\ diff % 2 = 1 => encLast' = shaft % 4 /\ encDelta' = encDelta + Direction(diff)
        /\ diff % 2 # 1 => UNCHANGED <<encLast, encDelta>>
        /\ encInit /\ encInit' /\ start' = start
    BY <1>3 DEF Update
  <2>2. ~missed' => ~missed /\ shaft - sampled \in -1..1 /\ (reading => shaft = sampled)
    BY <1>3, Zenon DEF Update
  <2>3. shaft \in Int /\ sampled \in Int /\ encDelta \in Int /\ start \in Int
    BY DEF EncInv, EncTyped
  <2>4. encDelta' \in Int
    <3>1. diff \in Int
      BY <2>3 DEF EncInv, EncTyped
    <3>2. Direction(diff) \in Int
      BY <3>1 DEF Direction
    <3> QED
      BY <2>1, <2>3, <3>2
  <2>5. EncTyped'
    BY <1>1, <2>1, <2>3, <2>4 DEF EncInv, EncTyped
  <2>6. ASSUME ~missed'
        PROVE  /\ encLast' = shaft % 4
               /\ encDelta' = encDelta + (shaft - sampled)
               /\ reading => encDelta' = encDelta
    <3>1. encLast = sampled % 4 /\ ~missed /\ shaft - sampled \in {-1, 0, 1}
      BY <2>1, <2>2, <2>3, <2>6 DEF EncInv, EncCounted
    <3>2. /\ diff % 2 = 1 <=> shaft # sampled
          /\ shaft # sampled => Direction(diff) = shaft - sampled
      BY <2>3, <3>1, QuarterStep
    <3> QED
      BY <2>1, <2>2, <2>3, <2>6, <3>1, <3>2
  <2>7. ASSUME ~missed', ~reading PROVE handedOut' + encDelta' = sampled' - start'
    <3>1. handedOut + encDelta = sampled - start /\ handedOut \in Int
      BY <2>1, <2>2, <2>7 DEF EncInv, EncCounted, EncTyped
    <3> QED
      BY <1>1, <2>1, <2>3, <2>6, <2>7, <3>1
  <2>8. ASSUME ~missed', reading PROVE handedOut' + Rest' = sampled' - start'
    <3>1. handedOut + Rest = sampled - start /\ shaft = sampled
      BY <2>1, <2>2, <2>8 DEF EncInv, EncCounted
    <3>2. Rest' = Rest
      BY <1>1, <2>6, <2>8 DEF Rest
    <3> QED
      BY <1>1, <2>1, <3>1, <3>2
  <2> QED
    BY <1>1, <2>1, <2>5, <2>6, <2>7, <2>8 DEF EncInv, EncCounted
<1> QED
  BY <1>2, <1>3 DEF UpdateEncoder

LEMMA ReadKeeps ==
  ASSUME EncInv, ReadEncoder
  PROVE  EncInv'
<1>1. UNCHANGED <<shaft, sampled, encType, encLast, encInit, start, missed>>
  BY DEF ReadEncoder
<1>2. /\ encType \in Nat \ {0} /\ encDelta \in Int /\ handedOut \in Int
      /\ sampled \in Int /\ start \in Int
  BY DEF EncInv, EncTyped
<1>3. CASE BeginEncoderRead
  <2> DEFINE steps == encType * (encDelta \div encType)
  <2>1. steps + Rest = encDelta /\ Rest \in Int /\ steps \in Int
    <3>1. encDelta \div encType \in Int
      BY <1>2
    <3>2. steps \in Int
      BY <1>2, <3>1
    <3> QED
      BY <1>2, <3>2, StepsAndRest DEF Rest
  <2>2. handedOut' = handedOut + steps /\ reading' /\ UNCHANGED encDelta /\ encInit /\ ~reading
    BY <1>3, Zenon DEF BeginEncoderRead
  <2>3. Rest' = Rest
    BY <1>1, <2>2 DEF Rest
  <2> HIDE DEF steps
  <2>4. handedOut' \in Int /\ handedOut' + Rest' = handedOut + encDelta
    BY <1>2, <2>1, <2>2, <2>3
  <2> QED
    BY <1>1, <2>2, <2>4 DEF EncInv, EncTyped, EncCounted
<1>4. CASE EndEncoderRead
  <2>1. encDelta' = Rest /\ ~reading' /\ UNCHANGED handedOut /\ reading
    BY <1>4, Zenon DEF EndEncoderRead
  <2>2. Rest \in Int
    BY <1>2, StepsAndRest DEF Rest
  <2> QED
    BY <1>1, <2>1, <2>2 DEF EncInv, EncTyped, EncCounted
<1> QED
  BY <1>3, <1>4 DEF ReadEncoder

(* What the encoder counts is right all along.                             *)
LEMMA EncAlways == Spec => []EncInv
<1>1. Init => EncInv
  BY EncoderAssumption DEF Init, EncInit, EncInv, EncTyped, EncCounted
<1>2. EncInv /\ [Next]_vars => EncInv'
  <2>1. ASSUME EncInv, Turn(1) \/ Turn(-1) PROVE EncInv'
    <3>1. /\ shaft' = shaft + 1 \/ shaft' = shaft - 1
          /\ UNCHANGED <<sampled, encType, encDelta, encLast, encInit, reading, handedOut,
                         start, missed>>
      BY <2>1 DEF Turn, EncInv, EncTyped
    <3>2. shaft' \in Int
      BY <2>1, <3>1 DEF EncInv, EncTyped
    <3> QED
      BY <2>1, <3>1, <3>2 DEF EncInv, EncTyped, EncCounted, Rest
  <2>2. ASSUME EncInv, UNCHANGED encVars PROVE EncInv'
    BY <2>2 DEF encVars, EncInv, EncTyped, EncCounted, Rest
  <2> QED
    BY <2>1, <2>2, DriverSteps, UpdateKeeps, ReadKeeps DEF EncNext
<1> QED
  BY <1>1, <1>2, PTL DEF Spec

(***************************************************************************)
(* As long as update() sees every position and does not come within        *)
(* read(), no quarter step is lost or counted twice.                       *)
(***************************************************************************)
THEOREM CountsEveryStep == Spec => []EncoderCounts
<1>1. EncInv => EncoderCounts
  BY DEF EncInv, EncCounted, EncoderCounts
<1> QED
  BY <1>1, EncAlways, PTL

-----------------------------------------------------------------------------
(***************************************************************************)
(* The writes to come, and the value v that they leave in register r if it *)
(* was "old" before them.                                                  *)
(***************************************************************************)
McWrite == [reg : {8, 9, 128, Dimming}, value : SUBSET (Channels \cup {Msb})]

Leaves(writes, r, old, v) ==
    \/ /\ \A i \in 1..Len(writes) : writes[i].reg # r
       /\ v = old
    \/ \E i \in 1..Len(writes) :
           /\ writes[i].reg = r /\ writes[i].value = v
           /\ \A j \in i + 1..Len(writes) : writes[j].reg # r

LEMMA LeavesWithNone ==
  ASSUME NEW r, NEW old
  PROVE  Leaves(<<>>, r, old, old)
BY DEF Leaves

(* One write more: the last one counts.                                    *)
LEMMA LeavesWithLast ==
  ASSUME NEW writes \in Seq(McWrite), NEW r, NEW old, NEW v, Leaves(writes, r, old, v),
         NEW reg \in {8, 9, 128, Dimming}, NEW value \in SUBSET (Channels \cup {Msb})
  PROVE  LET more == writes \o RegisterWrite(reg, value)
         IN  /\ more \in Seq(McWrite) /\ more # <<>>
             /\ reg = r => Leaves(more, r, old, value)
             /\ reg # r => Leaves(more, r, old, v)
<1> DEFINE w == [reg |-> reg, value |-> value]
           more == writes \o RegisterWrite(reg, value)
           n == Len(writes)
<1>1. w \in McWrite /\ w.reg = reg /\ w.value = value
  BY DEF McWrite
<1>2. RegisterWrite(reg, value) = <<w>> /\ <<w>> \in Seq(McWrite) /\ Len(<<w>>) = 1
      /\ <<w>>[1] = w
  BY <1>1 DEF RegisterWrite
<1>3. n \in Nat
  BY LenProperties
<1> HIDE DEF w
<1>4. /\ more \in Seq(McWrite) /\ Len(more) = n + 1
      /\ \A i \in 1..n + 1 : more[i] = IF i <= n THEN writes[i] ELSE <<w>>[i - n]
  BY <1>2, ConcatProperties
<1>5. /\ \A i \in 1..n : more[i] = writes[i]
      /\ more[n + 1] = w
  <2>1. \A i \in 1..n : more[i] = writes[i]
    BY <1>3, <1>4
  <2>2. more[n + 1] = <<w>>[1]
    BY <1>3, <1>4
  <2> QED
    BY <1>2, <2>1, <2>2
<1> HIDE DEF more, n
<1>6. more # <<>>
  BY <1>3, <1>4, EmptySeq
<1>7. ASSUME reg = r PROVE Leaves(more, r, old, value)
  <2>1. n + 1 \in 1..Len(more) /\ \A j \in n + 1 + 1..Len(more) : more[j].reg # r
    BY <1>3, <1>4
  <2> QED
    BY <1>1, <1>5, <1>7, <2>1 DEF Leaves
<1>8. ASSUME reg # r PROVE Leaves(more, r, old, v)
  <2>1. CASE (\A i \in 1..n : writes[i].reg # r) /\ v = old
    <3>1. \A i \in 1..n + 1 : more[i].reg # r
      BY <1>1, <1>3, <1>5, <1>8, <2>1
    <3> QED
      BY <1>4, <2>1, <3>1 DEF Leaves
  <2>2. CASE \E i \in 1..n : /\ writes[i].reg = r /\ writes[i].value = v
                             /\ \A j \in i + 1..n : writes[j].reg # r
    <3>1. PICK i \in 1..n : /\ writes[i].reg = r /\ writes[i].value = v
                            /\ \A j \in i + 1..n : writes[j].reg # r
      BY <2>2
    <3>2. \A j \in i + 1..n + 1 : more[j].reg # r
      BY <1>1, <1>3, <1>5, <1>8, <3>1
    <3>3. i \in 1..n + 1 /\ more[i].reg = r /\ more[i].value = v
      BY <1>3, <1>5, <3>1
    <3> QED
      BY <1>4, <3>2, <3>3 DEF Leaves
  <2> QED
    BY <2>1, <2>2 DEF Leaves, n
<1> QED
  BY <1>4, <1>6, <1>7, <1>8 DEF more

LEMMA LeavesWithOne ==
  ASSUME NEW r, NEW old,
         NEW reg \in {8, 9, 128, Dimming}, NEW value \in SUBSET (Channels \cup {Msb})
  PROVE  /\ RegisterWrite(reg, value) \in Seq(McWrite) /\ RegisterWrite(reg, value) # <<>>
         /\ reg = r => Leaves(RegisterWrite(reg, value), r, old, value)
         /\ reg # r => Leaves(RegisterWrite(reg, value), r, old, old)
<1> DEFINE none == <<>>
           more == none \o RegisterWrite(reg, value)
<1>1. none \in Seq(McWrite) /\ Leaves(none, r, old, old)
  BY EmptySeq, LeavesWithNone
<1>2. more = RegisterWrite(reg, value)
  BY DEF RegisterWrite
<1> HIDE DEF none
<1>3. /\ more \in Seq(McWrite) /\ more # <<>>
      /\ reg = r => Leaves(more, r, old, value)
      /\ reg # r => Leaves(more, r, old, old)
  BY <1>1, LeavesWithLast
<1> QED
  BY <1>2, <1>3

(* The first write done.                                                   *)
LEMMA LeavesAfterFirst ==
  ASSUME NEW writes \in Seq(McWrite), writes # <<>>, NEW r, NEW old, NEW v,
         Leaves(writes, r, old, v)
  PROVE  Leaves(Tail(writes), r, IF Head(writes).reg = r THEN Head(writes).value ELSE old, v)
<1> DEFINE rest == Tail(writes)
           new == IF Head(writes).reg = r THEN Head(writes).value ELSE old
           n == Len(writes)
<1>1. /\ Len(rest) = n - 1
      /\ \A i \in 1..n - 1 : rest[i] = writes[i + 1]
  BY HeadTailProperties
<1>2. n \in Nat /\ n # 0 /\ Head(writes) = writes[1]
  BY EmptySeq, LenProperties
<1> HIDE DEF rest, n
<1>3. CASE (\A i \in 1..n : writes[i].reg # r) /\ v = old
  <2>1. \A i \in 1..n - 1 : rest[i].reg # r
    BY <1>1, <1>2, <1>3
  <2>2. new = old
    BY <1>2, <1>3
  <2> QED
    BY <1>1, <1>3, <2>1, <2>2 DEF Leaves, rest
<1>4. CASE \E i \in 1..n : /\ writes[i].reg = r /\ writes[i].value = v
                           /\ \A j \in i + 1..n : writes[j].reg # r
  <2>1. PICK i \in 1..n : /\ writes[i].reg = r /\ writes[i].value = v
                          /\ \A j \in i + 1..n : writes[j].reg # r
    BY <1>4
  <2>2. CASE i = 1
    <3>1. \A k \in 1..n - 1 : rest[k].reg # r
      BY <1>1, <1>2, <2>1, <2>2
    <3>2. new = v
      BY <1>2, <2>1, <2>2
    <3> QED
      BY <1>1, <3>1, <3>2 DEF Leaves, rest
  <2>3. CASE i # 1
    <3>1. i - 1 \in 1..n - 1 /\ rest[i - 1] = writes[i]
      BY <1>1, <1>2, <2>1, <2>3
    <3>2. \A j \in i - 1 + 1..n - 1 : rest[j].reg # r
      BY <1>1, <1>2, <2>1, <2>3
    <3> QED
      BY <1>1, <2>1, <3>1, <3>2 DEF Leaves, rest
  <2> QED
    BY <2>2, <2>3
<1> QED
  BY <1>3, <1>4 DEF Leaves, n

(***************************************************************************)
(* The writes to come make the chip what the object believes it to be; and *)
(* a pin that is to be raised after them may be raised.                    *)
(***************************************************************************)
McTyped ==
    /\ mcOn \subseteq Channels
    /\ reg8 = mcOn \cap LowChannels /\ reg9 = mcOn \cap HighChannels
    /\ chip \in [{8, 9, 128} -> SUBSET (Channels \cup {Msb})]
    /\ mcWrites \in Seq(McWrite)

McLeavesChip ==
    /\ \E v : Leaves(mcWrites, 8, chip[8], v) /\ v \ {Msb} = reg8
    /\ Leaves(mcWrites, 9, chip[9], reg9)

McMayRaise ==
    mcWrites # NoWrites /\ pinAfter = "high" => lastValue # 0 /\ (forcedOff => overlapped)

McInv == McTyped /\ McLeavesChip /\ McMayRaise /\ McDark

(* Nothing to write: what the chip has is what is left.                    *)
LEMMA LeftWhenDone ==
  ASSUME NEW r, NEW old, NEW v, Leaves(<<>>, r, old, v)
  PROVE  v = old
<1>1. Len(<<>>) = 0
  BY EmptySeq
<1> QED
  BY <1>1 DEF Leaves

LEMMA DisableLeaves ==
  ASSUME McTyped, NEW ch \in Channels, NEW old8, NEW old9, old9 = reg9
  PROVE  /\ DisableWrites(ch) \in Seq(McWrite)
         /\ \E v : /\ Leaves(DisableWrites(ch), 8, old8, v)
                   /\ v \ {Msb} = (mcOn \ {ch}) \cap LowChannels
         /\ Leaves(DisableWrites(ch), 9, old9, (mcOn \ {ch}) \cap HighChannels)
<1> DEFINE S == SUBSET (Channels \cup {Msb})
           first == reg8 \cup {Msb}
           one == RegisterWrite(8, first)
           value == IF ch \in LowChannels THEN (reg8 \ {ch}) \cup {Msb} ELSE reg9 \ {ch}
           two == one \o RegisterWrite(IF ch \in LowChannels THEN 8 ELSE 9, value)
           three == two \o RegisterWrite(128, reg8 \ {ch})
           v8 == IF ch \in LowChannels THEN value ELSE first
           v9 == IF ch \in LowChannels THEN old9 ELSE value
<1>1. /\ first \in S /\ value \in S /\ reg8 \ {ch} \in S
  BY DEF McTyped, Channels
<1>2. /\ v8 \ {Msb} = (mcOn \ {ch}) \cap LowChannels
      /\ v9 = (mcOn \ {ch}) \cap HighChannels
  BY McAssumption DEF McTyped, Channels
<1>3. DisableWrites(ch) = three
  BY DEF DisableWrites
<1> HIDE DEF value, first
<1>4. /\ one \in Seq(McWrite)
      /\ Leaves(one, 8, old8, first) /\ Leaves(one, 9, old9, old9)
  <2>1. 8 \in {8, 9, 128, Dimming} /\ first \in SUBSET (Channels \cup {Msb})
    BY <1>1
  <2>2. one \in Seq(McWrite)
    BY <2>1, LeavesWithOne, Zenon
  <2>3. Leaves(one, 8, old8, first)
    BY <2>1, LeavesWithOne, Zenon
  <2>4. 8 # 9
    OBVIOUS
  <2>5. Leaves(one, 9, old9, old9)
    BY <2>1, <2>4, LeavesWithOne, Zenon
  <2> QED
    BY <2>2, <2>3, <2>5
<1> HIDE DEF one
<1>5. /\ two \in Seq(McWrite)
      /\ Leaves(two, 8, old8, v8) /\ Leaves(two, 9, old9, v9)
  <2>1. CASE ch \in LowChannels
    BY <1>1, <1>4, <2>1, LeavesWithLast
  <2>2. CASE ch \notin LowChannels
    BY <1>1, <1>4, <2>2, LeavesWithLast
  <2> QED
    BY <2>1, <2>2
<1> HIDE DEF two, v8, v9
<1>6. /\ three \in Seq(McWrite)
      /\ Leaves(three, 8, old8, v8) /\ Leaves(three, 9, old9, v9)
  BY <1>1, <1>5, LeavesWithLast
<1> HIDE DEF three
<1> QED
  BY <1>2, <1>3, <1>6

LEMMA EnableLeaves ==
  ASSUME McTyped, NEW ch \in Channels, NEW old8, NEW old9, old8 \ {Msb} = reg8
  PROVE  /\ EnableWrites(ch) \in Seq(McWrite)
         /\ \E v : /\ Leaves(EnableWrites(ch), 8, old8, v)
                   /\ v \ {Msb} = (mcOn \cup {ch}) \cap LowChannels
         /\ Leaves(EnableWrites(ch), 9, old9, (mcOn \cup {ch}) \cap HighChannels)
<1> DEFINE S == SUBSET (Channels \cup {Msb})
           first == reg9 \cup {Msb}
           one == RegisterWrite(9, first)
           value == IF ch \in LowChannels THEN reg8 \cup {ch} ELSE reg9 \cup {ch, Msb}
           two == one \o RegisterWrite(IF ch \in LowChannels THEN 8 ELSE 9, value)
           v8 == IF ch \in LowChannels THEN value ELSE old8
           v9 == IF ch \in HighChannels THEN reg9 \cup {ch} ELSE reg9
           three == two \o RegisterWrite(9, v9)
<1>1. first \in S /\ value \in S /\ v9 \in S
  BY DEF McTyped, Channels
<1>2. /\ v8 \ {Msb} = (mcOn \cup {ch}) \cap LowChannels
      /\ v9 = (mcOn \cup {ch}) \cap HighChannels
  BY McAssumption DEF McTyped, Channels
<1>3. EnableWrites(ch) = three
  BY DEF EnableWrites
<1> HIDE DEF value, first, v9
<1>4. one \in Seq(McWrite) /\ Leaves(one, 8, old8, old8)
  <2>1. 9 \in {8, 9, 128, Dimming} /\ first \in SUBSET (Channels \cup {Msb}) /\ 9 # 8
    BY <1>1
  <2> QED
    BY <2>1, LeavesWithOne, Zenon
<1> HIDE DEF one
<1>5. two \in Seq(McWrite) /\ Leaves(two, 8, old8, v8)
  <2>1. CASE ch \in LowChannels
    BY <1>1, <1>4, <2>1, LeavesWithLast
  <2>2. CASE ch \notin LowChannels
    BY <1>1, <1>4, <2>2, LeavesWithLast
  <2> QED
    BY <2>1, <2>2
<1>6. \E v : Leaves(two, 9, old9, v)
  <2>1. Leaves(one, 9, old9, first)
    BY <1>1, LeavesWithOne DEF one
  <2>2. CASE ch \in LowChannels
    BY <1>1, <1>4, <2>1, <2>2, LeavesWithLast
  <2>3. CASE ch \notin LowChannels
    BY <1>1, <1>4, <2>1, <2>3, LeavesWithLast
  <2> QED
    BY <2>2, <2>3
<1> HIDE DEF two, v8
<1>7. /\ three \in Seq(McWrite)
      /\ Leaves(three, 8, old8, v8) /\ Leaves(three, 9, old9, v9)
  <2>1. /\ three \in Seq(McWrite)
        /\ Leaves(three, 8, old8, v8)
    BY <1>1, <1>5, LeavesWithLast
  <2>2. Leaves(three, 9, old9, v9)
    BY <1>1, <1>5, <1>6, LeavesWithLast
  <2> QED
    BY <2>1, <2>2
<1> HIDE DEF three
<1> QED
  BY <1>2, <1>3, <1>7

LEMMA McDone ==
  ASSUME McInv, mcWrites = NoWrites
  PROVE  chip[8] \ {Msb} = mcOn \cap LowChannels /\ chip[9] = mcOn \cap HighChannels
<1>1. PICK v : Leaves(mcWrites, 8, chip[8], v) /\ v \ {Msb} = reg8
  BY DEF McInv, McLeavesChip
<1>2. v = chip[8] /\ reg9 = chip[9]
  BY <1>1, LeftWhenDone DEF NoWrites, McInv, McLeavesChip
<1> QED
  BY <1>1, <1>2 DEF McInv, McTyped

(* A call that begins with writes that leave the right values.             *)
LEMMA McBegins ==
  ASSUME McInv, NEW writes \in Seq(McWrite), NEW on \in SUBSET Channels, NEW pin,
         \E v : Leaves(writes, 8, chip[8], v) /\ v \ {Msb} = on \cap LowChannels,
         Leaves(writes, 9, chip[9], on \cap HighChannels),
         Begin(writes, pin), SetChannels(on),
         pin = "high" => lastValue' # 0 /\ (forcedOff => overlapped)
  PROVE  McInv'
<1>1. /\ mcWrites' = writes /\ pinAfter' = pin /\ ~pwmPin' /\ UNCHANGED <<chip, forcedOff, overlapped>>
  BY Zenon DEF Begin
<1>2. mcOn' = on /\ reg8' = on \cap LowChannels /\ reg9' = on \cap HighChannels
  BY DEF SetChannels
<1>3. McTyped'
  BY <1>1, <1>2 DEF McInv, McTyped, Channels, McWrite, Dimming
<1>4. McLeavesChip'
  BY <1>1, <1>2, Zenon DEF McLeavesChip
<1>5. McMayRaise' /\ McDark'
  BY <1>1 DEF McMayRaise, McDark
<1> QED
  BY <1>3, <1>4, <1>5 DEF McInv

LEMMA SetDimmungKeeps ==
  ASSUME McInv, NEW ch \in Channels, SetDimmungChannel(ch)
  PROVE  McInv'
<1>1. mcWrites = NoWrites /\ lastValue' = lastValue /\ McTyped
  BY DEF SetDimmungChannel, McInv
<1>2. chip[8] \ {Msb} = reg8 /\ chip[9] = reg9
  BY <1>1, McDone DEF McTyped
<1>3. OldPin = "high" => lastValue' # 0 /\ (forcedOff => overlapped)
  BY <1>1 DEF OldPin, McInv, McDark
<1>4. mcOn \subseteq Channels
  BY <1>1 DEF McTyped
<1>5. CASE Begin(DisableWrites(ch), OldPin) /\ SetChannels(mcOn \ {ch})
  <2>1. mcOn \ {ch} \in SUBSET Channels
    BY <1>4
  <2> DEFINE on == mcOn \ {ch}
  <2>2. /\ DisableWrites(ch) \in Seq(McWrite)
        /\ \E v : Leaves(DisableWrites(ch), 8, chip[8], v) /\ v \ {Msb} = on \cap LowChannels
        /\ Leaves(DisableWrites(ch), 9, chip[9], on \cap HighChannels)
    BY <1>1, <1>2, DisableLeaves, Zenon
  <2> HIDE DEF on
  <2> QED
    BY <1>3, <1>5, <2>1, <2>2, McBegins, Zenon DEF on
<1>6. CASE /\ Begin((IF ch \in mcOn THEN <<>> ELSE EnableWrites(ch)) \o RegisterWrite(Dimming, {}),
                    OldPin)
           /\ SetChannels(mcOn \cup {ch})
  <2> DEFINE on == mcOn \cup {ch}
             before == IF ch \in mcOn THEN <<>> ELSE EnableWrites(ch)
             all == before \o RegisterWrite(Dimming, {})
  <2>1. on \in SUBSET Channels
    BY <1>4
  <2>2. /\ before \in Seq(McWrite)
        /\ \E v : Leaves(before, 8, chip[8], v) /\ v \ {Msb} = on \cap LowChannels
        /\ Leaves(before, 9, chip[9], on \cap HighChannels)
    <3>1. CASE ch \in mcOn
      <4>1. on = mcOn /\ before = <<>>
        BY <3>1
      <4>2. chip[8] \ {Msb} = on \cap LowChannels /\ chip[9] = on \cap HighChannels
        BY <1>1, <4>1, McDone
      <4> HIDE DEF on, before
      <4>3. /\ before \in Seq(McWrite) /\ Leaves(before, 8, chip[8], chip[8])
            /\ Leaves(before, 9, chip[9], chip[9])
        BY <4>1, LeavesWithNone, EmptySeq
      <4> QED
        BY <4>2, <4>3, Zenon
    <3>2. CASE ch \notin mcOn
      <4>1. before = EnableWrites(ch)
        BY <3>2
      <4> HIDE DEF before
      <4> QED
        BY <1>1, <1>2, <4>1, EnableLeaves, Zenon
    <3> QED
      BY <3>1, <3>2
  <2> HIDE DEF on, before
  <2>3. /\ Dimming \in {8, 9, 128, Dimming} /\ {} \in SUBSET (Channels \cup {Msb})
        /\ Dimming # 8 /\ Dimming # 9
    BY DEF Dimming
  <2>4. /\ all \in Seq(McWrite)
        /\ \E v : Leaves(all, 8, chip[8], v) /\ v \ {Msb} = on \cap LowChannels
        /\ Leaves(all, 9, chip[9], on \cap HighChannels)
    BY <2>2, <2>3, LeavesWithLast, Zenon
  <2> HIDE DEF all
  <2> QED
    BY <1>3, <1>6, <2>1, <2>4, McBegins, Zenon DEF on, all, before
<1> QED
  BY <1>5, <1>6, Zenon DEF SetDimmungChannel

LEMMA SetGlobalKeeps ==
  ASSUME McInv, NEW value \in Dimmings, SetDimmungGlobal(value)
  PROVE  McInv'
<1>1. mcWrites = NoWrites /\ McTyped /\ mcOn \in SUBSET Channels
  BY DEF SetDimmungGlobal, McInv, McTyped
<1>2. chip[8] \ {Msb} = mcOn \cap LowChannels /\ chip[9] = mcOn \cap HighChannels
  BY <1>1, McDone
<1>3. SetChannels(mcOn) /\ Begin(RegisterWrite(Dimming, {}), "global")
  BY <1>1, Zenon DEF SetDimmungGlobal, SetChannels, McTyped
<1>4. /\ Dimming \in {8, 9, 128, Dimming} /\ {} \in SUBSET (Channels \cup {Msb})
      /\ Dimming # 8 /\ Dimming # 9 /\ "global" # "high"
  BY DEF Dimming
<1>5. /\ RegisterWrite(Dimming, {}) \in Seq(McWrite)
      /\ Leaves(RegisterWrite(Dimming, {}), 8, chip[8], chip[8])
      /\ Leaves(RegisterWrite(Dimming, {}), 9, chip[9], chip[9])
  BY <1>4, LeavesWithOne, Zenon
<1>6. /\ \E v : Leaves(RegisterWrite(Dimming, {}), 8, chip[8], v) /\ v \ {Msb} = mcOn \cap LowChannels
      /\ Leaves(RegisterWrite(Dimming, {}), 9, chip[9], mcOn \cap HighChannels)
  BY <1>2, <1>5, Zenon
<1> QED
  BY <1>1, <1>3, <1>4, <1>5, <1>6, McBegins, Zenon

LEMMA SetRegisterKeeps ==
  ASSUME McInv, SetRegisterValue
  PROVE  McInv'
<1> DEFINE w == Head(mcWrites)
           Now(r) == IF w.reg = r THEN w.value ELSE chip[r]
<1>1. /\ mcWrites # <<>> /\ mcWrites' = Tail(mcWrites)
      /\ chip' = IF w.reg \in DOMAIN chip THEN [chip EXCEPT ![w.reg] = w.value] ELSE chip
      /\ UNCHANGED <<mcOn, reg8, reg9, forcedOff, lastValue, overlapped>>
  BY DEF SetRegisterValue, NoWrites
<1>2. McTyped /\ McLeavesChip
  BY DEF McInv
<1>3. w \in McWrite /\ mcWrites' \in Seq(McWrite)
  BY <1>1, <1>2, HeadTailProperties DEF McTyped
<1>4. w.value \in SUBSET (Channels \cup {Msb})
  BY <1>3 DEF McWrite
<1>5. chip \in [{8, 9, 128} -> SUBSET (Channels \cup {Msb})]
  BY <1>2 DEF McTyped
<1>6. /\ chip' \in [{8, 9, 128} -> SUBSET (Channels \cup {Msb})]
      /\ chip'[8] = Now(8) /\ chip'[9] = Now(9)
  <2> HIDE DEF w
  <2> QED
    BY <1>1, <1>4, <1>5
<1>7. McTyped'
  BY <1>1, <1>2, <1>3, <1>6 DEF McTyped, Channels, McWrite, Dimming
<1>8. McLeavesChip'
  <2>1. PICK v : Leaves(mcWrites, 8, chip[8], v) /\ v \ {Msb} = reg8
    BY <1>2 DEF McLeavesChip
  <2>2. Leaves(mcWrites, 9, chip[9], reg9) /\ mcWrites \in Seq(McWrite)
    BY <1>2 DEF McLeavesChip, McTyped
  <2>3. Leaves(Tail(mcWrites), 8, Now(8), v) /\ Leaves(Tail(mcWrites), 9, Now(9), reg9)
    BY <1>1, <2>1, <2>2, LeavesAfterFirst
  <2> HIDE DEF Now, w
  <2> QED
    BY <1>1, <1>6, <2>1, <2>3, Zenon DEF McLeavesChip
<1>9. McMayRaise' /\ McDark'
  <2>1. ~pwmPin
    BY <1>1 DEF McInv, McDark, NoWrites
  <2>2. CASE Len(mcWrites) = 1
    <3>1. mcWrites' = <<>>
      <4>1. Len(mcWrites') = 0
        BY <1>1, <1>2, <2>2, HeadTailProperties DEF McTyped
      <4> QED
        BY <1>3, <4>1, EmptySeq
    <3>2. pwmPin' => Pin
      BY <2>2, Zenon DEF SetRegisterValue
    <3>3. Pin => lastValue # 0 /\ (forcedOff => overlapped)
      BY <1>1 DEF Pin, McInv, McMayRaise, NoWrites
    <3> QED
      BY <1>1, <3>1, <3>2, <3>3 DEF McMayRaise, McDark, NoWrites
  <2>3. CASE Len(mcWrites) # 1
    <3>1. UNCHANGED <<pwmPin, pinAfter>>
      BY <2>3 DEF SetRegisterValue
    <3> QED
      BY <1>1, <2>1, <3>1 DEF McInv, McMayRaise, McDark, NoWrites
  <2> QED
    BY <2>2, <2>3
<1> QED
  BY <1>7, <1>8, <1>9 DEF McInv

LEMMA ForceOffKeeps ==
  ASSUME McInv, NEW off \in BOOLEAN, ForceOff(off)
  PROVE  McInv'
<1>1. UNCHANGED <<mcOn, reg8, reg9, chip, lastValue, mcWrites, pinAfter>> /\ forcedOff' = off
  BY DEF ForceOff
<1>2. /\ pwmPin' => pwmPin /\ ~off
      /\ off /\ mcWrites # NoWrites /\ pinAfter = "high" => overlapped'
  BY Zenon DEF ForceOff
<1>3. McTyped' /\ McLeavesChip'
  BY <1>1 DEF McInv, McTyped, McLeavesChip, Channels, McWrite, Dimming
<1>4. McMayRaise' /\ McDark'
  BY <1>1, <1>2 DEF McInv, McMayRaise, McDark, NoWrites
<1> QED
  BY <1>3, <1>4 DEF McInv

LEMMA McStep ==
  /\ Init => McInv
  /\ McInv /\ [Next]_vars => McInv'
<1>1. Init => McInv
  <2> SUFFICES ASSUME Init PROVE McInv
    OBVIOUS
  <2>1. /\ mcOn \subseteq Channels /\ reg8 = mcOn \cap LowChannels /\ reg9 = mcOn \cap HighChannels
        /\ mcWrites = <<>> /\ ~pwmPin
    BY DEF Init, McInit, NoWrites
  <2>2. chip = [r \in {8, 9, 128} |-> CASE r = 8 -> reg8 [] r = 9 -> reg9 [] OTHER -> {}]
    BY DEF Init, McInit
  <2>3. chip \in [{8, 9, 128} -> SUBSET (Channels \cup {Msb})] /\ chip[8] = reg8 /\ chip[9] = reg9
    BY <2>1, <2>2 DEF Channels
  <2>4. McTyped
    BY <2>1, <2>3, EmptySeq DEF McTyped
  <2>5. Leaves(mcWrites, 8, chip[8], reg8) /\ Leaves(mcWrites, 9, chip[9], reg9)
    BY <2>1, <2>3, LeavesWithNone
  <2>6. reg8 \ {Msb} = reg8
    BY <2>1, McAssumption
  <2> QED
    BY <2>1, <2>4, <2>5, <2>6 DEF McInv, McLeavesChip, McMayRaise, McDark, NoWrites
<1>2. ASSUME McInv, UNCHANGED mcVars PROVE McInv'
  BY <1>2 DEF mcVars, McInv, McTyped, McLeavesChip, McMayRaise, McDark
<1> QED
  BY <1>1, <1>2, DriverSteps, SetDimmungKeeps, SetGlobalKeeps, SetRegisterKeeps, ForceOffKeeps
     DEF McNext

(***************************************************************************)
(* Between calls the channels of the chip are those the object believes to *)
(* be enabled.                                                             *)
(***************************************************************************)
THEOREM ChannelsAgree == Spec => []McChannelsAgree
<1>1. McInv => McChannelsAgree
  BY McDone DEF McChannelsAgree
<1> QED
  BY <1>1, McStep, PTL DEF Spec

(***************************************************************************)
(* The light is off while registers are written, and on for a dimming      *)
(* other than 0 only, and not when it is forced off, unless that came      *)
(* while setDimmungChannel() was about to restore a lit pin.               *)
(***************************************************************************)
THEOREM DarkWhileWriting == Spec => []McDark
<1>1. McInv => McDark
  BY DEF McInv
<1> QED
  BY <1>1, McStep, PTL DEF Spec

-----------------------------------------------------------------------------
(***************************************************************************)
(* The calls of the setters of a cyclic message, and what one of their     *)
(* steps makes of them.                                                    *)
(***************************************************************************)
Places == {"lock", "read", "write", "leave"}

CyclicCalls ==
    [at : Places, op : {"setData", "set", "clear"}, index : Index,
     value : [Index -> SUBSET Bits], bits : SUBSET Bits]

LEMMA CallMoves ==
  ASSUME NEW c \in CyclicCalls, NEW a \in Places
  PROVE  LET d == [c EXCEPT !.at = a]
         IN  /\ d \in CyclicCalls /\ d.at = a
             /\ d.op = c.op /\ d.index = c.index /\ d.value = c.value /\ d.bits = c.bits
BY DEF CyclicCalls

LEMMA CallGoesOn ==
  ASSUME NEW c \in CyclicCalls, c.index + 1 \in Index
  PROVE  LET d == [c EXCEPT !.index = @ + 1]
         IN  /\ d \in CyclicCalls /\ d.index = c.index + 1
             /\ d.at = c.at /\ d.op = c.op /\ d.value = c.value /\ d.bits = c.bits
BY DEF CyclicCalls

LEMMA CallHasRead ==
  ASSUME NEW c \in CyclicCalls, NEW byte \in SUBSET Bits
  PROVE  LET d == [c EXCEPT !.at = "write", !.value[c.index] = byte]
         IN  /\ d \in CyclicCalls /\ d.at = "write" /\ d.value[c.index] = byte
             /\ d.op = c.op /\ d.index = c.index /\ d.bits = c.bits
BY DEF CyclicCalls, Places

LEMMA ChangedTyped ==
  ASSUME NEW c \in CyclicCalls, NEW byte \in SUBSET Bits
  PROVE  Changed(c, byte) \in SUBSET Bits
BY DEF CyclicCalls, Changed

(***************************************************************************)
(* Only the owner of the lock is within its call.  What it has done so far *)
(* to the data d, of which the completed calls made s: setData() has       *)
(* copied the bytes before its index; the others have read their byte, and *)
(* nobody has changed it since.                                            *)
(***************************************************************************)
CyclicTyped ==
    /\ data \in [Index -> SUBSET Bits] /\ settled \in [Index -> SUBSET Bits]
    /\ setter \in [Setters -> {NoCall} \cup CyclicCalls]
    /\ dataLock \in Setters \cup {Unlocked}
    /\ \A t \in Setters : setter[t].at = "lock" /\ setter[t].op = "setData" => setter[t].index = 1

OwnerInside ==
    \A t \in Setters : setter[t].at \in {"read", "write", "leave"} <=> dataLock = t

Underway(c, d, s) ==
    /\ c.op = "setData" => c.at # "read"
    /\ c.op = "setData" /\ c.at = "write" => \A j \in 1..c.index - 1 : d[j] = c.value[j]
    /\ c.op # "setData" /\ c.at \in {"read", "write"} => d = s
    /\ c.op # "setData" /\ c.at = "write" => c.value[c.index] = Changed(c, s[c.index])
    /\ c.at = "leave" =>
           d = IF c.op = "setData" THEN c.value
               ELSE [s EXCEPT ![c.index] = Changed(c, s[c.index])]

CyclicSettled ==
    /\ dataLock = Unlocked => data = settled
    /\ \A t \in Setters : dataLock = t => Underway(setter[t], data, settled)

CyclicInv == CyclicTyped /\ OwnerInside /\ CyclicSettled

(* The setter that takes a step, from the call c to the call or none d.    *)
LEMMA SetterMoves ==
  ASSUME CyclicTyped, NEW t \in Setters, NEW d \in {NoCall} \cup CyclicCalls,
         setter' = [setter EXCEPT ![t] = d]
  PROVE  /\ setter' \in [Setters -> {NoCall} \cup CyclicCalls]
         /\ setter'[t] = d
         /\ \A u \in Setters \ {t} : setter'[u] = setter[u]
BY DEF CyclicTyped

(* A setter that is somewhere is in a call.                                *)
LEMMA SetterCalls ==
  ASSUME CyclicTyped, NEW t \in Setters, setter[t].at # "idle"
  PROVE  setter[t] \in CyclicCalls
BY DEF CyclicTyped, NoCall

LEMMA CallSetterKeeps ==
  ASSUME CyclicInv, NEW t \in Setters, CallSetter(t)
  PROVE  CyclicInv'
<1>1. PICK d : /\ setter' = [setter EXCEPT ![t] = d]
               /\ d \in CyclicCalls /\ d.at = "lock" /\ (d.op = "setData" => d.index = 1)
  <2>1. CASE \E bytes \in [Index -> SUBSET Bits] :
                 setter' = [setter EXCEPT ![t] = Call("setData", 1, bytes, {})]
    <3>1. PICK bytes \in [Index -> SUBSET Bits] :
                 setter' = [setter EXCEPT ![t] = Call("setData", 1, bytes, {})]
      BY <2>1
    <3>2. 1 \in Index
      BY CyclicAssumption DEF Index
    <3> DEFINE d == Call("setData", 1, bytes, {})
    <3>3. d \in CyclicCalls /\ d.at = "lock" /\ d.index = 1
      BY <3>2 DEF Call, CyclicCalls, Places
    <3> HIDE DEF d
    <3>4. setter' = [setter EXCEPT ![t] = d]
      BY <3>1 DEF d
    <3> QED
      BY <3>3, <3>4, Zenon
  <2>2. CASE \E i \in Index, bit \in Bits, op \in {"set", "clear"} :
                 setter' = [setter EXCEPT ![t] = Call(op, i, data, {bit})]
    <3>1. PICK i \in Index, bit \in Bits, op \in {"set", "clear"} :
                 setter' = [setter EXCEPT ![t] = Call(op, i, data, {bit})]
      BY <2>2
    <3> DEFINE d == Call(op, i, data, {bit})
    <3>2. d \in CyclicCalls /\ d.at = "lock" /\ d.op # "setData"
      BY DEF Call, CyclicCalls, Places, CyclicInv, CyclicTyped
    <3> HIDE DEF d
    <3>3. setter' = [setter EXCEPT ![t] = d]
      BY <3>1 DEF d
    <3> QED
      BY <3>2, <3>3, Zenon
  <2> QED
    BY <2>1, <2>2 DEF CallSetter
<1>2. UNCHANGED <<data, dataLock, settled>> /\ setter[t].at = "idle" /\ CyclicTyped
  BY DEF CallSetter, CyclicInv
<1>3. /\ setter' \in [Setters -> {NoCall} \cup CyclicCalls]
      /\ setter'[t] = d
      /\ \A u \in Setters \ {t} : setter'[u] = setter[u]
  BY <1>1, <1>2, SetterMoves
<1>4. CyclicTyped'
  BY <1>1, <1>2, <1>3 DEF CyclicTyped
<1>5. dataLock # t
  BY <1>2 DEF CyclicInv, OwnerInside
<1>6. OwnerInside'
  BY <1>1, <1>2, <1>3, <1>5 DEF CyclicInv, OwnerInside
<1>7. CyclicSettled'
  BY <1>2, <1>3, <1>5 DEF CyclicInv, CyclicSettled
<1> QED
  BY <1>4, <1>6, <1>7 DEF CyclicInv

LEMMA LockDataKeeps ==
  ASSUME CyclicInv, NEW t \in Setters, LockData(t)
  PROVE  CyclicInv'
<1> DEFINE c == setter[t]
           a == IF c.op = "setData" THEN "write" ELSE "read"
           d == [c EXCEPT !.at = a]
<1>1. /\ UNCHANGED <<data, settled>> /\ c.at = "lock" /\ CyclicTyped
      /\ dataLock = Unlocked /\ dataLock' = t /\ data = settled
  BY DEF LockData, CyclicInv, CyclicSettled
<1>2. setter' = [setter EXCEPT ![t] = d]
  BY Zenon DEF LockData
<1>3. c \in CyclicCalls /\ (c.op = "setData" => c.index = 1)
  BY <1>1, SetterCalls DEF CyclicTyped
<1>4. a \in {"write", "read"} /\ (c.op = "setData" <=> a = "write")
  OBVIOUS
<1> HIDE DEF c, a
<1>5. a \in Places
  BY <1>4 DEF Places
<1>6. /\ d \in CyclicCalls /\ d.at = a
      /\ d.op = c.op /\ d.index = c.index /\ d.value = c.value /\ d.bits = c.bits
  BY <1>3, <1>5, CallMoves
<1> HIDE DEF d
<1>7. /\ setter' \in [Setters -> {NoCall} \cup CyclicCalls]
      /\ setter'[t] = d
      /\ \A u \in Setters \ {t} : setter'[u] = setter[u]
  BY <1>1, <1>2, <1>6, SetterMoves
<1>8. CyclicTyped'
  BY <1>1, <1>4, <1>6, <1>7 DEF CyclicTyped
<1>9. OwnerInside'
  BY <1>1, <1>4, <1>6, <1>7, CyclicAssumption DEF CyclicInv, OwnerInside
<1>10. Underway(d, data', settled')
  BY <1>1, <1>3, <1>4, <1>6 DEF Underway
<1>11. CyclicSettled'
  BY <1>1, <1>7, <1>10, CyclicAssumption DEF CyclicSettled
<1> QED
  BY <1>8, <1>9, <1>11 DEF CyclicInv

LEMMA ReadDataByteKeeps ==
  ASSUME CyclicInv, NEW t \in Setters, ReadDataByte(t)
  PROVE  CyclicInv'
<1> DEFINE c == setter[t]
           b == Changed(c, data[c.index])
           d == [c EXCEPT !.at = "write", !.value[c.index] = b]
<1>1. UNCHANGED <<data, settled, dataLock>> /\ c.at = "read" /\ CyclicTyped
  BY DEF ReadDataByte, CyclicInv
<1>2. setter' = [setter EXCEPT ![t] = d]
  BY Zenon DEF ReadDataByte
<1>3. c \in CyclicCalls /\ dataLock = t
  BY <1>1, SetterCalls DEF CyclicInv, OwnerInside
<1>4. c.op # "setData" /\ data = settled
  BY <1>1, <1>3 DEF CyclicInv, CyclicSettled, Underway
<1>5. b \in SUBSET Bits
  BY <1>1, <1>3, ChangedTyped DEF CyclicTyped, CyclicCalls
<1>6. b = Changed(c, settled[c.index])
  BY <1>4
<1> HIDE DEF c, b
<1>7. /\ d \in CyclicCalls /\ d.at = "write" /\ d.value[c.index] = b
      /\ d.op = c.op /\ d.index = c.index /\ d.bits = c.bits
  BY <1>3, <1>5, CallHasRead
<1> HIDE DEF d
<1>8. /\ setter' \in [Setters -> {NoCall} \cup CyclicCalls]
      /\ setter'[t] = d
      /\ \A u \in Setters \ {t} : setter'[u] = setter[u]
  BY <1>1, <1>2, <1>7, SetterMoves
<1>9. CyclicTyped'
  BY <1>1, <1>7, <1>8 DEF CyclicTyped
<1>10. OwnerInside'
  BY <1>1, <1>3, <1>7, <1>8 DEF CyclicInv, OwnerInside
<1>11. Underway(d, data', settled')
  BY <1>1, <1>4, <1>6, <1>7 DEF Underway, Changed
<1>12. CyclicSettled'
  BY <1>1, <1>3, <1>8, <1>11, CyclicAssumption DEF CyclicSettled
<1> QED
  BY <1>9, <1>10, <1>12 DEF CyclicInv

LEMMA WriteDataByteKeeps ==
  ASSUME CyclicInv, NEW t \in Setters, WriteDataByte(t)
  PROVE  CyclicInv'
<1> DEFINE c == setter[t]
           more == [c EXCEPT !.index = @ + 1]
           left == [c EXCEPT !.at = "leave"]
<1>1. /\ UNCHANGED <<settled, dataLock>> /\ c.at = "write" /\ CyclicTyped
      /\ data' = [data EXCEPT ![c.index] = c.value[c.index]]
  BY DEF WriteDataByte, CyclicInv
<1>2. c \in CyclicCalls /\ dataLock = t /\ Underway(c, data, settled)
  BY <1>1, SetterCalls DEF CyclicInv, OwnerInside, CyclicSettled
<1>3. /\ c.op = "setData" /\ c.index < NumBytes => setter' = [setter EXCEPT ![t] = more]
      /\ ~(c.op = "setData" /\ c.index < NumBytes) => setter' = [setter EXCEPT ![t] = left]
  BY Zenon DEF WriteDataByte
<1> HIDE DEF c
<1>4. /\ c.index \in Index /\ c.value \in [Index -> SUBSET Bits]
      /\ data \in [Index -> SUBSET Bits] /\ settled \in [Index -> SUBSET Bits]
  BY <1>1, <1>2 DEF CyclicCalls, CyclicTyped
<1>5. /\ data' \in [Index -> SUBSET Bits] /\ data'[c.index] = c.value[c.index]
      /\ \A j \in Index \ {c.index} : data'[j] = data[j]
  BY <1>1, <1>4
<1>6. ASSUME NEW d \in CyclicCalls, setter' = [setter EXCEPT ![t] = d],
             d.at \in {"write", "leave"}, Underway(d, data', settled)
      PROVE  CyclicInv'
  <2>1. /\ setter' \in [Setters -> {NoCall} \cup CyclicCalls]
        /\ setter'[t] = d
        /\ \A u \in Setters \ {t} : setter'[u] = setter[u]
    BY <1>1, <1>6, SetterMoves
  <2>2. CyclicTyped'
    BY <1>1, <1>5, <1>6, <2>1 DEF CyclicTyped
  <2>3. OwnerInside'
    BY <1>1, <1>2, <1>6, <2>1 DEF CyclicInv, OwnerInside
  <2>4. CyclicSettled'
    BY <1>1, <1>2, <1>6, <2>1, CyclicAssumption DEF CyclicSettled
  <2> QED
    BY <2>2, <2>3, <2>4 DEF CyclicInv
<1>7. c.index \in Nat /\ 1 <= c.index /\ c.index <= NumBytes /\ NumBytes \in Nat
  BY <1>4, CyclicAssumption DEF Index
<1>8. CASE c.op = "setData" /\ c.index < NumBytes
  <2>1. c.index + 1 \in Index
    BY <1>7, <1>8 DEF Index
  <2>2. /\ more \in CyclicCalls /\ more.index = c.index + 1
        /\ more.at = c.at /\ more.op = c.op /\ more.value = c.value /\ more.bits = c.bits
    BY <1>2, <2>1, CallGoesOn
  <2> HIDE DEF more
  <2>3. \A j \in 1..c.index : data'[j] = c.value[j]
    <3>1. \A j \in 1..c.index - 1 : data[j] = c.value[j]
      BY <1>1, <1>2, <1>8 DEF Underway
    <3>2. ASSUME NEW j \in 1..c.index PROVE data'[j] = c.value[j]
      <4>1. j \in Index
        BY <1>7 DEF Index
      <4>2. j = c.index \/ j \in 1..c.index - 1
        BY <1>7
      <4> QED
        BY <1>5, <1>7, <3>1, <4>1, <4>2
    <3> QED
      BY <1>7, <3>2
  <2>4. \A j \in 1..more.index - 1 : data'[j] = more.value[j]
    <3>1. ASSUME NEW j \in 1..more.index - 1 PROVE j \in 1..c.index
      BY <1>7, <2>2
    <3> QED
      BY <2>2, <2>3, <3>1
  <2>5. Underway(more, data', settled)
    <3>1. more.op = "setData" /\ more.at # "read" /\ more.at # "leave"
      BY <1>1, <1>8, <2>2
    <3> QED
      BY <2>4, <3>1, Zenon DEF Underway
  <2> QED
    BY <1>1, <1>3, <1>6, <1>8, <2>2, <2>5
<1>9. CASE ~(c.op = "setData" /\ c.index < NumBytes)
  <2>1. "leave" \in Places
    BY DEF Places
  <2>2. /\ left \in CyclicCalls /\ left.at = "leave"
        /\ left.op = c.op /\ left.index = c.index /\ left.value = c.value /\ left.bits = c.bits
    BY <1>2, <2>1, CallMoves
  <2> HIDE DEF left
  <2>3. CASE c.op = "setData"
    <3>1. \A j \in 1..c.index - 1 : data[j] = c.value[j]
      BY <1>1, <1>2, <2>3 DEF Underway
    <3>2. c.index = NumBytes
      BY <1>7, <1>9, <2>3
    <3>3. ASSUME NEW j \in Index PROVE data'[j] = c.value[j]
      <4>1. j = c.index \/ j \in 1..c.index - 1
        BY <1>7, <3>2 DEF Index
      <4> QED
        BY <1>5, <1>7, <3>1, <4>1
    <3>4. data' = c.value
      BY <1>4, <1>5, <3>3
    <3> QED
      BY <1>3, <1>6, <1>9, <2>2, <2>3, <3>4 DEF Underway
  <2>4. CASE c.op # "setData"
    <3>1. data = settled /\ c.value[c.index] = Changed(c, settled[c.index])
      BY <1>1, <1>2, <2>4 DEF Underway
    <3>2. Changed(left, settled[left.index]) = c.value[c.index]
      BY <2>2, <3>1 DEF Changed
    <3>3. data' = [settled EXCEPT ![left.index] = Changed(left, settled[left.index])]
      BY <1>1, <2>2, <3>1, <3>2
    <3> QED
      BY <1>3, <1>6, <1>9, <2>2, <2>4, <3>3 DEF Underway
  <2> QED
    BY <2>3, <2>4
<1> QED
  BY <1>8, <1>9

LEMMA UnlockDataKeeps ==
  ASSUME CyclicInv, NEW t \in Setters, UnlockData(t)
  PROVE  CyclicInv'
<1> DEFINE c == setter[t]
<1>1. /\ c.at = "leave" /\ UNCHANGED data /\ dataLock' = Unlocked
      /\ settled' = Completed(c) /\ setter' = [setter EXCEPT ![t] = NoCall] /\ CyclicTyped
  BY DEF UnlockData, CyclicInv
<1>2. dataLock = t /\ Underway(c, data, settled)
  BY <1>1 DEF CyclicInv, OwnerInside, CyclicSettled
<1>3. settled' = data
  BY <1>1, <1>2 DEF Underway, Completed
<1>4. /\ setter' \in [Setters -> {NoCall} \cup CyclicCalls]
      /\ setter'[t] = NoCall
      /\ \A u \in Setters \ {t} : setter'[u] = setter[u]
  BY <1>1, SetterMoves
<1>5. NoCall.at = "idle"
  BY DEF NoCall
<1>6. CyclicTyped'
  BY <1>1, <1>3, <1>4, <1>5 DEF CyclicTyped
<1>7. OwnerInside'
  BY <1>1, <1>2, <1>4, <1>5, CyclicAssumption DEF CyclicInv, OwnerInside
<1>8. CyclicSettled'
  BY <1>1, <1>3, CyclicAssumption DEF CyclicSettled
<1> QED
  BY <1>6, <1>7, <1>8 DEF CyclicInv

(* So are the data of the cyclic message.                                  *)
LEMMA CyclicAlways == Spec => []CyclicInv
<1>1. Init => CyclicInv
  <2> SUFFICES ASSUME Init PROVE CyclicInv
    OBVIOUS
  <2>1. /\ data = [i \in Index |-> {}] /\ dataLock = Unlocked /\ settled = data
        /\ setter = [t \in Setters |-> NoCall]
    BY DEF Init, CyclicInit
  <2>2. /\ data \in [Index -> SUBSET Bits]
        /\ setter \in [Setters -> {NoCall} \cup CyclicCalls]
        /\ \A t \in Setters : setter[t] = NoCall
    BY <2>1
  <2>3. NoCall.at = "idle"
    BY DEF NoCall
  <2> QED
    BY <2>1, <2>2, <2>3, CyclicAssumption
       DEF CyclicInv, CyclicTyped, OwnerInside, CyclicSettled
<1>2. CyclicInv /\ [Next]_vars => CyclicInv'
  <2>1. ASSUME CyclicInv, SendData \/ UNCHANGED cyclicVars PROVE CyclicInv'
    <3>1. UNCHANGED <<data, dataLock, setter, settled>>
      BY <2>1 DEF SendData, cyclicVars
    <3> QED
      BY <2>1, <3>1 DEF CyclicInv, CyclicTyped, OwnerInside, CyclicSettled, Underway, Changed
  <2> QED
    BY <2>1, DriverSteps, CallSetterKeeps, LockDataKeeps, ReadDataByteKeeps, WriteDataByteKeeps,
       UnlockDataKeeps DEF CyclicNext, Set
<1> QED
  BY <1>1, <1>2, PTL DEF Spec

(***************************************************************************)
(* Setters of different tasks take effect one after the other: when none   *)
(* is within its call, the data are what the completed calls make of them. *)
(***************************************************************************)
THEOREM SetsAddUp == Spec => []CyclicSetsAddUp
<1>1. CyclicInv => CyclicSetsAddUp
  <2> SUFFICES ASSUME CyclicInv, \A t \in Setters : setter[t].at \in {"idle", "lock"}
               PROVE  data = settled
    BY DEF CyclicSetsAddUp
  <2>1. \A t \in Setters : dataLock # t
    BY DEF CyclicInv, OwnerInside
  <2> QED
    BY <2>1 DEF CyclicInv, CyclicTyped, CyclicSettled
<1> QED
  BY <1>1, CyclicAlways, PTL

-----------------------------------------------------------------------------
(***************************************************************************)
(* Transfers in one direction, with the start condition, if any, before    *)
(* the first and the stop condition, if any, after the last.               *)
(***************************************************************************)
Bus == TransfersTo({NoChannel})

Burst(s, receive, begins, stop) ==
    /\ s \in Seq(Bus) /\ Len(s) >= 1
    /\ \A i \in 1..Len(s) :
           /\ s[i].receive = receive
           /\ s[i].start <=> begins /\ i = 1
           /\ s[i].stop <=> stop /\ i = Len(s)

(* Transfers in one direction, none of them perhaps, with the stop         *)
(* condition, if any, after that at "at".                                  *)
Part(s, receive, at) ==
    /\ s \in Seq(Bus)
    /\ \A i \in 1..Len(s) :
           /\ s[i].receive = receive
           /\ s[i].start <=> i = 1
           /\ s[i].stop <=> i = at

Framed(s, at) ==
    \A i \in DOMAIN s :
        /\ s[i].start <=> (i = 1 \/ s[i].receive # s[i - 1].receive)
        /\ s[i].stop <=> i = at

(* Where the stop condition is in a method that ends with a read of n.     *)
ReadStopAt(n, length) ==
    CASE n \in 1..IndexWrap - 1 -> length
      [] n = IndexWrap -> length - 1
      [] OTHER -> 0

(* Two sequences of transfers, one after the other.                        *)
LEMMA OneAfterOther ==
  ASSUME NEW s \in Seq(Bus), NEW t \in Seq(Bus)
  PROVE  /\ s \o t \in Seq(Bus) /\ Len(s \o t) = Len(s) + Len(t)
         /\ Len(s) \in Nat /\ Len(t) \in Nat
         /\ \A i \in 1..Len(s) : (s \o t)[i] = s[i]
         /\ \A i \in 1..Len(t) : (s \o t)[Len(s) + i] = t[i]
<1>1. Len(s) \in Nat /\ Len(t) \in Nat
  BY LenProperties
<1>2. /\ s \o t \in Seq(Bus) /\ Len(s \o t) = Len(s) + Len(t)
      /\ \A i \in 1..Len(s) + Len(t) : (s \o t)[i] = IF i <= Len(s) THEN s[i] ELSE t[i - Len(s)]
  BY ConcatProperties
<1>3. \A i \in 1..Len(s) : (s \o t)[i] = s[i]
  BY <1>1, <1>2
<1>4. ASSUME NEW i \in 1..Len(t) PROVE (s \o t)[Len(s) + i] = t[i]
  <2>1. Len(s) + i \in 1..Len(s) + Len(t) /\ ~(Len(s) + i <= Len(s)) /\ Len(s) + i - Len(s) = i
    BY <1>1
  <2> QED
    BY <1>2, <2>1
<1> QED
  BY <1>1, <1>2, <1>3, <1>4

(* A burst goes on in the same direction, without start and stop between.  *)
LEMMA BurstGoesOn ==
  ASSUME NEW s, NEW t, NEW receive, NEW begins \in BOOLEAN, NEW stop \in BOOLEAN,
         Burst(s, receive, begins, FALSE), Burst(t, receive, FALSE, stop)
  PROVE  Burst(s \o t, receive, begins, stop)
<1> DEFINE m == Len(s)
           n == Len(t)
           all == s \o t
<1>1. /\ all \in Seq(Bus) /\ Len(all) = m + n /\ m \in Nat /\ n \in Nat /\ m >= 1 /\ n >= 1
      /\ \A i \in 1..m : all[i] = s[i]
      /\ \A i \in 1..n : all[m + i] = t[i]
  BY OneAfterOther DEF Burst
<1>2. /\ \A i \in 1..m : s[i].receive = receive /\ (s[i].start <=> begins /\ i = 1) /\ ~s[i].stop
      /\ \A i \in 1..n : t[i].receive = receive /\ ~t[i].start /\ (t[i].stop <=> stop /\ i = n)
  BY DEF Burst
<1> HIDE DEF m, n, all
<1>3. ASSUME NEW i \in 1..m + n
      PROVE  /\ all[i].receive = receive
             /\ all[i].start <=> begins /\ i = 1
             /\ all[i].stop <=> stop /\ i = m + n
  <2>1. CASE i <= m
    <3>1. i \in 1..m /\ i # m + n
      BY <1>1, <2>1
    <3>2. all[i] = s[i]
      BY <1>1, <3>1
    <3> QED
      BY <1>2, <3>1, <3>2, Zenon
  <2>2. CASE ~(i <= m)
    <3>1. i - m \in 1..n /\ m + (i - m) = i /\ i # 1 /\ (i - m = n <=> i = m + n)
      BY <1>1, <2>2
    <3>2. all[i] = t[i - m]
      BY <1>1, <3>1
    <3> QED
      BY <1>2, <3>1, <3>2, Zenon
  <2> QED
    BY <2>1, <2>2
<1>4. Len(all) >= 1
  BY <1>1
<1> QED
  BY <1>1, <1>3, <1>4, Zenon DEF Burst, all

(* A burst is a part; a part is framed, and so are two parts that go in    *)
(* different directions, the first without a stop condition.               *)
LEMMA BurstIsPart ==
  ASSUME NEW s, NEW receive
  PROVE  /\ Burst(s, receive, TRUE, TRUE) => Part(s, receive, Len(s))
         /\ Burst(s, receive, TRUE, FALSE) => Part(s, receive, 0)
<1>1. ASSUME Burst(s, receive, TRUE, TRUE) PROVE Part(s, receive, Len(s))
  BY <1>1, Zenon DEF Burst, Part
<1>2. ASSUME Burst(s, receive, TRUE, FALSE) PROVE Part(s, receive, 0)
  <2>1. \A i \in 1..Len(s) : i # 0
    OBVIOUS
  <2> QED
    BY <1>2, <2>1, Zenon DEF Burst, Part
<1> QED
  BY <1>1, <1>2

LEMMA PartFramed ==
  ASSUME NEW s, NEW receive, NEW at, Part(s, receive, at)
  PROVE  Framed(s, at)
<1>1. DOMAIN s = 1..Len(s) /\ Len(s) \in Nat
  BY LenProperties DEF Part
<1>2. ASSUME NEW i \in 1..Len(s) PROVE s[i].receive # s[i - 1].receive => i = 1
  <2>1. i # 1 => i - 1 \in 1..Len(s)
    BY <1>1
  <2> QED
    BY <2>1 DEF Part
<1>3. ASSUME NEW i \in 1..Len(s)
      PROVE  (s[i].start <=> i = 1) /\ (s[i].stop <=> i = at)
  BY Zenon DEF Part
<1> QED
  BY <1>1, <1>2, <1>3, Zenon DEF Framed

LEMMA TwoPartsFramed ==
  ASSUME NEW s, NEW t, NEW at \in Nat, Part(s, FALSE, 0), Part(t, TRUE, at)
  PROVE  Framed(s \o t, IF at = 0 THEN 0 ELSE Len(s) + at)
<1> DEFINE m == Len(s)
           n == Len(t)
           all == s \o t
           last == IF at = 0 THEN 0 ELSE m + at
<1>1. /\ all \in Seq(Bus) /\ Len(all) = m + n /\ m \in Nat /\ n \in Nat
      /\ \A i \in 1..m : all[i] = s[i]
      /\ \A i \in 1..n : all[m + i] = t[i]
  BY OneAfterOther DEF Part
<1>2. DOMAIN all = 1..m + n
  BY <1>1, LenProperties
<1>3. /\ \A i \in 1..m : s[i].receive = FALSE /\ (s[i].start <=> i = 1) /\ (s[i].stop <=> i = 0)
      /\ \A i \in 1..n : t[i].receive = TRUE /\ (t[i].start <=> i = 1) /\ (t[i].stop <=> i = at)
  BY DEF Part
<1>4. last \in Nat /\ (last = 0 <=> at = 0) /\ (at # 0 => last = m + at)
  BY <1>1
<1> HIDE DEF m, n, all, last
<1>5. ASSUME NEW i \in 1..m + n
      PROVE  /\ all[i].start <=> (i = 1 \/ all[i].receive # all[i - 1].receive)
             /\ all[i].stop <=> i = last
  <2>1. CASE i <= m
    <3>1. i \in 1..m /\ i # 0 /\ i # last /\ (i # 1 => i - 1 \in 1..m)
      <4>1. i \in Nat /\ i # 0 /\ i \in 1..m /\ (i # 1 => i - 1 \in 1..m)
        BY <1>1, <2>1
      <4>2. i # last
        BY <1>1, <1>4, <2>1, <4>1
      <4> QED
        BY <4>1, <4>2
    <3>2. all[i] = s[i] /\ (i # 1 => all[i - 1] = s[i - 1])
      BY <1>1, <3>1
    <3>3. i # 1 => all[i].receive = all[i - 1].receive
      BY <1>3, <3>1, <3>2
    <3> QED
      BY <1>3, <3>1, <3>2, <3>3, Zenon
  <2>2. CASE i = m + 1
    <3>1. 1 \in 1..n /\ i - 1 = m /\ (i # 1 => m \in 1..m)
      BY <1>1, <2>2
    <3>2. i = last <=> 1 = at
      BY <1>1, <1>4, <2>2
    <3>3. all[i] = t[1] /\ (i # 1 => all[i - 1] = s[m])
      BY <1>1, <2>2, <3>1
    <3>4. i # 1 => all[i].receive # all[i - 1].receive
      BY <1>3, <3>1, <3>3
    <3> QED
      BY <1>3, <3>1, <3>2, <3>3, <3>4, Zenon
  <2>3. CASE i > m + 1
    <3>1. /\ i - m \in 1..n /\ i - 1 - m \in 1..n /\ m + (i - m) = i /\ m + (i - 1 - m) = i - 1
          /\ i # 1 /\ i - m # 1 /\ (i = last <=> i - m = at)
      <4>1. m \in Nat /\ n \in Nat /\ i \in Nat /\ i <= m + n
        BY <1>1
      <4>2. i - m \in 1..n /\ i - 1 - m \in 1..n
        BY <2>3, <4>1
      <4>3. m + (i - m) = i /\ m + (i - 1 - m) = i - 1
        BY <4>1
      <4>4. i # 1 /\ i - m # 1 /\ (i = last <=> i - m = at)
        BY <1>4, <2>3, <4>1
      <4> QED
        BY <4>2, <4>3, <4>4
    <3>2. all[i] = t[i - m] /\ all[i - 1] = t[i - 1 - m]
      BY <1>1, <3>1
    <3>3. all[i].receive = all[i - 1].receive
      BY <1>3, <3>1, <3>2
    <3> QED
      BY <1>3, <3>1, <3>2, <3>3, Zenon
  <2> QED
    BY <1>1, <2>1, <2>2, <2>3
<1> QED
  BY <1>1, <1>2, <1>5, Zenon DEF Framed, all, last, m

(* The methods for one byte, and for several.                              *)
LEMMA OneByteBurst ==
  ASSUME NEW begins \in BOOLEAN, NEW stop \in BOOLEAN
  PROVE  /\ Burst(Read8(begins, stop), TRUE, begins, stop)
         /\ Burst(Write8(begins, stop), FALSE, begins, stop)
<1>1. ASSUME NEW x \in Bus, x.start = begins, x.stop = stop
      PROVE  Burst(<<x>>, x.receive, begins, stop)
  BY <1>1 DEF Burst
<1>2. ASSUME NEW receive \in BOOLEAN, NEW again \in BOOLEAN
      PROVE  LET x == Transfer(receive, begins, stop, again)
             IN  x \in Bus /\ x.start = begins /\ x.stop = stop /\ x.receive = receive
  BY DEF Transfer, Bus, TransfersTo
<1> QED
  BY <1>1, <1>2 DEF Read8, Write8

LEMMA SequenceOfBus ==
  ASSUME NEW n \in Nat, NEW s \in [1..n -> Bus]
  PROVE  s \in Seq(Bus) /\ Len(s) = n
<1>1. s \in Seq(Bus)
  BY SeqDef
<1>2. 1..n = 1..Len(s) /\ Len(s) \in Nat
  BY <1>1, LenProperties
<1> QED
  BY <1>1, <1>2

(* A sequence given transfer by transfer.                                  *)
Laid(s, receive, length, at) ==
  /\ DOMAIN s = 1..length /\ s = [i \in 1..length |-> s[i]]
  /\ \A i \in 1..length : \E again \in BOOLEAN, first \in BOOLEAN, stop \in BOOLEAN :
        /\ s[i] = Transfer(receive, first, stop, again)
        /\ first <=> i = 1
        /\ stop <=> i = at

LEMMA LaidIsPart ==
  ASSUME NEW receive \in BOOLEAN, NEW length \in Nat, NEW at, NEW s, Laid(s, receive, length, at)
  PROVE  Part(s, receive, at) /\ Len(s) = length
<1>1. ASSUME NEW b \in BOOLEAN, NEW c \in BOOLEAN, NEW again \in BOOLEAN
      PROVE  LET x == Transfer(receive, b, c, again)
             IN  x \in Bus /\ x.start = b /\ x.stop = c /\ x.receive = receive
  BY DEF Transfer, Bus, TransfersTo
<1>2. ASSUME NEW i \in 1..length
      PROVE  /\ s[i] \in Bus /\ s[i].receive = receive
             /\ s[i].start <=> i = 1
             /\ s[i].stop <=> i = at
  <2>1. PICK again \in BOOLEAN, first \in BOOLEAN, stop \in BOOLEAN :
             /\ s[i] = Transfer(receive, first, stop, again)
             /\ first <=> i = 1
             /\ stop <=> i = at
    BY Zenon DEF Laid
  <2>2. s[i] \in Bus /\ s[i].start = first /\ s[i].stop = stop /\ s[i].receive = receive
    BY <1>1, <2>1
  <2> QED
    BY <2>1, <2>2, Zenon
<1>3. s \in [1..length -> Bus]
  BY <1>2 DEF Laid
<1>4. s \in Seq(Bus) /\ Len(s) = length
  BY <1>3, SequenceOfBus
<1> QED
  BY <1>2, <1>4, Zenon DEF Part

LEMMA BytesPart ==
  ASSUME NEW n \in Nat
  PROVE  /\ Part(Read(n, TRUE, TRUE), TRUE, ReadStopAt(n, ReadLength(n)))
         /\ Part(Write(n, TRUE, TRUE), FALSE, n)
         /\ Part(Write(n, TRUE, FALSE), FALSE, 0)
         /\ Len(Read(n, TRUE, TRUE)) = ReadLength(n) /\ Len(Write(n, TRUE, TRUE)) = n
         /\ ReadStopAt(n, ReadLength(n)) \in Nat
<1>1. ReadLength(n) \in Nat /\ ReadStopAt(n, ReadLength(n)) \in Nat
  BY IndexAssumption DEF ReadLength, ReadStopAt
<1>2. ASSUME NEW i \in 1..ReadLength(n)
      PROVE  (i = n /\ i <= IndexWrap) <=> i = ReadStopAt(n, ReadLength(n))
  BY <1>2, IndexAssumption DEF ReadLength, ReadStopAt
<1>3. ASSUME NEW s, s = Read(n, TRUE, TRUE)
      PROVE  Part(s, TRUE, ReadStopAt(n, ReadLength(n))) /\ Len(s) = ReadLength(n)
  <2>1. /\ DOMAIN s = 1..ReadLength(n) /\ s = [i \in 1..ReadLength(n) |-> s[i]]
        /\ \A i \in 1..ReadLength(n) :
               s[i] = Transfer(TRUE, TRUE /\ i = 1, TRUE /\ i = n /\ i <= IndexWrap, TRUE)
    BY <1>3, Zenon DEF Read
  <2>2. ASSUME NEW i \in 1..ReadLength(n)
        PROVE  \E again \in BOOLEAN, first \in BOOLEAN, stop \in BOOLEAN :
                   /\ s[i] = Transfer(TRUE, first, stop, again)
                   /\ first <=> i = 1
                   /\ stop <=> i = ReadStopAt(n, ReadLength(n))
    <3>1. PICK first \in BOOLEAN : first = (TRUE /\ i = 1)
      BY Zenon
    <3>2. PICK stop \in BOOLEAN : stop = (TRUE /\ i = n /\ i <= IndexWrap)
      BY Zenon
    <3>3. s[i] = Transfer(TRUE, first, stop, TRUE)
      BY <2>1, <3>1, <3>2, Zenon
    <3> QED
      BY <1>2, <3>1, <3>2, <3>3, Zenon
  <2>3. Laid(s, TRUE, ReadLength(n), ReadStopAt(n, ReadLength(n)))
    BY <2>1, <2>2, Zenon DEF Laid
  <2> QED
    BY <1>1, <2>3, LaidIsPart
<1>4. ASSUME NEW stop \in BOOLEAN, NEW s, s = Write(n, TRUE, stop), NEW at,
             at = IF stop THEN n ELSE 0
      PROVE  Part(s, FALSE, at) /\ Len(s) = n
  <2>1. /\ DOMAIN s = 1..n /\ s = [i \in 1..n |-> s[i]]
        /\ \A i \in 1..n : s[i] = Transfer(FALSE, TRUE /\ i = 1, stop /\ i = n, i = 1)
    BY <1>4, Zenon DEF Write
  <2>2. ASSUME NEW i \in 1..n
        PROVE  \E again \in BOOLEAN, first \in BOOLEAN, c \in BOOLEAN :
                   /\ s[i] = Transfer(FALSE, first, c, again)
                   /\ first <=> i = 1
                   /\ c <=> i = at
    <3>1. PICK first \in BOOLEAN : first = (TRUE /\ i = 1)
      BY Zenon
    <3>2. PICK c \in BOOLEAN : c = (stop /\ i = n)
      BY Zenon
    <3>3. PICK again \in BOOLEAN : again = (i = 1)
      BY Zenon
    <3>4. s[i] = Transfer(FALSE, first, c, again)
      BY <2>1, <3>1, <3>2, <3>3, Zenon
    <3>5. (stop /\ i = n) <=> i = at
      BY <1>4
    <3> QED
      BY <3>1, <3>2, <3>4, <3>5, Zenon
  <2>3. Laid(s, FALSE, n, at)
    BY <2>1, <2>2, Zenon DEF Laid
  <2> QED
    BY <2>3, LaidIsPart
<1>5. Part(Write(n, TRUE, TRUE), FALSE, n) /\ Len(Write(n, TRUE, TRUE)) = n
  BY <1>4
<1>6. Part(Write(n, TRUE, FALSE), FALSE, 0)
  BY <1>4
<1> QED
  BY <1>1, <1>3, <1>5, <1>6, Zenon

LEMMA WordBursts ==
  ASSUME NEW begins \in BOOLEAN, NEW stop \in BOOLEAN
  PROVE  /\ Burst(Read16(begins, stop), TRUE, begins, stop)
         /\ Burst(Read32(begins, stop), TRUE, begins, stop)
         /\ Burst(Write16(begins, stop), FALSE, begins, stop)
         /\ Burst(Write32(begins, stop), FALSE, begins, stop)
<1>1. ASSUME NEW a \in BOOLEAN, NEW b \in BOOLEAN
      PROVE  Burst(Read16(a, b), TRUE, a, b) /\ Burst(Write16(a, b), FALSE, a, b)
  BY OneByteBurst, BurstGoesOn, Zenon DEF Read16, Write16
<1> QED
  BY <1>1, BurstGoesOn, Zenon DEF Read32, Write32

(* A method that does not end with a counted read has its stop condition   *)
(* at the end.                                                             *)
LEMMA OtherMethodFramed ==
  ASSUME NEW m, \/ m \in BurstMethods(TRUE, TRUE) \cup RegisterMethods(TRUE, TRUE)
                \/ m \in WriteMethods(Counts, TRUE, TRUE)
  PROVE  Framed(m, Len(m))
<1> DEFINE Out(s) == Part(s, FALSE, 0) /\ s \in Seq(Bus)
           In(s) == Part(s, TRUE, Len(s)) /\ s \in Seq(Bus) /\ Len(s) >= 1
           Whole(s) == \E receive \in BOOLEAN : Part(s, receive, Len(s))
<1>1. \A s : Burst(s, FALSE, TRUE, FALSE) => Out(s)
  BY BurstIsPart, Zenon DEF Burst
<1>2. \A s : Burst(s, TRUE, TRUE, TRUE) => In(s)
  BY BurstIsPart, Zenon DEF Burst
<1>3. \A s : \A receive \in BOOLEAN : Burst(s, receive, TRUE, TRUE) => Whole(s)
  BY BurstIsPart, Zenon
<1>4. \A s, t : Out(s) /\ In(t) => Framed(s \o t, Len(s \o t))
  <2> SUFFICES ASSUME NEW s, NEW t, Out(s), In(t) PROVE Framed(s \o t, Len(s \o t))
    OBVIOUS
  <2>1. Framed(s \o t, IF Len(t) = 0 THEN 0 ELSE Len(s) + Len(t))
    BY TwoPartsFramed, LenProperties
  <2>2. Len(s \o t) = Len(s) + Len(t) /\ Len(t) # 0
    BY OneAfterOther
  <2> QED
    BY <2>1, <2>2
<1>5. \A s : Whole(s) => Framed(s, Len(s))
  BY PartFramed, Zenon
<1> HIDE DEF Out, In, Whole
<1>6. /\ In(Read8(TRUE, TRUE)) /\ In(Read16(TRUE, TRUE)) /\ In(Read32(TRUE, TRUE))
      /\ Out(Write8(TRUE, FALSE)) /\ Out(Write16(TRUE, FALSE))
  BY <1>1, <1>2, OneByteBurst, WordBursts, Zenon
<1>7. CASE m \in BurstMethods(TRUE, TRUE)
  <2>1. Whole(Read8(TRUE, TRUE)) /\ Whole(Write8(TRUE, TRUE))
    BY <1>3, OneByteBurst, Zenon
  <2>2. Whole(Read16(TRUE, TRUE)) /\ Whole(Read32(TRUE, TRUE))
    BY <1>3, WordBursts, Zenon
  <2>3. Whole(Write16(TRUE, TRUE)) /\ Whole(Write32(TRUE, TRUE))
    BY <1>3, WordBursts, Zenon
  <2> QED
    BY <1>5, <1>7, <2>1, <2>2, <2>3, Zenon DEF BurstMethods
<1>8. CASE m \in RegisterMethods(TRUE, TRUE)
  BY <1>4, <1>6, <1>8, Zenon
     DEF RegisterMethods, Write8Read8, Write8Read16, Write8Read32, Write16Read8, Write16Read16,
         Write16Read32
<1>9. CASE m \in WriteMethods(Counts, TRUE, TRUE)
  <2>1. PICK n \in Counts : m = Write(n, TRUE, TRUE)
    BY <1>9 DEF WriteMethods
  <2>2. Part(m, FALSE, Len(m))
    BY <2>1, CountsAssumption, BytesPart
  <2> QED
    BY <2>2, PartFramed
<1> QED
  BY <1>7, <1>8, <1>9

(* One that does has it where the index of read() finds the last byte.     *)
LEMMA ReadMethodFramed ==
  ASSUME NEW n \in Counts, NEW m \in ReadMethods(n, Counts, TRUE, TRUE)
  PROVE  Framed(m, ReadStopAt(n, Len(m)))
<1> DEFINE t == Read(n, TRUE, TRUE)
           at == ReadStopAt(n, ReadLength(n))
<1>1. n \in Nat /\ Part(t, TRUE, at) /\ Len(t) = ReadLength(n) /\ at \in Nat
  BY CountsAssumption, BytesPart
<1>2. ReadLength(n) \in Nat
  BY <1>1, IndexAssumption DEF ReadLength
<1>3. ASSUME NEW k \in Nat
      PROVE  ReadStopAt(n, k + ReadLength(n)) = IF at = 0 THEN 0 ELSE k + at
  BY <1>1, <1>3, IndexAssumption DEF ReadStopAt, ReadLength
<1> HIDE DEF t, at
<1>4. ASSUME NEW s, Part(s, FALSE, 0) PROVE Framed(s \o t, ReadStopAt(n, Len(s \o t)))
  <2>1. Framed(s \o t, IF at = 0 THEN 0 ELSE Len(s) + at)
    BY <1>1, <1>4, TwoPartsFramed
  <2>2. Len(s \o t) = Len(s) + ReadLength(n) /\ Len(s) \in Nat
    <3>1. s \in Seq(Bus) /\ t \in Seq(Bus)
      BY <1>1, <1>4 DEF Part
    <3>2. Len(s \o t) = Len(s) + Len(t) /\ Len(s) \in Nat
      BY <3>1, OneAfterOther
    <3> QED
      BY <1>1, <3>2
  <2>3. ReadStopAt(n, Len(s) + ReadLength(n)) = IF at = 0 THEN 0 ELSE Len(s) + at
    BY <1>3, <2>2
  <2> QED
    BY <2>1, <2>2, <2>3
<1>5. CASE m = t
  BY <1>1, <1>5, PartFramed DEF at
<1>6. Part(Write8(TRUE, FALSE), FALSE, 0) /\ Part(Write16(TRUE, FALSE), FALSE, 0)
  BY OneByteBurst, WordBursts, BurstIsPart
<1>7. \A k \in Counts : Part(Write(k, TRUE, FALSE), FALSE, 0)
  BY CountsAssumption, BytesPart
<1>8. \/ m = t
      \/ m = Write8(TRUE, FALSE) \o t \/ m = Write16(TRUE, FALSE) \o t
      \/ \E k \in Counts : m = Write(k, TRUE, FALSE) \o t
  BY Zenon DEF ReadMethods, WriteRead, Write8Read, Write16Read, t
<1> QED
  BY <1>4, <1>5, <1>6, <1>7, <1>8, Zenon

(***************************************************************************)
(* Each method addresses the device once for each direction, with a start  *)
(* condition, and sends a stop condition after its last byte and no        *)
(* earlier, exactly when the index of read() gets to the last byte: for    *)
(* any numbers of bytes, 0 and those beyond the index included.            *)
(***************************************************************************)
THEOREM AllMethodsFramed == Spec => []MethodsFramed
<1>1. Init => MethodsFramed
  BY DEF Init, MethodsInit, MethodsFramed
<1>2. MethodsFramed /\ [Next]_vars => MethodsFramed'
  <2> SUFFICES ASSUME MethodsFramed, [Next]_vars PROVE MethodsFramed'
    OBVIOUS
  <2>1. ASSUME Framed(onBus', ReadStopAt(readCount', Len(onBus'))) PROVE MethodsFramed'
    BY <2>1 DEF MethodsFramed, StopAt, Framed, ReadStopAt
  <2>2. ReadStopAt(1, Len(onBus')) = Len(onBus')
    BY IndexAssumption DEF ReadStopAt
  <2>3. ASSUME readCount' = 1,
               \/ onBus' \in BurstMethods(TRUE, TRUE) \cup RegisterMethods(TRUE, TRUE)
               \/ onBus' \in WriteMethods(Counts, TRUE, TRUE)
        PROVE  MethodsFramed'
    <3>1. Framed(onBus', Len(onBus'))
      BY <2>3, OtherMethodFramed
    <3> QED
      BY <2>1, <2>2, <2>3, <3>1
  <2>4. ASSUME NEW n \in Counts, onBus' \in ReadMethods(n, Counts, TRUE, TRUE), readCount' = n
        PROVE  MethodsFramed'
    BY <2>1, <2>4, ReadMethodFramed
  <2>5. CASE CallMethod
    BY <2>3, <2>4, <2>5 DEF CallMethod
  <2>6. CASE ReceiveWord
    BY <2>3, <2>6 DEF ReceiveWord, BurstMethods
  <2>7. CASE \E n \in {2, 4}, bigEndian \in BOOLEAN :
             \E v \in 0..Weight[n] * ByteValues - 1 : SendWord(v, n, bigEndian)
    BY <2>3, <2>7 DEF SendWord, BurstMethods
  <2>8. CASE UNCHANGED methodVars
    BY <2>8 DEF methodVars, MethodsFramed, StopAt
  <2> QED
    BY <2>5, <2>6, <2>7, <2>8, DriverSteps DEF MethodsNext
<1> QED
  BY <1>1, <1>2, PTL DEF Spec

-----------------------------------------------------------------------------
(* A quotient and a remainder are the only ones.                           *)
LEMMA Quotient ==
  ASSUME NEW n \in Nat \ {0}, NEW a \in Int, NEW q \in Int, NEW r \in 0..n - 1, a = n * q + r
  PROVE  a \div n = q /\ a % n = r
<1>1. a % n \in 0..n - 1 /\ a = n * (a \div n) + (a % n) /\ a \div n \in Int
  OBVIOUS
<1>2. PICK p \in Int, s \in Int : p = a \div n /\ s = a % n
  BY <1>1
<1>3. s \in 0..n - 1 /\ a = n * p + s
  BY <1>1, <1>2
<1>4. PICK d \in Int : d = q - p
  <2>1. q - p \in Int
    OBVIOUS
  <2> QED
    BY <2>1
<1>5. n * d = s - r
  BY <1>3, <1>4
<1>6. n * d < n /\ n * d > -n
  BY <1>3, <1>5
<1>7. d = 0
  <2>1. ~(d >= 1)
    BY <1>6
  <2>2. ~(d <= -1)
    BY <1>6
  <2> QED
    BY <2>1, <2>2
<1>8. q = p /\ r = s
  BY <1>3, <1>4, <1>5, <1>7
<1> QED
  BY <1>2, <1>8

(* To divide by a product is to divide twice.                              *)
LEMMA QuotientOfQuotient ==
  ASSUME NEW m \in Nat \ {0}, NEW n \in Nat \ {0}, NEW a \in Nat
  PROVE  a \div (m * n) = (a \div m) \div n /\ a \div m \in Nat
<1>1. /\ a % m \in 0..m - 1 /\ a = m * (a \div m) + (a % m) /\ a \div m \in Int
  OBVIOUS
<1>2. PICK p \in Int, r \in 0..m - 1 : p = a \div m /\ a = m * p + r
  BY <1>1
<1>3. p >= 0
  <2>1. p <= -1 => m * p <= -m
    OBVIOUS
  <2> QED
    BY <1>2, <2>1
<1>4. p % n \in 0..n - 1 /\ p = n * (p \div n) + (p % n) /\ p \div n \in Int
  OBVIOUS
<1>5. PICK q \in Int, s \in 0..n - 1 : q = p \div n /\ p = n * q + s
  BY <1>4
<1>6. PICK k \in Nat \ {0} : k = m * n
  <2>1. m * n \in Nat \ {0}
    OBVIOUS
  <2> QED
    BY <2>1
<1>7. PICK t \in Int : t = m * s + r
  <2>1. m * s + r \in Int
    OBVIOUS
  <2> QED
    BY <2>1
<1>8. t \in 0..k - 1
  <2>1. m * s >= 0
    OBVIOUS
  <2>2. m * s <= m * (n - 1)
    OBVIOUS
  <2>3. m * (n - 1) = k - m
    BY <1>6
  <2> QED
    BY <1>7, <2>1, <2>2, <2>3
<1>9. a = k * q + t
  <2>1. m * p = m * (n * q) + m * s
    BY <1>5
  <2>2. m * (n * q) = k * q
    BY <1>6
  <2> QED
    BY <1>2, <1>7, <2>1, <2>2
<1>10. a \div k = q
  BY <1>8, <1>9, Quotient
<1>11. a \div (m * n) = q
  BY <1>6, <1>10, Zenon
<1>12. (a \div m) \div n = q
  BY <1>2, <1>5, Zenon
<1>13. a \div m \in Nat
  BY <1>2, <1>3
<1> QED
  BY <1>11, <1>12, <1>13, Zenon

(* The bytes of a word that fits, weighted, add up to it.                  *)
LEMMA BytesAddUp ==
  ASSUME NEW n \in {2, 4}, NEW v \in 0..Weight[n] * ByteValues - 1
  PROVE  v = IF n = 2 THEN Byte(v, 1) * Weight[1] + Byte(v, 2) * Weight[2]
             ELSE Byte(v, 1) * Weight[1] + Byte(v, 2) * Weight[2] + Byte(v, 3) * Weight[3]
                  + Byte(v, 4) * Weight[4]
<1>1. PICK b \in Nat \ {0} : b = ByteValues
  BY ByteValuesAssumption
<1>2. PICK bb \in Nat \ {0} : bb = b * b
  <2>1. b * b \in Nat \ {0}
    OBVIOUS
  <2> QED
    BY <2>1
<1>3. PICK bbb \in Nat \ {0} : bbb = bb * b
  <2>1. bb * b \in Nat \ {0}
    OBVIOUS
  <2> QED
    BY <2>1
<1>4. Weight[1] = 1 /\ Weight[2] = b /\ Weight[3] = bb /\ Weight[4] = bbb
  BY <1>1, <1>2, <1>3 DEF Weight
<1>5. v \in Nat /\ v \div 1 = v
  <2>1. Weight[n] * ByteValues \in Nat
    <3>1. n = 2 \/ n = 4
      OBVIOUS
    <3>2. b * b \in Nat /\ bbb * b \in Nat
      OBVIOUS
    <3> QED
      BY <1>1, <1>4, <3>1, <3>2
  <2>2. v \in Nat
    BY <2>1
  <2>3. v = 1 * v + 0 /\ 0 \in 0..1 - 1 /\ v \in Int /\ 1 \in Nat \ {0}
    BY <2>2
  <2> QED
    BY <2>2, <2>3, Quotient
<1>6. PICK q1 \in Nat : q1 = v \div b
  BY <1>5, QuotientOfQuotient
<1>7. PICK q2 \in Nat : q2 = q1 \div b /\ q2 = v \div bb
  <2>1. v \div (b * b) = (v \div b) \div b
    BY <1>5, QuotientOfQuotient
  <2>2. q1 \div b \in Nat
    BY QuotientOfQuotient
  <2> QED
    BY <1>2, <1>6, <2>1, <2>2
<1>8. PICK q3 \in Nat : q3 = q2 \div b /\ q3 = v \div bbb
  <2>1. v \div (bb * b) = (v \div bb) \div b
    BY <1>5, QuotientOfQuotient
  <2>2. q2 \div b \in Nat
    BY QuotientOfQuotient
  <2> QED
    BY <1>3, <1>7, <2>1, <2>2
<1>9. ASSUME NEW a \in Nat
      PROVE  a % b \in 0..b - 1 /\ a = b * (a \div b) + (a % b)
  OBVIOUS
<1>10. PICK r0 \in 0..b - 1, r1 \in 0..b - 1, r2 \in 0..b - 1, r3 \in 0..b - 1 :
          /\ r0 = v % b /\ r1 = q1 % b /\ r2 = q2 % b /\ r3 = q3 % b
  BY <1>5, <1>9
<1>11. v = b * q1 + r0 /\ q1 = b * q2 + r1 /\ q2 = b * q3 + r2
  BY <1>5, <1>6, <1>7, <1>8, <1>9, <1>10
<1>12. /\ Byte(v, 1) = r0 /\ Byte(v, 2) = r1
       /\ Byte(v, 3) = r2 /\ Byte(v, 4) = r3
  BY <1>1, <1>4, <1>5, <1>6, <1>7, <1>8, <1>10, Zenon DEF Byte
<1>13. ASSUME NEW a \in Nat, a < b PROVE a % b = a
  <2>1. a = b * 0 + a /\ a \in 0..b - 1 /\ 0 \in Int /\ a \in Int
    BY <1>13
  <2> QED
    BY <2>1, Quotient
<1>14. CASE n = 2
  <2>1. v < b * b
    BY <1>1, <1>4, <1>5, <1>14
  <2>2. q1 < b
    <3>1. q1 >= b => b * q1 >= b * b
      OBVIOUS
    <3> QED
      BY <1>10, <1>11, <2>1, <3>1
  <2>3. r1 = q1
    BY <1>10, <1>13, <2>2
  <2>4. v = r0 * 1 + r1 * b
    BY <1>11, <2>3
  <2> QED
    BY <1>4, <1>12, <1>14, <2>4
<1>15. CASE n = 4
  <2>1. v < bbb * b
    BY <1>1, <1>4, <1>5, <1>15
  <2>2. v = bb * q2 + (b * r1 + r0) /\ b * r1 >= 0
    <3>1. b * q1 = b * (b * q2) + b * r1
      BY <1>11
    <3>2. b * (b * q2) = bb * q2
      BY <1>2
    <3>3. b * r1 >= 0
      OBVIOUS
    <3> QED
      BY <1>11, <3>1, <3>2, <3>3
  <2>3. bb * q2 = bbb * q3 + bb * r2 /\ bb * r2 >= 0
    <3>1. bb * q2 = bb * (b * q3) + bb * r2
      BY <1>11
    <3>2. bb * (b * q3) = bbb * q3
      BY <1>3
    <3>3. bb * r2 >= 0
      OBVIOUS
    <3> QED
      BY <3>1, <3>2, <3>3
  <2>4. q3 < b
    <3>1. q3 >= b => bbb * q3 >= bbb * b
      OBVIOUS
    <3>2. bbb * q3 <= v
      <4>1. v = bbb * q3 + bb * r2 + (b * r1 + r0)
        BY <2>2, <2>3
      <4> QED
        BY <2>2, <2>3, <4>1
    <3> QED
      BY <2>1, <3>1, <3>2
  <2>5. r3 = q3
    BY <1>10, <1>13, <2>4
  <2>6. v = r0 * 1 + r1 * b + r2 * bb + r3 * bbb
    BY <2>2, <2>3, <2>5
  <2> QED
    BY <1>4, <1>12, <1>15, <2>6
<1> QED
  BY <1>14, <1>15

(* A word is received as it was sent.                                      *)
LEMMA WordReturns ==
  ASSUME NEW n \in {2, 4}, NEW v \in 0..Weight[n] * ByteValues - 1, NEW order \in BOOLEAN
  PROVE  LET b == BytesSent(v, n, order)
         IN  Len(b) = n /\ WordReceived(b, order) = v
<1> DEFINE b == BytesSent(v, n, order)
<1>1. n \in Nat /\ (n = 2 \/ n = 4)
  OBVIOUS
<1>2. b = [i \in 1..n |-> Byte(v, Place(i, n, order))]
  BY DEF BytesSent
<1> HIDE DEF b
<1>3. Len(b) = n
  <2>1. DOMAIN b = 1..n
    BY <1>2
  <2>2. b \in Seq({b[i] : i \in 1..n})
    <3>1. b \in [1..n -> {b[i] : i \in 1..n}]
      BY <1>2
    <3> QED
      BY <1>1, <3>1, SeqDef
  <2>3. DOMAIN b = 1..Len(b) /\ Len(b) \in Nat
    BY <2>2, LenProperties
  <2> QED
    BY <1>1, <2>1, <2>3
<1>4. ASSUME NEW i \in 1..n PROVE b[Place(i, n, order)] = Byte(v, i)
  <2>1. CASE order = TRUE
    <3>1. Place(i, n, order) = n + 1 - i /\ n + 1 - i \in 1..n
      BY <1>1, <2>1 DEF Place
    <3>2. Place(n + 1 - i, n, order) = i
      BY <1>1, <2>1 DEF Place
    <3> QED
      BY <1>2, <3>1, <3>2
  <2>2. CASE order = FALSE
    <3>1. Place(i, n, order) = i
      BY <2>2 DEF Place
    <3> QED
      BY <1>2, <3>1
  <2> QED
    BY <2>1, <2>2
<1>5. WordOf(b, order) = IF n = 2 THEN Byte(v, 1) * Weight[1] + Byte(v, 2) * Weight[2]
                         ELSE Byte(v, 1) * Weight[1] + Byte(v, 2) * Weight[2]
                              + Byte(v, 3) * Weight[3] + Byte(v, 4) * Weight[4]
  <2>1. CASE n = 2
    <3>1. b[Place(1, n, order)] = Byte(v, 1) /\ b[Place(2, n, order)] = Byte(v, 2)
      BY <1>4, <2>1
    <3> QED
      BY <1>3, <2>1, <3>1, Zenon DEF WordOf
  <2>2. CASE n = 4
    <3>1. /\ b[Place(1, n, order)] = Byte(v, 1) /\ b[Place(2, n, order)] = Byte(v, 2)
          /\ b[Place(3, n, order)] = Byte(v, 3) /\ b[Place(4, n, order)] = Byte(v, 4)
      BY <1>4, <2>2
    <3>2. n # 2
      BY <2>2
    <3> QED
      BY <1>3, <3>1, <3>2, Zenon DEF WordOf
  <2> QED
    BY <1>1, <2>1, <2>2
<1> QED
  BY <1>3, <1>5, BytesAddUp, Zenon DEF WordReceived, b

(***************************************************************************)
(* A word that is written is the word that is read back, of two bytes or   *)
(* of four, in either byte order: the register holds its bytes.            *)
(***************************************************************************)
WordsInv ==
    /\ WordsKept
    /\ \/ register = <<>>
       \/ \E n \in {2, 4} :
              /\ wordSent \in 0..Weight[n] * ByteValues - 1
              /\ wordOrder \in BOOLEAN
              /\ register = BytesSent(wordSent, n, wordOrder)

THEOREM WordsReadBack == Spec => []WordsKept
<1>1. Init => WordsInv
  BY DEF Init, MethodsInit, WordsInv, WordsKept
<1>2. WordsInv /\ [Next]_vars => WordsInv'
  <2> SUFFICES ASSUME WordsInv, [Next]_vars PROVE WordsInv'
    OBVIOUS
  <2>1. ASSUME NEW n \in {2, 4}, NEW order \in BOOLEAN,
               NEW v \in 0..Weight[n] * ByteValues - 1, SendWord(v, n, order)
        PROVE  WordsInv'
    <3>1. register' = BytesSent(v, n, order) /\ wordSent' = v /\ wordRead' = v
          /\ wordOrder' = order
      BY <2>1 DEF SendWord
    <3> QED
      BY <3>1, Zenon DEF WordsInv, WordsKept
  <2>2. CASE ReceiveWord
    <3>1. /\ register # <<>> /\ wordRead' = WordReceived(register, wordOrder)
          /\ UNCHANGED <<register, wordSent, wordOrder>>
      BY <2>2 DEF ReceiveWord
    <3>2. PICK n \in {2, 4} : /\ wordSent \in 0..Weight[n] * ByteValues - 1
                              /\ wordOrder \in BOOLEAN
                              /\ register = BytesSent(wordSent, n, wordOrder)
      BY <3>1 DEF WordsInv
    <3>3. wordRead' = wordSent
      BY <3>1, <3>2, WordReturns
    <3> QED
      BY <3>1, <3>2, <3>3, Zenon DEF WordsInv, WordsKept
  <2>3. CASE CallMethod
    BY <2>3, Zenon DEF CallMethod, WordsInv, WordsKept
  <2>4. CASE UNCHANGED methodVars
    BY <2>4, Zenon DEF methodVars, WordsInv, WordsKept
  <2> QED
    BY <2>1, <2>2, <2>3, <2>4, DriverSteps DEF MethodsNext
<1>3. WordsInv => WordsKept
  BY DEF WordsInv
<1> QED
  BY <1>1, <1>2, <1>3, PTL DEF Spec

-----------------------------------------------------------------------------
(* The maximum of a set of numbers up to a bound.                          *)
LEMMA MaxInSet ==
  ASSUME NEW n \in Nat, NEW T \in SUBSET (0..n), T # {}
  PROVE  Max(T) \in T /\ \A y \in T : y <= Max(T)
<1> DEFINE D == {n - y : y \in T}
<1>1. D \in SUBSET Nat /\ D # {}
  <2>1. \A y \in T : n - y \in Nat
    OBVIOUS
  <2>2. PICK y \in T : TRUE
    OBVIOUS
  <2> QED
    BY <2>1, <2>2
<1> HIDE DEF D
<1>2. Min(D) \in D /\ \A y \in D : Min(D) <= y
  BY <1>1, MinInSet
<1>3. PICK x \in T : Min(D) = n - x
  BY <1>2 DEF D
<1>4. ASSUME NEW y \in T PROVE x >= y
  <2>1. n - y \in D
    BY DEF D
  <2>2. n - x <= n - y /\ x \in 0..n /\ y \in 0..n
    BY <1>2, <1>3, <2>1
  <2> QED
    BY <2>2
<1>5. Max(T) \in T /\ \A y \in T : Max(T) >= y
  BY <1>4 DEF Max
<1>6. Max(T) \in 0..n
  BY <1>5
<1> QED
  BY <1>5, <1>6

(* What remove() makes of a list: nothing if everything matches; the list  *)
(* from its first item to keep if no match comes after that one; otherwise *)
(* that item and what follows the last match.                              *)
LEMMA RemovedShape ==
  ASSUME NEW S, NEW s \in Seq(S), NEW matching \in SUBSET DOMAIN s
  PROVE  LET r == Removed(s, matching)
         IN  /\ DOMAIN s \ matching = {} => r = <<>>
             /\ DOMAIN s \ matching # {} =>
                    \E first \in DOMAIN s \ matching :
                        /\ \A j \in DOMAIN s \ matching : first <= j
                        /\ r \in Seq(S)
                        /\ \/ /\ \A i \in matching : i < first
                              /\ Len(r) = Len(s) - first + 1
                              /\ \A i \in 1..Len(r) : r[i] = s[first - 1 + i]
                           \/ \E last \in matching :
                                  /\ first < last /\ \A i \in matching : i <= last
                                  /\ Len(r) = Len(s) - last + 1
                                  /\ r[1] = s[first]
                                  /\ \A i \in 1..Len(s) - last : r[i + 1] = s[last + i]
<1> DEFINE n == Len(s)
           kept == DOMAIN s \ matching
           found == {i \in matching : \E j \in kept : j < i}
           r == Removed(s, matching)
<1>1. n \in Nat /\ DOMAIN s = 1..n /\ \A i \in 1..n : s[i] \in S
  BY LenProperties, ElementOfSeq
<1>2. r = IF kept = {} THEN <<>>
          ELSE IF found = {} THEN SubSeq(s, Min(kept), n)
          ELSE <<s[Min(kept)]>> \o SubSeq(s, Max(found) + 1, n)
  BY DEF Removed
<1> HIDE DEF n, r, found
<1>3. kept = {} => r = <<>>
  BY <1>2
<1>4. ASSUME kept # {}
      PROVE  \E first \in kept :
                 /\ \A j \in kept : first <= j
                 /\ r \in Seq(S)
                 /\ \/ /\ \A i \in matching : i < first
                       /\ Len(r) = n - first + 1
                       /\ \A i \in 1..Len(r) : r[i] = s[first - 1 + i]
                    \/ \E last \in matching :
                           /\ first < last /\ \A i \in matching : i <= last
                           /\ Len(r) = n - last + 1
                           /\ r[1] = s[first]
                           /\ \A i \in 1..n - last : r[i + 1] = s[last + i]
  <2>1. kept \in SUBSET Nat
    BY <1>1
  <2>2. PICK first \in kept : first = Min(kept) /\ \A j \in kept : first <= j
    BY <1>4, <2>1, MinInSet
  <2>3. first \in 1..n /\ first \in Int /\ n \in Int
    BY <1>1
  <2>4. matching \subseteq 1..n
    BY <1>1
  <2>5. CASE found = {}
    <3>1. ASSUME NEW i \in matching PROVE i < first
      <4>1. ~(first < i)
        BY <2>5 DEF found
      <4>2. i # first
        OBVIOUS
      <4> QED
        BY <2>3, <2>4, <4>1, <4>2
    <3>2. r = SubSeq(s, first, n)
      BY <1>2, <1>4, <2>2, <2>5
    <3>3. \A i \in first..n : s[i] \in S
      BY <1>1, <2>3
    <3>4. /\ r \in Seq(S)
          /\ Len(r) = IF first <= n THEN n - first + 1 ELSE 0
          /\ \A i \in 1..n - first + 1 : r[i] = s[first + i - 1]
      BY <2>3, <3>2, <3>3, SubSeqProperties
    <3>5. Len(r) = n - first + 1 /\ \A i \in 1..Len(r) : r[i] = s[first - 1 + i]
      <4>1. Len(r) = n - first + 1
        BY <2>3, <3>4
      <4>2. \A i \in 1..n - first + 1 : first + i - 1 = first - 1 + i
        BY <2>3
      <4> QED
        BY <3>4, <4>1, <4>2
    <3> QED
      BY <2>2, <3>1, <3>4, <3>5
  <2>6. CASE found # {}
    <3>1. found \in SUBSET (0..n)
      BY <1>1, <2>4 DEF found
    <3>2. PICK last \in found : last = Max(found) /\ \A y \in found : y <= last
      BY <1>1, <2>6, <3>1, MaxInSet
    <3>3. last \in matching /\ last \in 1..n /\ last \in Int
      BY <2>4, <3>2 DEF found
    <3>4. first < last
      <4>1. PICK j \in kept : j < last
        BY <3>2 DEF found
      <4>2. first <= j /\ j \in 1..n
        BY <1>1, <2>2
      <4> QED
        BY <2>3, <3>3, <4>1, <4>2
    <3>5. ASSUME NEW i \in matching PROVE i <= last
      <4>1. CASE i \in found
        BY <3>2, <4>1
      <4>2. CASE i \notin found
        <5>1. ~(first < i)
          BY <4>2 DEF found
        <5> QED
          BY <2>3, <2>4, <3>3, <3>4, <5>1
      <4> QED
        BY <4>1, <4>2
    <3> DEFINE rest == SubSeq(s, last + 1, n)
               one == <<s[first]>>
    <3>6. /\ rest \in Seq(S) /\ Len(rest) = n - last
          /\ \A i \in 1..n - last : rest[i] = s[last + i]
      <4>1. last + 1 \in Int /\ \A i \in last + 1..n : s[i] \in S
        BY <1>1, <3>3
      <4>2. /\ rest \in Seq(S)
            /\ Len(rest) = IF last + 1 <= n THEN n - (last + 1) + 1 ELSE 0
            /\ \A i \in 1..n - (last + 1) + 1 : rest[i] = s[last + 1 + i - 1]
        BY <2>3, <4>1, SubSeqProperties
      <4>3. /\ Len(rest) = n - last
            /\ n - (last + 1) + 1 = n - last
            /\ \A i \in 1..n - last : last + 1 + i - 1 = last + i
        BY <2>3, <3>3, <4>2
      <4> QED
        BY <4>2, <4>3
    <3>7. one \in Seq(S) /\ Len(one) = 1 /\ one[1] = s[first]
      BY <1>1, <2>3
    <3>8. r = one \o rest
      BY <1>2, <1>4, <2>2, <2>6, <3>2
    <3> HIDE DEF one, rest
    <3>9. /\ r \in Seq(S) /\ Len(r) = 1 + (n - last)
          /\ \A i \in 1..1 + (n - last) : r[i] = IF i <= 1 THEN one[i] ELSE rest[i - 1]
      <4>1. /\ r \in Seq(S) /\ Len(r) = Len(one) + Len(rest)
            /\ \A i \in 1..Len(one) + Len(rest) :
                   r[i] = IF i <= Len(one) THEN one[i] ELSE rest[i - Len(one)]
        BY <3>6, <3>7, <3>8, ConcatProperties, Zenon
      <4> QED
        BY <3>6, <3>7, <4>1, Zenon
    <3>10. r[1] = s[first]
      <4>1. 1 \in 1..1 + (n - last)
        BY <2>3, <3>3
      <4> QED
        BY <3>7, <3>9, <4>1
    <3>11. ASSUME NEW i \in 1..n - last PROVE r[i + 1] = s[last + i]
      <4>1. i + 1 \in 1..1 + (n - last) /\ ~(i + 1 <= 1) /\ i + 1 - 1 = i
        BY <2>3, <3>3
      <4> QED
        BY <3>6, <3>9, <4>1
    <3>12. Len(r) = n - last + 1
      BY <2>3, <3>3, <3>9
    <3> QED
      BY <2>2, <3>3, <3>4, <3>5, <3>9, <3>10, <3>11, <3>12
  <2> QED
    BY <2>5, <2>6
<1> QED
  BY <1>3, <1>4 DEF n, r

(* What is left are items that do not match, and no more than before.      *)
LEMMA RemovedKeeps ==
  ASSUME NEW S, NEW s \in Seq(S), NEW matching \in SUBSET DOMAIN s
  PROVE  LET r == Removed(s, matching)
         IN  /\ r \in Seq(S) /\ Len(r) <= Len(s)
             /\ \A i \in DOMAIN r : \E j \in DOMAIN s \ matching : r[i] = s[j]
<1> DEFINE n == Len(s)
           kept == DOMAIN s \ matching
           r == Removed(s, matching)
<1>1. n \in Nat /\ DOMAIN s = 1..n
  BY LenProperties
<1>2. CASE kept = {}
  <2>1. r = <<>>
    BY <1>2, RemovedShape
  <2>2. r \in Seq(S) /\ Len(r) = 0
    BY <2>1, EmptySeq
  <2>3. DOMAIN r = 1..Len(r)
    BY <2>2, LenProperties
  <2> HIDE DEF r, n
  <2> QED
    BY <1>1, <2>2, <2>3 DEF r, n
<1>3. CASE kept # {}
  <2>1. PICK first \in kept :
            /\ \A j \in kept : first <= j
            /\ r \in Seq(S)
            /\ \/ /\ \A i \in matching : i < first
                  /\ Len(r) = Len(s) - first + 1
                  /\ \A i \in 1..Len(r) : r[i] = s[first - 1 + i]
               \/ \E last \in matching :
                      /\ first < last /\ \A i \in matching : i <= last
                      /\ Len(r) = Len(s) - last + 1
                      /\ r[1] = s[first]
                      /\ \A i \in 1..Len(s) - last : r[i + 1] = s[last + i]
    BY <1>3, RemovedShape
  <2>2. DOMAIN r = 1..Len(r) /\ Len(r) \in Nat
    BY <2>1, LenProperties
  <2>3. first \in 1..n /\ n \in Int
    BY <1>1
  <2> HIDE DEF r, n
  <2>4. CASE /\ \A i \in matching : i < first
             /\ Len(r) = n - first + 1
             /\ \A i \in 1..Len(r) : r[i] = s[first - 1 + i]
    <3>1. Len(r) <= n
      BY <2>3, <2>4
    <3>2. ASSUME NEW i \in 1..Len(r) PROVE \E j \in kept : r[i] = s[j]
      <4>1. first - 1 + i \in 1..n /\ ~(first - 1 + i < first)
        BY <2>3, <2>4
      <4>2. first - 1 + i \in kept
        BY <1>1, <2>4, <4>1
      <4> QED
        BY <2>4, <4>2
    <3> QED
      BY <2>1, <2>2, <3>1, <3>2 DEF r, n
  <2>5. CASE \E last \in matching :
                 /\ first < last /\ \A i \in matching : i <= last
                 /\ Len(r) = n - last + 1
                 /\ r[1] = s[first]
                 /\ \A i \in 1..n - last : r[i + 1] = s[last + i]
    <3>1. PICK last \in matching :
                 /\ first < last /\ \A i \in matching : i <= last
                 /\ Len(r) = n - last + 1
                 /\ r[1] = s[first]
                 /\ \A i \in 1..n - last : r[i + 1] = s[last + i]
      BY <2>5
    <3>2. last \in 1..n
      BY <1>1
    <3>3. Len(r) <= n
      BY <2>3, <3>1, <3>2
    <3>4. ASSUME NEW i \in 1..Len(r) PROVE \E j \in kept : r[i] = s[j]
      <4>1. CASE i = 1
        BY <3>1, <4>1
      <4>2. CASE i # 1
        <5>1. /\ i - 1 \in 1..n - last /\ i - 1 + 1 = i
              /\ last + (i - 1) \in 1..n /\ ~(last + (i - 1) <= last)
          BY <2>3, <3>1, <3>2, <4>2
        <5>2. last + (i - 1) \in kept
          BY <1>1, <3>1, <5>1
        <5>3. r[i - 1 + 1] = s[last + (i - 1)]
          BY <3>1, <5>1
        <5> QED
          BY <5>1, <5>2, <5>3
      <4> QED
        BY <4>1, <4>2
    <3> QED
      BY <2>1, <2>2, <3>3, <3>4 DEF r, n
  <2> QED
    BY <2>1, <2>4, <2>5 DEF r, n
<1> QED
  BY <1>2, <1>3

(***************************************************************************)
(* remove() in any list.  All matches are before the first item to keep,   *)
(* or that one stands before the last match and those between are lost.    *)
(***************************************************************************)
LEMMA RemoveFromAny ==
  ASSUME NEW S, NEW s \in Seq(S), NEW x
  PROVE  LET result == Without(s, x)
             last == Max({0} \cup At(s, x))
             before == Cardinality(1..last \ At(s, x))
             lost == IF before <= 1 THEN 0 ELSE before - 1
             Earlier(i) == Cardinality({j \in At(s, x) : j < i}) + lost
         IN  /\ Len(result) = Len(s) - Cardinality(At(s, x)) - lost
             /\ \A i \in DOMAIN result : result[i] # x
             /\ \A i \in DOMAIN s \ At(s, x) :
                    before <= 1 \/ i > last => result[i - Earlier(i)] = s[i]
<1> DEFINE n == Len(s)
           at == At(s, x)
           kept == DOMAIN s \ at
           r == Without(s, x)
           last == Max({0} \cup at)
           between == 1..last \ at
           before == Cardinality(between)
           lost == IF before <= 1 THEN 0 ELSE before - 1
           Earlier(i) == Cardinality({j \in at : j < i}) + lost
<1>1. n \in Nat /\ DOMAIN s = 1..n
  BY LenProperties
<1>2. at \in SUBSET DOMAIN s /\ \A i \in kept : s[i] # x
  BY DEF At
<1>3. r = Removed(s, at)
  BY DEF Without
<1> HIDE DEF n, at, r
<1>4. \A i \in DOMAIN r : r[i] # x
  <2>1. \A i \in DOMAIN r : \E j \in kept : r[i] = s[j]
    BY <1>2, <1>3, RemovedKeeps
  <2> QED
    BY <1>2, <2>1
<1>5. PICK m \in Nat : m = last /\ m \in {0} \cup at /\ m <= n /\ at \subseteq 1..m
  <2>1. {0} \cup at \in SUBSET (0..n) /\ {0} \cup at # {}
    BY <1>1, <1>2
  <2>2. last \in {0} \cup at /\ \A y \in {0} \cup at : y <= last
    BY <1>1, <2>1, MaxInSet
  <2>3. last \in Nat /\ last <= n
    BY <1>1, <2>1, <2>2
  <2> HIDE DEF last
  <2>4. \A y \in at : y \in 1..last
    BY <1>1, <1>2, <2>2, <2>3
  <2> QED
    BY <2>2, <2>3, <2>4
<1>6. /\ IsFiniteSet(1..m) /\ Cardinality(1..m) = m
      /\ IsFiniteSet(at) /\ Cardinality(at) \in Nat
      /\ IsFiniteSet(between) /\ before \in Nat
      /\ before = m - Cardinality(at)
  <2>1. IsFiniteSet(1..m) /\ Cardinality(1..m) = IF 1 > m THEN 0 ELSE m - 1 + 1
    <3>1. 1 \in Int /\ m \in Int
      OBVIOUS
    <3> QED
      BY <3>1, FS_Interval
  <2>2. Cardinality(1..m) = m
    BY <1>5, <2>1
  <2>3. IsFiniteSet(at) /\ Cardinality(at) \in Nat
    BY <1>5, <2>1, FS_Subset, FS_CardinalityType
  <2>4. between = 1..m \ at /\ 1..m \cap at = at
    BY <1>5
  <2>5. IsFiniteSet(between) /\ before = Cardinality(1..m) - Cardinality(1..m \cap at)
    BY <2>1, <2>4, FS_Difference
  <2>6. before \in Nat
    BY <2>5, FS_CardinalityType
  <2> QED
    BY <2>1, <2>2, <2>3, <2>4, <2>5, <2>6
<1>7. PICK b \in Nat, c \in Nat : b = before /\ c = Cardinality(at) /\ b = m - c
  BY <1>6
<1>8. PICK l \in Nat : l = lost /\ l = IF b <= 1 THEN 0 ELSE b - 1
  <2>1. (IF b <= 1 THEN 0 ELSE b - 1) \in Nat
    OBVIOUS
  <2> QED
    BY <1>7, <2>1
<1>9. ASSUME NEW k \in 1..n, \A j \in 1..k - 1 : j \in at
      PROVE  Cardinality({j \in at : j < k}) = k - 1
  <2>1. {j \in at : j < k} = 1..k - 1
    <3>1. \A j \in at : j < k => j \in 1..k - 1
      BY <1>1, <1>2, <1>9
    <3>2. \A j \in 1..k - 1 : j < k
      BY <1>1
    <3> QED
      BY <1>9, <3>1, <3>2
  <2>2. k - 1 \in Nat /\ Cardinality(1..k - 1) = IF 1 > k - 1 THEN 0 ELSE k - 1 - 1 + 1
    BY <1>1, FS_Interval
  <2>3. Cardinality(1..k - 1) = k - 1
    BY <1>1, <2>2
  <2> QED
    BY <2>1, <2>3
<1>10. ASSUME NEW k \in 1..n, \A j \in at : j < k
       PROVE  Cardinality({j \in at : j < k}) = c
  <2>1. {j \in at : j < k} = at
    BY <1>10
  <2> QED
    BY <1>7, <2>1
<1> HIDE DEF last, between, before, lost
<1>11. ASSUME NEW i \in kept, NEW p \in Int, NEW e \in Int,
              Cardinality({j \in at : j < i}) = e, i - (e + l) = p, r[p] = s[i]
       PROVE  r[i - Earlier(i)] = s[i]
  <2>1. Earlier(i) = e + l
    BY <1>8, <1>11
  <2> QED
    BY <1>11, <2>1
<1>12. CASE kept = {}
  <2>1. r = <<>>
    BY <1>2, <1>3, <1>12, RemovedShape
  <2>2. Len(r) = 0
    BY <2>1, EmptySeq
  <2>3. m = n
    <3>1. CASE n = 0
      BY <1>5, <3>1
    <3>2. CASE n # 0
      <4>1. n \in at
        BY <1>1, <1>12, <3>2
      <4> QED
        BY <1>1, <1>5, <4>1
    <3> QED
      BY <3>1, <3>2
  <2>4. between = {}
    BY <1>1, <1>5, <1>12, <2>3 DEF between
  <2>5. b = 0 /\ l = 0
    <3>1. before = 0
      BY <2>4, FS_EmptySet, Zenon DEF before
    <3>2. b = 0
      BY <1>7, <3>1
    <3> QED
      BY <1>8, <3>2
  <2>6. Len(r) = n - Cardinality(at) - lost
    BY <1>1, <1>7, <1>8, <2>2, <2>3, <2>5
  <2> QED
    BY <1>4, <1>12, <2>6 DEF n, at, r, last, between, before, lost
<1>13. CASE kept # {}
  <2>1. PICK first \in kept :
            /\ \A j \in kept : first <= j
            /\ r \in Seq(S)
            /\ \/ /\ \A i \in at : i < first
                  /\ Len(r) = n - first + 1
                  /\ \A i \in 1..Len(r) : r[i] = s[first - 1 + i]
               \/ \E z \in at :
                      /\ first < z /\ \A i \in at : i <= z
                      /\ Len(r) = n - z + 1
                      /\ r[1] = s[first]
                      /\ \A i \in 1..n - z : r[i + 1] = s[z + i]
    BY <1>2, <1>13, RemovedShape DEF n, r, at, Without
  <2>2. first \in 1..n /\ first \in Int /\ n \in Int
    BY <1>1
  <2>3. ASSUME NEW j \in 1..first - 1 PROVE j \in at
    <3>1. j \in DOMAIN s /\ ~(first <= j)
      BY <1>1, <2>2
    <3> QED
      BY <2>1, <3>1
  <2>4. Cardinality({j \in at : j < first}) = first - 1
    BY <1>9, <2>2, <2>3
  <2>5. CASE /\ \A i \in at : i < first
             /\ Len(r) = n - first + 1
             /\ \A i \in 1..Len(r) : r[i] = s[first - 1 + i]
    <3>1. c = first - 1
      BY <1>10, <2>2, <2>4, <2>5
    <3>2. m = first - 1
      <4>1. CASE first = 1
        <5>1. at = {}
          BY <1>1, <1>2, <2>5, <4>1
        <5> QED
          BY <1>5, <4>1, <5>1
      <4>2. CASE first # 1
        <5>1. first - 1 \in 1..first - 1
          BY <2>2, <4>2
        <5>2. first - 1 \in at
          BY <2>3, <5>1
        <5>3. m >= first - 1 /\ m # 0 /\ m \in at
          BY <1>5, <2>2, <4>2, <5>2
        <5>4. m < first
          BY <2>5, <5>3
        <5> QED
          BY <2>2, <5>3, <5>4
      <4> QED
        BY <4>1, <4>2
    <3>3. b = 0 /\ l = 0
      BY <1>7, <1>8, <2>2, <3>1, <3>2
    <3>4. Len(r) = n - Cardinality(at) - lost
      BY <1>7, <1>8, <2>2, <2>5, <3>1, <3>3
    <3>5. ASSUME NEW i \in kept PROVE r[i - Earlier(i)] = s[i]
      <4>1. i \in 1..n /\ first <= i
        BY <1>1, <2>1
      <4>2. \A j \in at : j < i
        BY <1>1, <1>2, <2>2, <2>5, <4>1
      <4>3. Cardinality({j \in at : j < i}) = c
        BY <1>10, <4>1, <4>2
      <4>4. PICK p \in Int : p = i - (c + l)
        BY <4>1
      <4>5. p \in 1..Len(r) /\ first - 1 + p = i
        BY <2>2, <2>5, <3>1, <3>3, <4>1, <4>4
      <4>6. r[p] = s[i]
        BY <2>5, <4>5
      <4> QED
        BY <1>11, <4>3, <4>4, <4>6
    <3> QED
      BY <1>4, <3>4, <3>5 DEF n, at, r, last, between, before, lost
  <2>6. CASE \E z \in at : /\ first < z /\ \A i \in at : i <= z
                           /\ Len(r) = n - z + 1
                           /\ r[1] = s[first]
                           /\ \A i \in 1..n - z : r[i + 1] = s[z + i]
    <3>1. PICK z \in at : /\ first < z /\ \A i \in at : i <= z
                          /\ Len(r) = n - z + 1
                          /\ r[1] = s[first]
                          /\ \A i \in 1..n - z : r[i + 1] = s[z + i]
      BY <2>6
    <3>2. z = m
      <4>1. z \in 1..m
        BY <1>5
      <4>2. m \in at
        BY <1>5, <4>1
      <4>3. m <= z
        BY <3>1, <4>2
      <4> QED
        BY <1>5, <4>1, <4>3
    <3>3. first \in between
      BY <1>5, <2>2, <3>1, <3>2 DEF between
    <3>4. b >= 1
      <4>1. b # 0
        BY <1>6, <1>7, <3>3, FS_EmptySet DEF before
      <4> QED
        BY <4>1
    <3>5. l = b - 1
      BY <1>8, <3>4
    <3>6. Len(r) = n - Cardinality(at) - lost
      BY <1>5, <1>7, <1>8, <2>2, <3>1, <3>2, <3>5
    <3>7. ASSUME NEW i \in kept, i > m PROVE r[i - Earlier(i)] = s[i]
      <4>1. i \in 1..n
        BY <1>1
      <4>2. \A j \in at : j < i
        BY <1>5, <3>7, <4>1
      <4>3. Cardinality({j \in at : j < i}) = c
        BY <1>10, <4>1, <4>2
      <4>4. PICK p \in Int : p = i - m
        BY <1>5, <4>1
      <4>5. p \in 1..n - m /\ m + p = i
        BY <1>5, <2>2, <3>7, <4>1, <4>4
      <4>6. r[p + 1] = s[i]
        BY <3>1, <3>2, <4>5
      <4>7. i - (c + l) = p + 1
        <5>1. b = m - c /\ l = b - 1 /\ p = i - m /\ i \in Int
          BY <1>7, <3>5, <4>1, <4>4
        <5>2. c + l = c + (b - 1) /\ c \in Int /\ b \in Int /\ m \in Int
          BY <5>1
        <5>3. c + (b - 1) = m - 1
          BY <5>1, <5>2
        <5> QED
          BY <5>1, <5>2, <5>3
      <4> QED
        BY <1>11, <4>3, <4>6, <4>7
    <3>8. ASSUME NEW i \in kept, ~(i > m), b <= 1 PROVE r[i - Earlier(i)] = s[i]
      <4>1. i = first
        <5>1. i \in between
          BY <1>1, <1>5, <3>8 DEF between
        <5>2. between = {first}
          <6>1. b = 1
            BY <3>4, <3>8
          <6>2. PICK y : between = {y}
            BY <1>6, <1>7, <6>1, FS_Singleton DEF before
          <6> QED
            BY <3>3, <6>2
        <5> QED
          BY <5>1, <5>2
      <4>2. i - (first - 1 + l) = 1
        BY <2>2, <3>5, <3>8, <4>1, <3>4
      <4>3. r[1] = s[i]
        BY <3>1, <4>1
      <4>4. Cardinality({j \in at : j < i}) = first - 1 /\ first - 1 \in Int /\ 1 \in Int
        BY <2>2, <2>4, <4>1
      <4> QED
        BY <1>11, <4>2, <4>3, <4>4
    <3>9. \A i \in kept : before <= 1 \/ i > last => r[i - Earlier(i)] = s[i]
      BY <1>5, <1>7, <3>7, <3>8, Zenon
    <3> QED
      BY <1>4, <3>6, <3>9 DEF n, at, r, last, between, before, lost
  <2> QED
    BY <2>1, <2>5, <2>6
<1> QED
  BY <1>12, <1>13

(* The containers are used one at a time, and left alone by the others.    *)
LEMMA ContainerSteps ==
  ASSUME [Next]_vars
  PROVE  /\ UNCHANGED list \/ ListOperation
         /\ UNCHANGED hashVars \/ HashOperation
         /\ UNCHANGED ringVars \/ RingOperation
<1>1. CASE ListOperation /\ UNCHANGED <<hashVars, ringVars>>
  BY <1>1
<1>2. CASE HashOperation
  BY <1>2 DEF HashOperation, HashSet
<1>3. CASE RingOperation
  BY <1>3 DEF RingOperation, RingPush
<1>4. CASE UNCHANGED containerVars
  BY <1>4 DEF containerVars
<1>5. List => ListOperation /\ UNCHANGED <<hashVars, ringVars>>
  BY DEF List, ListOperation
<1>6. Hash => HashOperation
  BY DEF Hash
<1>7. Ring => RingOperation
  BY DEF Ring
<1>8. Uart \/ Lin \/ Spi \/ Cdc \/ Mouse \/ Cyclic \/ I2C \/ Mc \/ Encoder
          => UNCHANGED containerVars
  BY DEF Uart, Lin, Spi, Cdc, Mouse, Cyclic, I2C, Mc, Encoder, otherVars
<1>9. UNCHANGED vars => UNCHANGED containerVars
  BY DEF vars, otherVars
<1> QED
  BY <1>1, <1>2, <1>3, <1>4, <1>5, <1>6, <1>7, <1>8, <1>9 DEF Next

(* The list stays within its bound.                                        *)
ListInv == list \in Seq(Keys) /\ Len(list) <= MaxItems

LEMMA ListAlways == Spec => []ListInv
<1>1. Init => ListInv
  BY ContainersAssumption, EmptySeq DEF Init, ContainersInit, ListInv
<1>2. ListInv /\ [Next]_vars => ListInv'
  <2> SUFFICES ASSUME ListInv, [Next]_vars PROVE ListInv'
    OBVIOUS
  <2>1. list \in Seq(Keys) /\ Len(list) <= MaxItems
    BY DEF ListInv
  <2>2. Len(list) \in Nat /\ DOMAIN list = 1..Len(list) /\ MaxItems \in Nat
    BY <2>1, LenProperties, ContainersAssumption
  <2>3. ASSUME NEW x \in Keys, ListAdd(x) PROVE ListInv'
    <3>1. list' = Append(list, x) /\ Len(list) < MaxItems
      BY <2>3 DEF ListAdd
    <3>2. list' \in Seq(Keys) /\ Len(list') = Len(list) + 1
      BY <2>1, <3>1, AppendProperties
    <3> QED
      BY <2>2, <3>1, <3>2 DEF ListInv
  <2>4. ASSUME NEW x \in Keys, ListRemove(x) PROVE ListInv'
    <3>1. list' = Removed(list, At(list, x)) /\ At(list, x) \in SUBSET DOMAIN list
      BY <2>4 DEF ListRemove, Without, At
    <3>2. list' \in Seq(Keys) /\ Len(list') <= Len(list)
      BY <2>1, <3>1, RemovedKeeps
    <3>3. Len(list') \in Nat
      BY <3>2, LenProperties
    <3> QED
      BY <2>1, <2>2, <3>2, <3>3 DEF ListInv
  <2>5. ASSUME NEW i \in DOMAIN list, ListRemoveAt(i) PROVE ListInv'
    <3> DEFINE n == Len(list)
               a == SubSeq(list, 1, i - 1)
               b == SubSeq(list, i + 1, n)
    <3>1. list' = a \o b
      BY <2>5 DEF ListRemoveAt, RemovedAt
    <3>2. \A j \in 1..n : list[j] \in Keys
      BY <2>1, ElementOfSeq
    <3>3. n \in Nat /\ i \in 1..n
      BY <2>2
    <3> HIDE DEF n
    <3>4. a \in Seq(Keys) /\ Len(a) = i - 1
      <4>1. i - 1 \in Int /\ 1 \in Int /\ \A j \in 1..i - 1 : list[j] \in Keys
        BY <3>2, <3>3
      <4>2. a \in Seq(Keys) /\ Len(a) = IF 1 <= i - 1 THEN i - 1 - 1 + 1 ELSE 0
        BY <4>1, SubSeqProperties
      <4> QED
        BY <3>3, <4>2
    <3>5. b \in Seq(Keys) /\ Len(b) = n - i
      <4>1. i + 1 \in Int /\ n \in Int /\ \A j \in i + 1..n : list[j] \in Keys
        BY <3>2, <3>3
      <4>2. b \in Seq(Keys) /\ Len(b) = IF i + 1 <= n THEN n - (i + 1) + 1 ELSE 0
        BY <4>1, SubSeqProperties
      <4> QED
        BY <3>3, <4>2
    <3> HIDE DEF a, b
    <3>6. list' \in Seq(Keys) /\ Len(list') = (i - 1) + (n - i)
      <4>1. list' \in Seq(Keys) /\ Len(list') = Len(a) + Len(b)
        BY <3>1, <3>4, <3>5, ConcatProperties
      <4> QED
        BY <3>4, <3>5, <4>1
    <3>7. n <= MaxItems
      BY <2>1 DEF n
    <3> QED
      BY <2>2, <3>3, <3>6, <3>7 DEF ListInv
  <2>6. CASE UNCHANGED list
    BY <2>1, <2>6 DEF ListInv
  <2>7. CASE ListOperation
    BY <2>3, <2>4, <2>5, <2>7 DEF ListOperation
  <2> QED
    BY <2>6, <2>7, ContainerSteps
<1> QED
  BY <1>1, <1>2, PTL DEF Spec

(***************************************************************************)
(* remove() leaves no match, and each other item as many places earlier as *)
(* matches were before it; from a list with items to keep between matches  *)
(* it loses those after the first of them.                                 *)
(***************************************************************************)
THEOREM RemovesFromAnyList == Spec => []ListRemoves
<1>1. ListInv => ListRemoves
  <2> SUFFICES ASSUME ListInv PROVE ListRemoves
    OBVIOUS
  <2>1. list \in Seq(Keys)
    BY DEF ListInv
  <2> QED
    BY <2>1, RemoveFromAny, Zenon DEF ListRemoves
<1> QED
  BY <1>1, ListAlways, PTL

(***************************************************************************)
(* A pair in the table is the one last set for its key, and the pair that  *)
(* was set last is at the end.                                             *)
(***************************************************************************)
HashInv ==
    /\ pairs \in Seq(setPairs)
    /\ \A k \in lastSet : Len(pairs) # 0 /\ pairs[Len(pairs)].key = k

LEMMA HashAlways == Spec => []HashInv
<1>1. Init => HashInv
  BY EmptySeq DEF Init, ContainersInit, HashInv
<1>2. HashInv /\ [Next]_vars => HashInv'
  <2> SUFFICES ASSUME HashInv, [Next]_vars PROVE HashInv'
    OBVIOUS
  <2>1. ASSUME NEW k \in Keys, NEW v \in Values, HashSet(k, v) PROVE HashInv'
    <3> DEFINE matching == {i \in DOMAIN pairs : pairs[i].key = k}
               r == Removed(pairs, matching)
               others == {pair \in setPairs : pair.key # k}
    <3>1. /\ pairs' = Append(r, Pair(k, v))
          /\ setPairs' = others \cup {Pair(k, v)}
          /\ lastSet' = {k}
      BY <2>1 DEF HashSet, SetOnce, WithoutKey
    <3>2. pairs \in Seq(setPairs) /\ matching \in SUBSET DOMAIN pairs
      BY DEF HashInv
    <3> HIDE DEF matching
    <3>3. /\ r \in Seq(setPairs)
          /\ \A i \in DOMAIN r : \E j \in DOMAIN pairs \ matching : r[i] = pairs[j]
      BY <3>2, RemovedKeeps
    <3>4. DOMAIN r = 1..Len(r) /\ Len(r) \in Nat /\ r \in [1..Len(r) -> setPairs]
      BY <3>3, LenProperties
    <3>5. \A j \in DOMAIN pairs \ matching : pairs[j].key # k
      BY DEF matching
    <3> HIDE DEF r
    <3>6. \A i \in 1..Len(r) : r[i] \in others
      BY <3>3, <3>4, <3>5
    <3>7. r \in [1..Len(r) -> setPairs']
      BY <3>1, <3>4, <3>6
    <3>8. r \in Seq(setPairs')
      BY <3>4, <3>7, SeqDef
    <3>9. /\ pairs' \in Seq(setPairs') /\ Len(pairs') = Len(r) + 1
          /\ pairs'[Len(r) + 1] = Pair(k, v)
      BY <3>1, <3>8, AppendProperties
    <3>10. Pair(k, v).key = k
      BY DEF Pair
    <3>11. Len(pairs') # 0 /\ pairs'[Len(pairs')].key = k
      BY <3>4, <3>9, <3>10
    <3> QED
      BY <3>1, <3>9, <3>11 DEF HashInv
  <2>2. CASE UNCHANGED hashVars
    BY <2>2 DEF hashVars, HashInv
  <2> QED
    BY <2>1, <2>2, ContainerSteps DEF HashOperation
<1> QED
  BY <1>1, <1>2, PTL DEF Spec

(***************************************************************************)
(* get() finds the pair that was set last, and never a value that was      *)
(* replaced, whatever set() loses.                                         *)
(***************************************************************************)
THEOREM TableReadsLatest == Spec => []HashReadsLatest
<1>1. HashInv => HashReadsLatest
  <2> SUFFICES ASSUME HashInv PROVE HashReadsLatest
    OBVIOUS
  <2>1. pairs \in Seq(setPairs)
    BY DEF HashInv
  <2>2. DOMAIN pairs = 1..Len(pairs) /\ Len(pairs) \in Nat
    BY <2>1, LenProperties
  <2>3. \A i \in DOMAIN pairs : pairs[i] \in setPairs
    BY <2>1, <2>2, ElementOfSeq
  <2>4. ASSUME NEW k
        PROVE  HashGet(k) \subseteq {pair.value : pair \in {p \in setPairs : p.key = k}}
    <3> DEFINE found == {i \in DOMAIN pairs : pairs[i].key = k}
    <3>1. HashGet(k) = IF found = {} THEN {} ELSE {pairs[Min(found)].value}
      BY DEF HashGet
    <3>2. found \in SUBSET Nat
      BY <2>2
    <3>3. CASE found # {}
      <4>1. Min(found) \in found
        BY <3>2, <3>3, MinInSet
      <4>2. pairs[Min(found)] \in setPairs /\ pairs[Min(found)].key = k
        BY <2>3, <4>1
      <4> QED
        BY <3>1, <3>3, <4>2
    <3>4. CASE found = {}
      BY <3>1, <3>4
    <3> QED
      BY <3>3, <3>4
  <2>5. ASSUME NEW k \in lastSet PROVE HashGet(k) # {}
    <3>1. Len(pairs) \in DOMAIN pairs /\ pairs[Len(pairs)].key = k
      BY <2>2 DEF HashInv
    <3>2. {i \in DOMAIN pairs : pairs[i].key = k} # {}
      BY <3>1
    <3> QED
      BY <3>2 DEF HashGet
  <2> QED
    BY <2>4, <2>5 DEF HashReadsLatest
<1> QED
  BY <1>1, HashAlways, PTL

-----------------------------------------------------------------------------
(* The remainder of a position that is at most once around.                *)
LEMMA OnceAround ==
  ASSUME NEW n \in Nat \ {0}, NEW x \in Int, -n <= x, x < n
  PROVE  x % n = IF x >= 0 THEN x ELSE x + n
<1>1. x % n \in 0..n - 1 /\ x = n * (x \div n) + (x % n) /\ x \div n \in Int
  OBVIOUS
<1>2. PICK q \in Int, r \in Int : q = x \div n /\ r = x % n
  BY <1>1
<1>3. r \in 0..n - 1 /\ x = n * q + r
  BY <1>1, <1>2
<1>4. q = 0 \/ q = -1
  BY <1>3
<1>5. CASE q = 0
  BY <1>2, <1>3, <1>5
<1>6. CASE q = -1
  BY <1>2, <1>3, <1>6
<1> QED
  BY <1>4, <1>5, <1>6

(* The next position, and the positions counted back from it: the first is *)
(* the next one itself, the others are those counted back from the old one *)
(* and differ from it.                                                     *)
LEMMA CountedBack ==
  ASSUME NEW pos \in 0..RingSize - 1
  PROVE  /\ NextPos(pos) \in 0..RingSize - 1
         /\ (NextPos(pos) - 0) % RingSize = NextPos(pos)
         /\ (pos - (RingSize - 1)) % RingSize = NextPos(pos)
         /\ \A i \in 1..RingSize - 1 :
                /\ (NextPos(pos) - i) % RingSize = (pos - (i - 1)) % RingSize
                /\ (NextPos(pos) - i) % RingSize # NextPos(pos)
         /\ \A i \in 0..RingSize - 1 : (pos - i) % RingSize \in 0..RingSize - 1
<1>1. RingSize \in Nat \ {0} /\ pos \in Int
  BY ContainersAssumption
<1>2. PICK next \in Int : next = IF pos + 1 = RingSize THEN 0 ELSE pos + 1
  BY <1>1
<1>3. next \in 0..RingSize - 1
  BY <1>1, <1>2
<1>4. NextPos(pos) = next
  <2>1. CASE pos + 1 = RingSize
    <3>1. RingSize % RingSize = 0
      <4>1. RingSize = RingSize * (RingSize \div RingSize) + (RingSize % RingSize)
            /\ RingSize % RingSize \in 0..RingSize - 1 /\ RingSize \div RingSize \in Int
        BY <1>1
      <4>2. PICK q \in Int, r \in Int : q = RingSize \div RingSize /\ r = RingSize % RingSize
        BY <1>1, <4>1
      <4>3. RingSize = RingSize * q + r /\ r \in 0..RingSize - 1
        BY <4>1, <4>2
      <4>4. q = 1
        BY <1>1, <4>3
      <4>5. r = 0
        BY <1>1, <4>3, <4>4
      <4> QED
        BY <4>2, <4>5
    <3> QED
      BY <1>2, <2>1, <3>1 DEF NextPos
  <2>2. CASE pos + 1 # RingSize
    <3>1. pos + 1 \in Int /\ -RingSize <= pos + 1 /\ pos + 1 < RingSize /\ pos + 1 >= 0
      BY <1>1, <2>2
    <3>2. (pos + 1) % RingSize = pos + 1
      BY <1>1, <3>1, OnceAround
    <3> QED
      BY <1>2, <2>2, <3>2 DEF NextPos
  <2> QED
    BY <2>1, <2>2
<1>5. \A x \in Int : -RingSize <= x /\ x < RingSize =>
          x % RingSize = IF x >= 0 THEN x ELSE x + RingSize
  BY <1>1, OnceAround
<1>6. (next - 0) % RingSize = next
  <2>1. next - 0 = next /\ -RingSize <= next /\ next < RingSize /\ next >= 0
    BY <1>1, <1>3
  <2> QED
    BY <1>2, <1>5, <2>1
<1>7. ASSUME NEW i \in 0..RingSize - 1, NEW p \in 0..RingSize - 1
      PROVE  /\ p - i \in Int
             /\ (p - i) % RingSize = IF p >= i THEN p - i ELSE p - i + RingSize
  <2>1. p - i \in Int /\ -RingSize <= p - i /\ p - i < RingSize /\ (p - i >= 0 <=> p >= i)
    BY <1>1
  <2> QED
    BY <1>5, <2>1
<1>8. (pos - (RingSize - 1)) % RingSize = next
  <2>1. RingSize - 1 \in 0..RingSize - 1
    BY <1>1
  <2>2. (pos - (RingSize - 1)) % RingSize =
            IF pos >= RingSize - 1 THEN pos - (RingSize - 1) ELSE pos - (RingSize - 1) + RingSize
    BY <1>7, <2>1
  <2> QED
    BY <1>1, <1>2, <2>2
<1>9. ASSUME NEW i \in 1..RingSize - 1
      PROVE  (next - i) % RingSize = (pos - (i - 1)) % RingSize /\ (next - i) % RingSize # next
  <2>1. i \in 0..RingSize - 1 /\ i - 1 \in 0..RingSize - 1
    BY <1>1
  <2>2. /\ (next - i) % RingSize = IF next >= i THEN next - i ELSE next - i + RingSize
        /\ (pos - (i - 1)) % RingSize =
               IF pos >= i - 1 THEN pos - (i - 1) ELSE pos - (i - 1) + RingSize
    BY <1>3, <1>7, <2>1
  <2> QED
    BY <1>1, <1>2, <2>2
<1>10. ASSUME NEW i \in 0..RingSize - 1 PROVE (pos - i) % RingSize \in 0..RingSize - 1
  <2>1. (pos - i) % RingSize = IF pos >= i THEN pos - i ELSE pos - i + RingSize
    BY <1>7
  <2> QED
    BY <1>1, <2>1
<1> QED
  BY <1>3, <1>4, <1>6, <1>8, <1>9, <1>10

(***************************************************************************)
(* The buffer holds the last values, and the totals are those of all of    *)
(* them: the value to be overwritten is the one that leaves the sum.       *)
(***************************************************************************)
RingTyped ==
    /\ ring \in [0..RingSize - 1 -> Nat] /\ ringPos \in 0..RingSize - 1
    /\ pushed \in Seq(Nat) /\ totals \in Seq(Nat) /\ Len(totals) = Len(pushed) + 1
    /\ totals[1] = 0
    /\ \A i \in 1..Len(pushed) : totals[i + 1] = totals[i] + pushed[i]

RingInv == RingTyped /\ RingAndSumAgree

LEMMA PushKeeps ==
  ASSUME RingInv, NEW value \in Values, RingPush(value)
  PROVE  RingInv'
<1> DEFINE next == NextPos(ringPos)
<1>1. /\ sum' = sum - ring[next] + value
      /\ ringPos' = next
      /\ ring' = [ring EXCEPT ![next] = value]
      /\ pushed' = Append(pushed, value)
      /\ totals' = Append(totals, totals[Len(totals)] + value)
  BY DEF RingPush, SumWith
<1>2. value \in Nat /\ RingSize \in Nat \ {0}
  BY ContainersAssumption
<1>3. PICK n \in Nat : n = Len(pushed)
  BY LenProperties DEF RingInv, RingTyped
<1>4. /\ pushed \in Seq(Nat) /\ totals \in Seq(Nat) /\ Len(totals) = n + 1
      /\ totals[1] = 0
      /\ \A i \in 1..n : totals[i + 1] = totals[i] + pushed[i]
  BY <1>3 DEF RingInv, RingTyped
<1>5. /\ \A i \in 1..n : pushed[i] \in Nat
      /\ \A i \in 1..n + 1 : totals[i] \in Nat
  BY <1>3, <1>4, ElementOfSeq
<1>6. totals[n + 1] \in Nat /\ totals[n + 1] + value \in Nat
  BY <1>2, <1>5
<1>7. /\ pushed' \in Seq(Nat) /\ Len(pushed') = n + 1
      /\ \A i \in 1..n : pushed'[i] = pushed[i]
      /\ pushed'[n + 1] = value
  BY <1>1, <1>2, <1>3, <1>4, AppendProperties
<1>8. /\ totals' \in Seq(Nat) /\ Len(totals') = n + 2
      /\ \A i \in 1..n + 1 : totals'[i] = totals[i]
      /\ totals'[n + 2] = totals[n + 1] + value
  <2>1. totals' = Append(totals, totals[n + 1] + value)
    BY <1>1, <1>4
  <2>2. n + 1 + 1 = n + 2
    BY <1>3
  <2> QED
    BY <1>4, <1>6, <2>1, <2>2, AppendProperties
<1>9. ringPos \in 0..RingSize - 1 /\ ring \in [0..RingSize - 1 -> Nat]
  BY DEF RingInv, RingTyped
<1>10. /\ next \in 0..RingSize - 1
       /\ (next - 0) % RingSize = next
       /\ (ringPos - (RingSize - 1)) % RingSize = next
       /\ \A i \in 1..RingSize - 1 :
              /\ (next - i) % RingSize = (ringPos - (i - 1)) % RingSize
              /\ (next - i) % RingSize # next
       /\ \A i \in 0..RingSize - 1 : (ringPos - i) % RingSize \in 0..RingSize - 1
  BY <1>9, CountedBack
<1> HIDE DEF next
<1>11. RingTyped'
  <2>1. ring' \in [0..RingSize - 1 -> Nat] /\ ringPos' \in 0..RingSize - 1
    BY <1>1, <1>2, <1>9, <1>10
  <2>2. totals'[1] = 0
    BY <1>3, <1>4, <1>8
  <2>3. ASSUME NEW i \in 1..n + 1 PROVE totals'[i + 1] = totals'[i] + pushed'[i]
    <3>1. CASE i \in 1..n
      BY <1>4, <1>7, <1>8, <3>1
    <3>2. CASE i = n + 1
      <4>1. n + 1 \in 1..n + 1 /\ i + 1 = n + 2
        BY <1>3, <3>2
      <4> QED
        BY <1>7, <1>8, <3>2, <4>1
    <3> QED
      BY <1>3, <3>1, <3>2
  <2> QED
    BY <1>3, <1>7, <1>8, <2>1, <2>2, <2>3 DEF RingTyped
<1>12. \A i \in 0..RingSize - 1 : ring[(ringPos - i) % RingSize] = PushedBefore(i)
  BY DEF RingInv, RingAndSumAgree, RingGet
<1>13. ASSUME NEW i \in 0..RingSize - 1 PROVE (RingGet(i) = PushedBefore(i))'
  <2>1. RingGet(i)' = ring'[(next - i) % RingSize]
    BY <1>1 DEF RingGet
  <2>2. PushedBefore(i)' = IF i < n + 1 THEN pushed'[n + 1 - i] ELSE 0
    BY <1>7 DEF PushedBefore
  <2>3. CASE i = 0
    <3>1. ring'[next] = value
      BY <1>1, <1>9, <1>10
    <3>2. 0 < n + 1 /\ n + 1 - 0 = n + 1
      BY <1>3
    <3> QED
      BY <1>7, <1>10, <2>1, <2>2, <2>3, <3>1, <3>2
  <2>4. CASE i \in 1..RingSize - 1
    <3>1. i - 1 \in 0..RingSize - 1
      BY <1>2, <2>4
    <3>2. ring'[(next - i) % RingSize] = ring[(ringPos - (i - 1)) % RingSize]
      BY <1>1, <1>9, <1>10, <2>4, <3>1
    <3>3. ring[(ringPos - (i - 1)) % RingSize] = PushedBefore(i - 1)
      BY <1>12, <3>1
    <3>4. CASE i < n + 1
      <4>1. i - 1 < n /\ n - (i - 1) = n + 1 - i /\ n + 1 - i \in 1..n
        BY <1>3, <2>4, <3>4
      <4> QED
        BY <1>3, <1>7, <2>1, <2>2, <3>2, <3>3, <3>4, <4>1 DEF PushedBefore
    <3>5. CASE ~(i < n + 1)
      <4>1. ~(i - 1 < n)
        BY <1>3, <2>4, <3>5
      <4> QED
        BY <1>3, <2>1, <2>2, <3>2, <3>3, <3>5, <4>1 DEF PushedBefore
    <3> QED
      BY <3>4, <3>5
  <2> QED
    BY <1>2, <2>3, <2>4
<1>14. (sum = TotalOf(Len(pushed)) - TotalOf(Len(pushed) - RingSize))'
  <2>1. ring[next] = PushedBefore(RingSize - 1)
    <3>1. RingSize - 1 \in 0..RingSize - 1
      BY <1>2
    <3>2. ring[(ringPos - (RingSize - 1)) % RingSize] = PushedBefore(RingSize - 1)
      BY <1>12, <3>1
    <3> QED
      BY <1>10, <3>2
  <2>2. PICK gone \in Nat : gone = ring[next]
    BY <1>9, <1>10
  <2>3. PICK all \in Nat : all = totals[n + 1]
    BY <1>6
  <2>4. TotalOf(n) = all
    <3>1. CASE n = 0
      <4>1. all = 0 /\ ~(n > 0)
        BY <1>4, <2>3, <3>1
      <4> QED
        BY <4>1 DEF TotalOf
    <3>2. CASE n # 0
      BY <1>3, <2>3, <3>2 DEF TotalOf
    <3> QED
      BY <3>1, <3>2
  <2>5. TotalOf(n + 1)' = all + value
    <3>1. n + 1 > 0 /\ n + 1 + 1 = n + 2
      BY <1>3
    <3> QED
      BY <1>8, <2>3, <3>1 DEF TotalOf
  <2>6. PICK k \in Int : k = n - RingSize
    <3>1. n - RingSize \in Int
      BY <1>2, <1>3
    <3> QED
      BY <3>1
  <2>7. n + 1 - RingSize = k + 1 /\ k < n
    BY <1>2, <1>3, <2>6
  <2>8. TotalOf(k) \in Int /\ TotalOf(k + 1)' = TotalOf(k) + gone
    <3>1. CASE k >= 0
      <4>1. /\ RingSize - 1 < n /\ n - (RingSize - 1) = k + 1
            /\ k + 1 \in 1..n /\ k + 1 > 0 /\ k + 1 + 1 = k + 2 /\ k + 2 \in 1..n + 1
        BY <1>2, <1>3, <2>6, <2>7, <3>1
      <4>2. gone = pushed[k + 1]
        BY <1>3, <2>1, <2>2, <4>1 DEF PushedBefore
      <4>3. TotalOf(k + 1)' = totals[k + 2]
        BY <1>8, <4>1 DEF TotalOf
      <4>4. totals[k + 2] = totals[k + 1] + pushed[k + 1]
        BY <1>4, <4>1
      <4>5. TotalOf(k) = totals[k + 1]
        <5>1. CASE k = 0
          <6>1. ~(k > 0) /\ k + 1 = 1
            BY <5>1
          <6> QED
            BY <1>4, <6>1 DEF TotalOf
        <5>2. CASE k # 0
          BY <2>6, <3>1, <5>2 DEF TotalOf
        <5> QED
          BY <5>1, <5>2
      <4>6. totals[k + 1] \in Nat
        BY <1>3, <1>5, <4>1
      <4> QED
        BY <4>2, <4>3, <4>4, <4>5, <4>6
    <3>2. CASE ~(k >= 0)
      <4>1. ~(RingSize - 1 < n) /\ ~(k > 0) /\ ~(k + 1 > 0)
        BY <1>2, <1>3, <2>6, <3>2
      <4>2. gone = 0
        BY <1>3, <2>1, <2>2, <4>1 DEF PushedBefore
      <4>3. TotalOf(k) = 0 /\ TotalOf(k + 1)' = 0
        BY <4>1 DEF TotalOf
      <4> QED
        BY <4>2, <4>3
    <3> QED
      BY <3>1, <3>2
  <2>9. sum = all - TotalOf(k)
    BY <1>3, <2>4, <2>6 DEF RingInv, RingAndSumAgree
  <2>10. PICK t \in Int : t = TotalOf(k)
    BY <2>8
  <2>11. sum' = (all + value) - (t + gone)
    <3>1. sum' = sum - gone + value /\ sum = all - t
      BY <1>1, <2>2, <2>9, <2>10
    <3> QED
      BY <1>2, <3>1
  <2>12. TotalOf(Len(pushed))' = all + value /\ TotalOf(Len(pushed) - RingSize)' = t + gone
    <3>1. Len(pushed)' = n + 1
      BY <1>7
    <3>2. Len(pushed') - RingSize = k + 1
      BY <1>2, <1>3, <1>7, <2>7
    <3>3. TotalOf(Len(pushed))' = TotalOf(n + 1)'
      BY <1>7 DEF TotalOf
    <3>4. TotalOf(Len(pushed) - RingSize)' = TotalOf(k + 1)'
      BY <3>2 DEF TotalOf
    <3> QED
      BY <2>5, <2>8, <2>10, <3>3, <3>4
  <2> QED
    BY <2>11, <2>12
<1> QED
  BY <1>11, <1>13, <1>14 DEF RingInv, RingAndSumAgree

LEMMA RingAlways == Spec => []RingInv
<1>1. Init => RingInv
  <2> SUFFICES ASSUME ContainersInit PROVE RingInv
    BY DEF Init
  <2>1. /\ ring = [i \in 0..RingSize - 1 |-> 0] /\ ringPos = 0 /\ sum = 0
        /\ pushed = <<>> /\ totals = <<0>>
    BY DEF ContainersInit
  <2>2. RingSize \in Nat \ {0}
    BY ContainersAssumption
  <2>3. pushed \in Seq(Nat) /\ Len(pushed) = 0
    BY <2>1, EmptySeq
  <2>4. totals \in Seq(Nat) /\ Len(totals) = 1 /\ totals[1] = 0
    BY <2>1
  <2>5. RingTyped
    BY <2>1, <2>2, <2>3, <2>4 DEF RingTyped
  <2>6. ASSUME NEW i \in 0..RingSize - 1 PROVE RingGet(i) = PushedBefore(i)
    <3>1. (ringPos - i) % RingSize \in 0..RingSize - 1
      BY <2>1, <2>2, CountedBack
    <3>2. RingGet(i) = 0
      BY <2>1, <3>1 DEF RingGet
    <3>3. PushedBefore(i) = 0
      BY <2>2, <2>3 DEF PushedBefore
    <3> QED
      BY <3>2, <3>3
  <2>7. sum = TotalOf(Len(pushed)) - TotalOf(Len(pushed) - RingSize)
    <3>1. ~(0 > 0) /\ ~(0 - RingSize > 0)
      BY <2>2
    <3>2. TotalOf(0) = 0 /\ TotalOf(0 - RingSize) = 0
      BY <3>1 DEF TotalOf
    <3> QED
      BY <2>1, <2>3, <3>2
  <2> QED
    BY <2>5, <2>6, <2>7 DEF RingInv, RingAndSumAgree
<1>2. RingInv /\ [Next]_vars => RingInv'
  <2>1. ASSUME RingInv, UNCHANGED ringVars PROVE RingInv'
    BY <2>1 DEF ringVars, RingInv, RingTyped, RingAndSumAgree, RingGet, PushedBefore, TotalOf
  <2> QED
    BY <2>1, ContainerSteps, PushKeeps DEF RingOperation
<1> QED
  BY <1>1, <1>2, PTL DEF Spec

(***************************************************************************)
(* get() counts back from the value pushed last, and the sum of the moving *)
(* average is that of the values it averages, however often the position   *)
(* has gone round.                                                         *)
(***************************************************************************)
THEOREM AverageOfTheLast == Spec => []RingAndSumAgree
<1>1. RingInv => RingAndSumAgree
  BY DEF RingInv
<1> QED
  BY <1>1, RingAlways, PTL

-----------------------------------------------------------------------------
(***************************************************************************)
(* The types of all parts: what each keeps within its bounds, its own      *)
(* invariant says.                                                         *)
(***************************************************************************)
THEOREM DevicesTypeCorrect == Spec => []TypeOK
<1> DEFINE Inv == /\ SerialTypes /\ UsbTypes /\ CyclicInv /\ McInv
                  /\ EncInv /\ ListInv /\ RingInv
<1>1. Inv => TypeOK
  <2> SUFFICES ASSUME Inv PROVE TypeOK
    OBVIOUS
  <2>1. data \in [Index -> SUBSET Bits] /\ dataLock \in Setters \cup {Unlocked}
    BY DEF CyclicInv, CyclicTyped
  <2>2. mcOn \subseteq Channels /\ reg8 \subseteq LowChannels /\ reg9 \subseteq HighChannels
    BY DEF McInv, McTyped
  <2>3. encLast \in 0..3 /\ encDelta \in Int
    BY DEF EncInv, EncTyped
  <2>4. ringPos \in DOMAIN ring /\ Len(list) <= MaxItems
    BY DEF RingInv, RingTyped, ListInv
  <2>5. SerialTypes /\ UsbTypes
    OBVIOUS
  <2> QED
    BY <2>1, <2>2, <2>3, <2>4, <2>5 DEF SerialTypes, UsbTypes, UsbFlags, TypeOK
<1>2. Spec => []McInv
  BY McStep, PTL DEF Spec
<1> QED
  BY <1>1, <1>2, SerialTypesAlways, UsbTypesAlways, CyclicAlways, EncAlways, ListAlways,
     RingAlways, PTL
=============================================================================
