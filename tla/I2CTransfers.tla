---------------------------- MODULE I2CTransfers ----------------------------
(***************************************************************************)
(* What the methods of I2CController put on the bus: each is a sequence of *)
(* byte transfers, and the first that fails ends it.  A transfer says in   *)
(* which direction the byte goes, whether a (repeated) start condition     *)
(* comes before it and a stop condition after it, whether the status is    *)
(* read once more before the next one ("again"), and, when the byte is for *)
(* the bus switch, the channel it names.                                   *)
(***************************************************************************)
EXTENDS Integers, Sequences

CONSTANTS NoChannel,    \* no channel of the switch
          ByteValues,   \* values of a byte: 256 in the code
          IndexWrap     \* where read()'s uint8_t index goes round: 256

ASSUME ByteValuesAssumption == ByteValues \in Nat \ {0, 1}

ASSUME IndexAssumption == IndexWrap \in Nat \ {0, 1}

Transfer(receive, start, stop, again) ==
    [receive |-> receive, start |-> start, stop |-> stop,
     again |-> again, channel |-> NoChannel]

(* The transfers that name one of these channels.                          *)
TransfersTo(channels) ==
    [receive : BOOLEAN, start : BOOLEAN, stop : BOOLEAN, again : BOOLEAN,
     channel : channels]

(***************************************************************************)
(* The building blocks.  The last receive of several bytes is              *)
(* BURST_RECEIVE_FINISH, the first is commanded with a start.              *)
(***************************************************************************)
Read8(start, stop) == <<Transfer(TRUE, start, stop, TRUE)>>
Write8(start, stop) == <<Transfer(FALSE, start, stop, FALSE)>>

(* An index that goes round before it reaches the count never ends the     *)
(* loop of read().  Of such a call the transfers of the first lap are kept *)
(* and one of the second.                                                  *)
ReadLength(count) == IF count < IndexWrap THEN count ELSE IndexWrap + 1

(* Fault: the last byte is taken for the last but one.                     *)
ReadStopEarly(count, start, stop) ==
    [i \in 1..ReadLength(count) |->
        Transfer(TRUE, start /\ i = 1, stop /\ i = count - 1 /\ i <= IndexWrap, TRUE)]

Read(count, start, stop) ==
    [i \in 1..ReadLength(count) |->
        Transfer(TRUE, start /\ i = 1, stop /\ i = count /\ i <= IndexWrap, TRUE)]
Write(count, start, stop) ==
    [i \in 1..count |-> Transfer(FALSE, start /\ i = 1, stop /\ i = count, i = 1)]

(***************************************************************************)
(* Words of two and four bytes.                                            *)
(***************************************************************************)
Read16(start, stop) == Read8(start, FALSE) \o Read8(FALSE, stop)
Read32(start, stop) == Read16(start, FALSE) \o Read16(FALSE, stop)
Write16(start, stop) == Write8(start, FALSE) \o Write8(FALSE, stop)
Write32(start, stop) == Write16(start, FALSE) \o Write16(FALSE, stop)

(***************************************************************************)
(* A register address is written, then the register is read after a        *)
(* repeated start.                                                         *)
(***************************************************************************)
WriteRead(writeCount, readCount, start, stop) ==
    Write(writeCount, start, FALSE) \o Read(readCount, TRUE, stop)
Write8Read(readCount, start, stop) == Write8(start, FALSE) \o Read(readCount, TRUE, stop)
Write8Read8(start, stop) == Write8(start, FALSE) \o Read8(TRUE, stop)
Write8Read16(start, stop) == Write8(start, FALSE) \o Read16(TRUE, stop)

(* Fault: every word read is preceded by a start condition.                *)
Write8Read32Restarting(start, stop) ==
    Write8Read16(start, FALSE) \o Read16(TRUE, stop)

Write8Read32(start, stop) == Write8(start, FALSE) \o Read32(TRUE, stop)
Write16Read(readCount, start, stop) == Write16(start, FALSE) \o Read(readCount, TRUE, stop)
Write16Read8(start, stop) == Write16(start, FALSE) \o Read8(TRUE, stop)
Write16Read16(start, stop) == Write16(start, FALSE) \o Read16(TRUE, stop)
Write16Read32(start, stop) == Write16(start, FALSE) \o Read32(TRUE, stop)

BurstMethods(start, stop) ==
    {Read8(start, stop), Write8(start, stop), Read16(start, stop), Read32(start, stop),
     Write16(start, stop), Write32(start, stop)}

RegisterMethods(start, stop) ==
    {Write8Read8(start, stop), Write8Read16(start, stop), Write8Read32(start, stop),
     Write16Read8(start, stop), Write16Read16(start, stop), Write16Read32(start, stop)}

WriteMethods(counts, start, stop) == {Write(n, start, stop) : n \in counts}

(* The methods that end with a read of n bytes.  Both counts of writeRead()*)
(* are 8 bits wide.                                                        *)
ReadMethods(n, counts, start, stop) ==
    {Read(n, start, stop), Write8Read(n, start, stop), Write16Read(n, start, stop)}
    \cup {WriteRead(m, n, start, stop) : m \in {k \in counts : k < IndexWrap /\ n < IndexWrap}}

(***************************************************************************)
(* The bytes of a word in the order in which they are sent, and the word   *)
(* made of the bytes received.  A byte keeps what fits into it.            *)
(***************************************************************************)
Weight == <<1, ByteValues, ByteValues * ByteValues, ByteValues * ByteValues * ByteValues>>

Byte(v, i) == (v \div Weight[i]) % ByteValues

Place(i, n, bigEndian) == IF bigEndian THEN n + 1 - i ELSE i

BytesSent(v, n, bigEndian) == [i \in 1..n |-> Byte(v, Place(i, n, bigEndian))]

WordOf(b, bigEndian) ==
    LET Part(i) == b[Place(i, Len(b), bigEndian)] * Weight[i]
    IN  IF Len(b) = 2 THEN Part(1) + Part(2) ELSE Part(1) + Part(2) + Part(3) + Part(4)

(* Fault: the first byte received counts least in either order.            *)
WordReceivedLittle(b, bigEndian) == WordOf(b, FALSE)
WordReceived(b, bigEndian) == WordOf(b, bigEndian)
=============================================================================
