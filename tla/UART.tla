--------------------------------- MODULE UART ---------------------------------
(***************************************************************************)
(* Receiving with UARTController: the FIFO of the peripheral, the          *)
(* interrupt handler that empties it into a queue, and a task that reads   *)
(* byte by byte.  Tasks do not run while the handler does, but bytes go on *)
(* arriving.  Bytes that find the FIFO or the queue full are lost.         *)
(***************************************************************************)
EXTENDS Integers, Sequences

CONSTANTS UartFifoSize, UartQueueSize,   \* 16, and OPENSTELLA_UART_QUEUESIZE
          UartBytes,                     \* the values of bytes
          Terminators, LineEnds,         \* sequences to read until; LF and CR
          BufSizes,
          MaxArrivals                    \* bound: bytes that arrive

ASSUME UartAssumption ==
    /\ UartFifoSize \in Nat \ {0} /\ UartQueueSize \in Nat \ {0}
    /\ MaxArrivals \in Nat
    /\ BufSizes \subseteq Nat \ {0}
    /\ Terminators \subseteq Seq(UartBytes) \ {<<>>}

VARIABLES uartFifo, uartIrq, inIsr, uartQueue,
          reader,       \* the reading call: what it looks for and how much it may read
          buf,          \* what it has read
          terminated,   \* readUntil()'s local, before its first assignment undefined
          arrivals      \* history

uartVars == <<uartFifo, uartIrq, inIsr, uartQueue, reader, buf, terminated, arrivals>>
readerVars == <<reader, buf, terminated>>

Idle == [op |-> "none", terminator |-> <<>>, size |-> 0]

UartInit ==
    /\ uartFifo = <<>> /\ uartQueue = <<>>
    /\ uartIrq = FALSE /\ inIsr = FALSE
    /\ reader = Idle /\ buf = <<>> /\ terminated = FALSE
    /\ arrivals = 0

(***************************************************************************)
(* The peripheral raises its interrupt for a byte at the trigger level or  *)
(* after the receive timeout.                                              *)
(***************************************************************************)
Put(queue, byte, size) == IF Len(queue) < size THEN Append(queue, byte) ELSE queue

Arrive ==
    /\ arrivals < MaxArrivals
    /\ \E byte \in UartBytes : uartFifo' = Put(uartFifo, byte, UartFifoSize)
    /\ uartIrq' = TRUE
    /\ arrivals' = arrivals + 1
    /\ UNCHANGED <<inIsr, uartQueue, readerVars>>

(***************************************************************************)
(* handleInterrupt() clears the interrupt, then empties the FIFO.          *)
(***************************************************************************)
EnterIsr ==
    /\ uartIrq /\ ~inIsr
    /\ inIsr' = TRUE
    /\ uartIrq' = FALSE
    /\ UNCHANGED <<uartFifo, uartQueue>>

Drain ==
    /\ inIsr /\ uartFifo # <<>>
    /\ uartQueue' = Put(uartQueue, Head(uartFifo), UartQueueSize)
    /\ uartFifo' = Tail(uartFifo)
    /\ UNCHANGED <<uartIrq, inIsr>>

(* Fault: "if" for "while", so that one byte is read per interrupt.        *)
LeaveIsrEarly ==
    /\ inIsr
    /\ inIsr' = FALSE
    /\ UNCHANGED <<uartFifo, uartIrq, uartQueue>>

LeaveIsr ==
    /\ inIsr /\ uartFifo = <<>>
    /\ inIsr' = FALSE
    /\ UNCHANGED <<uartFifo, uartIrq, uartQueue>>

UartInterrupt ==
    /\ EnterIsr \/ Drain \/ LeaveIsr
    /\ UNCHANGED <<readerVars, arrivals>>

(***************************************************************************)
(* read(), readUntil() for one byte and for a sequence, and readLine(),    *)
(* which keeps a place for the closing zero.  readUntil() for a sequence   *)
(* does not initialise "terminated".                                       *)
(***************************************************************************)
Wanted(op, size) == IF op = "line" THEN size - 1 ELSE size

BeginRead ==
    /\ reader.op = "none" /\ ~inIsr
    /\ \E op \in {"read", "line", "char", "sequence"}, size \in BufSizes :
       \E t \in CASE op = "sequence" -> Terminators
                  [] op = "char" -> {u \in Terminators : Len(u) = 1}
                  [] OTHER -> {<<>>} :
           /\ reader' = [op |-> op, terminator |-> t, size |-> Wanted(op, size)]
           /\ terminated' \in IF op = "sequence" THEN BOOLEAN ELSE {FALSE}
    /\ buf' = <<>>
    /\ UNCHANGED <<uartFifo, uartIrq, inIsr, uartQueue, arrivals>>

EndsWith(s, t) == Len(s) >= Len(t) /\ SubSeq(s, Len(s) - Len(t) + 1, Len(s)) = t

(* Fault: one byte more than the terminator's has to be there.             *)
FoundLate(b) ==
    CASE reader.op = "line" -> b[Len(b)] \in LineEnds
      [] reader.op = "read" -> FALSE
      [] OTHER -> IF Len(b) > Len(reader.terminator)
                  THEN EndsWith(b, reader.terminator) ELSE terminated

Found(b) ==
    CASE reader.op = "line" -> b[Len(b)] \in LineEnds
      [] reader.op = "read" -> FALSE
      [] OTHER -> IF Len(b) >= Len(reader.terminator)
                  THEN EndsWith(b, reader.terminator) ELSE terminated

(* Fault: one byte more than there is room for is read.                    *)
FinishedPastEnd == \/ Len(buf) > reader.size
                   \/ terminated /\ buf # <<>>

Finished == \/ Len(buf) = reader.size
            \/ terminated /\ buf # <<>>

ReadByte ==
    /\ reader.op # "none" /\ ~inIsr
    /\ ~Finished /\ uartQueue # <<>>
    /\ uartQueue' = Tail(uartQueue)
    /\ buf' = Append(buf, Head(uartQueue))
    /\ terminated' = Found(buf')
    /\ UNCHANGED <<uartFifo, uartIrq, inIsr, reader, arrivals>>

EndRead ==
    /\ reader.op # "none" /\ ~inIsr /\ Finished
    /\ reader' = Idle /\ buf' = <<>> /\ terminated' = FALSE
    /\ UNCHANGED <<uartFifo, uartIrq, inIsr, uartQueue, arrivals>>

UartNext == Arrive \/ UartInterrupt \/ BeginRead \/ ReadByte \/ EndRead

UartSpec == UartInit /\ [][UartNext]_uartVars

-----------------------------------------------------------------------------
(***************************************************************************)
(* No byte is left in the FIFO without anybody being about to fetch it,    *)
(* although handleInterrupt() clears the interrupt before it empties the   *)
(* FIFO and bytes arrive meanwhile (UART.cpp:103-119).                     *)
(***************************************************************************)
UartNoneLeftBehind == uartFifo # <<>> => uartIrq \/ inIsr

(* Whether the byte at i is the last of a terminator.                      *)
TerminatedAt(i) ==
    CASE reader.op = "line" -> buf[i] \in LineEnds
      [] reader.op = "read" -> FALSE
      [] OTHER -> EndsWith(SubSeq(buf, 1, i), reader.terminator)

ReadDone == reader.op # "none" /\ Finished

CutShort == Len(buf) = 1 /\ Len(reader.terminator) > 1

(***************************************************************************)
(* A reading call that is done has read all that it may read, or as far as *)
(* the terminator: what the comment on readUntil() says (UART.cpp:507).    *)
(* This is false of a terminator of several bytes: the undefined           *)
(* "terminated" is tested before there are as many bytes, and may end the  *)
(* call after the first of them (UART.cpp:520-536).                        *)
(***************************************************************************)
UartFindsTerminator ==
    ReadDone => Len(buf) = reader.size \/ TerminatedAt(Len(buf))

(***************************************************************************)
(* What is true of every terminator: a reading call does not read beyond   *)
(* the first one it meets, and the call that ends with neither a full      *)
(* buffer nor a terminator is the one cut short after its first byte: once *)
(* there is a second byte, "terminated" has either been assigned or been   *)
(* seen to be false (UART.cpp:470-554).                                    *)
(***************************************************************************)
UartStopsAtTerminator ==
    ReadDone =>
        /\ \A i \in 1..Len(buf) - 1 : ~TerminatedAt(i)
        /\ Len(buf) = reader.size \/ TerminatedAt(Len(buf)) \/ CutShort
=============================================================================
