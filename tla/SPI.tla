---------------------------------- MODULE SPI ----------------------------------
(***************************************************************************)
(* SPIController and the two DMA channels of a transfer: a task sets the   *)
(* channels up and waits for one semaphore per channel, the interrupt      *)
(* handler gives them.  What the bus shifts in during a call that does not *)
(* read stays in the receive FIFO until the handler clears it away, and    *)
(* the handler also clears away what the DMA has not fetched yet.          *)
(***************************************************************************)
EXTENDS Integers, Sequences, FiniteSets

CONSTANTS SpiLengths,   \* lengths of transfers
          MaxSpiCalls   \* bound: calls

ASSUME SpiAssumption == SpiLengths \subseteq Nat \ {0} /\ MaxSpiCalls \in Nat

VARIABLES spiPc, spiOp, spiLen,        \* the task in a call
          active, ready,               \* the channels in use, their semaphores given
          dmaMode, dmaLeft, chis,      \* the DMA controller
          txFifo, rxFifo, spiIrq, rxStatus,   \* the SSI
          spiBuf,                      \* bytes the call has received
          spiCalls, foreign            \* history

spiVars == <<spiPc, spiOp, spiLen, active, ready, dmaMode, dmaLeft, chis, txFifo, rxFifo,
             spiIrq, rxStatus, spiBuf, spiCalls, foreign>>
dmaVars == <<dmaMode, dmaLeft, chis>>
ssiVars == <<txFifo, rxFifo, spiIrq, rxStatus>>

SpiChannels == {"tx", "rx"}

(***************************************************************************)
(* The channels a call uses, and the semaphores it takes, in their order:  *)
(* write() takes the one of the transmit channel twice.                    *)
(***************************************************************************)
ChannelsOf(op) == IF op = "writeNoRead" THEN {"tx"} ELSE SpiChannels

Waits(op) == CASE op = "writeNoRead" -> <<"tx">>
               [] op = "write" -> <<"tx", "tx">>
               [] OTHER -> <<"tx", "rx">>     \* read(), writeAndRead()

Reads(op) == op \in {"read", "writeAndRead"}

SpiInit ==
    /\ spiPc = "idle" /\ spiOp = "none" /\ spiLen = 0
    /\ active = {} /\ ready = {}
    /\ dmaMode = [c \in SpiChannels |-> "stop"] /\ dmaLeft = [c \in SpiChannels |-> 0]
    /\ chis = {}
    /\ txFifo = <<>> /\ rxFifo = <<>> /\ spiIrq = FALSE /\ rxStatus = FALSE
    /\ spiBuf = <<>>
    /\ spiCalls = 0 /\ foreign = FALSE

(***************************************************************************)
(* The hardware.  A channel that is enabled moves a byte at a time, stops  *)
(* after the last and raises the interrupt of the SSI; nothing clears its  *)
(* bit in CHIS.  A byte that is shifted out is shifted in at once.  The    *)
(* SSI raises its interrupt when bytes lie in the receive FIFO for long.   *)
(***************************************************************************)
Moved(c) ==
    /\ dmaLeft' = [dmaLeft EXCEPT ![c] = @ - 1]
    /\ IF dmaLeft[c] = 1
       THEN /\ dmaMode' = [dmaMode EXCEPT ![c] = "stop"]
            /\ chis' = chis \cup {c}
            /\ spiIrq' = TRUE
       ELSE UNCHANGED <<dmaMode, chis, spiIrq>>

DmaTransmit ==
    /\ dmaMode["tx"] = "on"
    /\ Moved("tx")
    /\ txFifo' = Append(txFifo, spiCalls)
    /\ UNCHANGED <<rxFifo, rxStatus, spiBuf>>

DmaReceive ==
    /\ dmaMode["rx"] = "on" /\ rxFifo # <<>>
    /\ Moved("rx")
    /\ rxFifo' = Tail(rxFifo)
    /\ spiBuf' = Append(spiBuf, Head(rxFifo))
    /\ UNCHANGED <<txFifo, rxStatus>>

Shift ==
    /\ txFifo # <<>>
    /\ rxFifo' = Append(rxFifo, Head(txFifo))
    /\ txFifo' = Tail(txFifo)
    /\ UNCHANGED <<dmaVars, spiIrq, rxStatus, spiBuf>>

ReceiveTimeout ==
    /\ rxFifo # <<>> /\ ~rxStatus
    /\ spiIrq' = TRUE /\ rxStatus' = TRUE
    /\ UNCHANGED <<dmaVars, txFifo, rxFifo, spiBuf>>

Hardware ==
    /\ DmaTransmit \/ DmaReceive \/ Shift
    /\ UNCHANGED <<spiPc, spiOp, spiLen, active, ready, spiCalls, foreign>>

SpiTimeout ==
    /\ ReceiveTimeout
    /\ UNCHANGED <<spiPc, spiOp, spiLen, active, ready, spiCalls, foreign>>

(***************************************************************************)
(* handleInterrupt(): a channel is complete when its bit is set and its    *)
(* mode is "stop".                                                         *)
(***************************************************************************)
(* Fault: the bit in CHIS is taken for the completion.                     *)
CompleteByBit == {c \in active : c \in chis}
(* Fault: one channel is handled per interrupt.                            *)
CompleteOne == IF "tx" \in active /\ "tx" \in chis /\ dmaMode["tx"] = "stop" THEN {"tx"}
               ELSE {c \in active : c \in chis /\ dmaMode[c] = "stop"}

CompleteChannels == {c \in active : c \in chis /\ dmaMode[c] = "stop"}

SpiInterrupt ==
    /\ spiIrq
    /\ spiIrq' = FALSE /\ rxStatus' = FALSE
    /\ rxFifo' = IF rxStatus THEN <<>> ELSE rxFifo
    /\ foreign' = (foreign \/ (rxStatus /\ "rx" \in active /\ rxFifo # <<>>))
    /\ active' = active \ CompleteChannels
    /\ ready' = ready \cup CompleteChannels
    /\ UNCHANGED <<spiPc, spiOp, spiLen, dmaVars, txFifo, spiBuf, spiCalls>>

(***************************************************************************)
(* A call: the transfers are set up, old signs of completion taken away,   *)
(* the channels made active and enabled, the semaphores taken one after    *)
(* the other; then the bus has to be idle, except after writeNoRead()      *)
(* without an interrupt pin.                                               *)
(***************************************************************************)
BeginCall ==
    /\ spiPc = "idle" /\ spiCalls < MaxSpiCalls
    /\ \E op \in {"read", "write", "writeAndRead", "writeNoRead"}, n \in SpiLengths :
           /\ spiOp' = op /\ spiLen' = n
           /\ dmaMode' = [c \in SpiChannels |-> IF c \in ChannelsOf(op) THEN "set" ELSE dmaMode[c]]
           /\ dmaLeft' = [c \in SpiChannels |-> IF c \in ChannelsOf(op) THEN n ELSE dmaLeft[c]]
    /\ spiPc' = "set"
    /\ spiBuf' = <<>>
    /\ spiCalls' = spiCalls + 1
    /\ foreign' = (rxFifo # <<>> \/ txFifo # <<>>)
    /\ UNCHANGED <<active, ready, chis, ssiVars>>

TakeOld ==
    /\ spiPc = "set"
    /\ ready' = ready \ ChannelsOf(spiOp)
    /\ spiPc' = "taken"
    /\ UNCHANGED <<active, dmaMode>>

Enable ==
    /\ spiPc = "taken"
    /\ active' = active \cup ChannelsOf(spiOp)
    /\ dmaMode' = [c \in SpiChannels |-> IF c \in ChannelsOf(spiOp) THEN "on" ELSE dmaMode[c]]
    /\ spiPc' = "waitFirst"
    /\ UNCHANGED ready

TakeFirst ==
    /\ spiPc = "waitFirst" /\ Waits(spiOp)[1] \in ready
    /\ ready' = ready \ {Waits(spiOp)[1]}
    /\ spiPc' = IF Len(Waits(spiOp)) = 1 THEN "finish" ELSE "waitSecond"
    /\ UNCHANGED <<active, dmaMode>>

TakeSecond ==
    /\ spiPc = "waitSecond" /\ Waits(spiOp)[2] \in ready
    /\ ready' = ready \ {Waits(spiOp)[2]}
    /\ spiPc' = "finish"
    /\ UNCHANGED <<active, dmaMode>>

EndCall ==
    /\ spiPc = "finish"
    /\ txFifo = <<>> \/ spiOp = "writeNoRead"
    /\ spiPc' = "idle"
    /\ UNCHANGED <<active, ready, dmaMode>>

SpiTask ==
    /\ TakeOld \/ Enable \/ TakeFirst \/ TakeSecond \/ EndCall
    /\ UNCHANGED <<spiOp, spiLen, dmaLeft, chis, ssiVars, spiBuf, spiCalls, foreign>>

SpiNext == BeginCall \/ SpiTask \/ Hardware \/ SpiTimeout \/ SpiInterrupt

SpiFairness == WF_spiVars(SpiTask) /\ WF_spiVars(Hardware) /\ WF_spiVars(SpiInterrupt)

-----------------------------------------------------------------------------
(***************************************************************************)
(* A call that reads returns after all its bytes, and with bytes of its    *)
(* own, although the bits of CHIS stay set from earlier transfers; unless  *)
(* an earlier call left bytes in the FIFOs, or the handler took some away  *)
(* ("foreign", SPI.cpp:99-108).                                            *)
(***************************************************************************)
SpiReadsItsBytes ==
    spiPc = "finish" /\ Reads(spiOp) /\ ~foreign =>
        spiBuf = [i \in 1..spiLen |-> spiCalls]

(***************************************************************************)
(* A call ends, whether its channels complete in one interrupt or in two,  *)
(* in either order, except write(), which waits twice for what is given    *)
(* once, and a call whose bytes the handler took away (SPI.cpp:326-327).   *)
(***************************************************************************)
SpiEnds ==
    spiPc # "idle" ~> spiPc = "idle" \/ foreign \/ (spiOp = "write" /\ spiPc = "waitSecond")
=============================================================================
