------------------------------- MODULE Devices -------------------------------
(***************************************************************************)
(* The parts beside the CAN controller and the I2C bus.  They share        *)
(* nothing, so that a behaviour is one of a single part, chosen in the     *)
(* initial state.                                                          *)
(***************************************************************************)
EXTENDS UART, LIN, SPI, USBDevices, CANCyclicMessage, I2CMethods, MC34844,
        RotaryEncoder, Containers

VARIABLE device

serialVars == <<uartVars, linVars, spiVars, usbVars>>
otherVars == <<cyclicVars, methodVars, mcVars, encVars, containerVars>>
vars == <<device, serialVars, otherVars>>

Parts ==
    {"uart", "lin", "spi", "cdc", "mouse", "cyclic message", "i2c methods",
     "mc34844", "encoder", "list", "hash table", "ring buffer"}

Init ==
    /\ device \in Parts
    /\ UartInit /\ LinInit /\ SpiInit /\ UsbInit
    /\ CyclicInit /\ MethodsInit /\ McInit /\ EncInit /\ ContainersInit
    /\ device # "mc34844" => mcOn = {}
    /\ device # "encoder" => shaft = 0 /\ encType = CHOOSE t \in StepTypes : TRUE

Uart ==
    /\ device = "uart"
    /\ UartNext
    /\ UNCHANGED <<device, otherVars, linVars, spiVars, usbVars>>

Lin ==
    /\ device = "lin"
    /\ LinNext
    /\ UNCHANGED <<device, otherVars, uartVars, spiVars, usbVars>>

Spi ==
    /\ device = "spi"
    /\ SpiNext
    /\ UNCHANGED <<device, otherVars, uartVars, linVars, usbVars>>

Cdc ==
    /\ device = "cdc"
    /\ CdcNext
    /\ UNCHANGED <<device, otherVars, uartVars, linVars, spiVars>>

Mouse ==
    /\ device = "mouse"
    /\ HidNext
    /\ UNCHANGED <<device, otherVars, uartVars, linVars, spiVars>>

Cyclic ==
    /\ device = "cyclic message"
    /\ CyclicNext
    /\ UNCHANGED <<device, serialVars, methodVars, mcVars, encVars, containerVars>>

I2C ==
    /\ device = "i2c methods"
    /\ MethodsNext
    /\ UNCHANGED <<device, serialVars, cyclicVars, mcVars, encVars, containerVars>>

Mc ==
    /\ device = "mc34844"
    /\ McNext
    /\ UNCHANGED <<device, serialVars, cyclicVars, methodVars, encVars, containerVars>>

Encoder ==
    /\ device = "encoder"
    /\ EncNext
    /\ UNCHANGED <<device, serialVars, cyclicVars, methodVars, mcVars, containerVars>>

List ==
    /\ device = "list"
    /\ ListOperation
    /\ UNCHANGED <<device, serialVars, cyclicVars, methodVars, mcVars, encVars>>

Hash ==
    /\ device = "hash table"
    /\ HashOperation
    /\ UNCHANGED <<device, serialVars, cyclicVars, methodVars, mcVars, encVars>>

Ring ==
    /\ device = "ring buffer"
    /\ RingOperation
    /\ UNCHANGED <<device, serialVars, cyclicVars, methodVars, mcVars, encVars>>

Next ==
    \/ Uart \/ Lin \/ Spi \/ Cdc \/ Mouse
    \/ Cyclic \/ I2C \/ Mc \/ Encoder \/ List \/ Hash \/ Ring

(***************************************************************************)
(* Interrupts are served and hardware goes on; the waiting loops of LIN    *)
(* and the SPI task run again and again.                                   *)
(***************************************************************************)
Fairness == LinFairness /\ SpiFairness

Spec == Init /\ [][Next]_vars /\ Fairness

-----------------------------------------------------------------------------
(***************************************************************************)
(* The types; buffers and queues never grow past their size (UART.cpp:113, *)
(* the caller's buffer in UART.cpp:470-554).                               *)
(***************************************************************************)
TypeOK ==
    /\ Len(uartFifo) <= UartFifoSize /\ Len(uartQueue) <= UartQueueSize
    /\ Len(buf) <= reader.size
    /\ Len(masterFifo) <= LinFifoSize /\ Len(slaveFifo) <= LinFifoSize
    /\ Len(masterQueue) <= LinQueueSize
    /\ wanted \in Ids \cup {None} /\ Len(frame) <= 1
    /\ active \subseteq SpiChannels /\ ready \subseteq SpiChannels
    /\ \A c \in SpiChannels : dmaLeft[c] \in Nat
    /\ Len(spiBuf) <= spiLen
    /\ cdcData \in Nat /\ cdcAvail \in Nat
    /\ {cdcOn, cdcRx, cdcTx, cdcSending, hidLink, hidOn, hidSema, hidSending} \subseteq BOOLEAN
    /\ hidState \in {"unconfigured", "idle", "sending"}
    /\ data \in [Index -> SUBSET Bits] /\ dataLock \in Setters \cup {Unlocked}
    /\ mcOn \subseteq Channels /\ reg8 \subseteq LowChannels /\ reg9 \subseteq HighChannels
    /\ encLast \in 0..3 /\ encDelta \in Int
    /\ ringPos \in DOMAIN ring /\ Len(list) <= MaxItems
=============================================================================
