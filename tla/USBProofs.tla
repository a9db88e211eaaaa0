------------------------------ MODULE USBProofs ------------------------------
(***************************************************************************)
(* Proofs about the USB devices, for packets and reads of any sizes and    *)
(* any number of connections.                                              *)
(***************************************************************************)
EXTENDS Devices, TLAPS

(* The other parts leave the USB devices alone, and each of the two kinds  *)
(* leaves the other alone.                                                 *)
LEMMA UsbSteps ==
  ASSUME [Next]_vars
  PROVE  /\ CdcEvent \/ ReadBuffer \/ WriteBuffer \/ UNCHANGED cdcVars
         /\ HidEvent \/ SendMouseEvent \/ UNCHANGED hidVars
BY DEF Next, Uart, Lin, Spi, Cdc, Mouse, Cyclic, I2C, Mc, Encoder, List, Hash, Ring,
   vars, serialVars, otherVars, usbVars, CdcNext, HidNext

-----------------------------------------------------------------------------
(***************************************************************************)
(* What a call of readBuffer() leaves unread has given the semaphore, or   *)
(* is counted by the call, which will give it back.                        *)
(***************************************************************************)
ReaderInv ==
    /\ cdcData \in Nat /\ cdcAvail \in Nat /\ cdcSize \in Nat
    /\ ~cdcOn => cdcData = 0
    /\ cdcReader = "idle" => cdcData = 0 \/ cdcRx
    /\ cdcReader = "read" => cdcData = 0 \/ cdcRx \/ cdcAvail = cdcData
    /\ cdcReader = "readDone" => cdcData = 0 \/ cdcRx \/ cdcAvail > cdcSize

LEMMA ReaderStep ==
  ASSUME ReaderInv, [Next]_vars
  PROVE  ReaderInv'
<1>1. CASE CdcEvent
  <2>1. CASE CdcConnected
    BY <1>1, <2>1 DEF CdcEvent, CdcConnected, ReaderInv
  <2>2. CASE CdcDisconnected
    BY <1>1, <2>2 DEF CdcEvent, CdcDisconnected, ReaderInv
  <2>3. CASE CdcRxAvailable
    BY <1>1, <2>3, UsbAssumption DEF CdcEvent, CdcRxAvailable, ReaderInv
  <2>4. CASE CdcTxComplete
    BY <1>1, <2>4 DEF CdcEvent, CdcTxComplete, ReaderInv
  <2> QED
    BY <1>1, <2>1, <2>2, <2>3, <2>4 DEF CdcEvent
<1>2. CASE ReadBuffer
  <2>1. CASE TakeRx
    BY <1>2, <2>1, UsbAssumption DEF ReadBuffer, TakeRx, ReaderInv
  <2>2. CASE LookAtRx
    BY <1>2, <2>2 DEF ReadBuffer, LookAtRx, ReaderInv
  <2>3. CASE PacketRead
    <3>0. cdcData \in Nat /\ cdcSize \in Nat
      BY DEF ReaderInv
    <3>1. cdcData' = IF cdcData > cdcSize THEN cdcData - cdcSize ELSE 0
      BY <2>3, Zenon DEF PacketRead
    <3>2. cdcData' \in Nat /\ (cdcData' = 0 \/ cdcData > cdcSize) /\ (cdcData = 0 => cdcData' = 0)
      BY <3>0, <3>1
    <3>3. /\ cdcReader = "read" /\ cdcReader' = "readDone"
          /\ UNCHANGED <<cdcOn, cdcRx, cdcAvail, cdcSize>>
      BY <1>2, <2>3 DEF ReadBuffer, PacketRead
    <3> QED
      BY <3>2, <3>3 DEF ReaderInv
  <2>4. CASE LeaveRx
    <3>1. cdcRx \/ cdcAvail > cdcSize => cdcRx'
      BY <2>4, Zenon DEF LeaveRx
    <3> QED
      BY <1>2, <2>4, <3>1 DEF ReadBuffer, LeaveRx, ReaderInv
  <2> QED
    BY <1>2, <2>1, <2>2, <2>3, <2>4 DEF ReadBuffer
<1>3. CASE WriteBuffer
  BY <1>3 DEF WriteBuffer, ReaderInv
<1>4. CASE UNCHANGED cdcVars
  BY <1>4 DEF cdcVars, ReaderInv
<1> QED
  BY <1>1, <1>2, <1>3, <1>4, UsbSteps

(***************************************************************************)
(* While there is something to read and no call at it, the next call of    *)
(* readBuffer() finds the semaphore given.                                 *)
(***************************************************************************)
THEOREM ReaderWakes == Spec => []UsbReaderWakes
<1>1. Init => ReaderInv
  BY DEF Init, UsbInit, ReaderInv
<1>2. ReaderInv /\ [Next]_vars => ReaderInv'
  BY ReaderStep
<1>3. ReaderInv => UsbReaderWakes
  BY DEF ReaderInv, UsbReaderWakes
<1> QED
  BY <1>1, <1>2, <1>3, PTL DEF Spec

(***************************************************************************)
(* While the endpoint is free and no call about to use it, the next call   *)
(* of writeBuffer() finds the semaphore given.  This is inductive.         *)
(***************************************************************************)
THEOREM WriterWakes == Spec => []UsbWriterWakes
<1>1. Init => UsbWriterWakes
  BY DEF Init, UsbInit, UsbWriterWakes
<1>2. UsbWriterWakes /\ [Next]_vars => UsbWriterWakes'
  <2> SUFFICES ASSUME UsbWriterWakes, [Next]_vars PROVE UsbWriterWakes'
    OBVIOUS
  <2>1. CASE CdcEvent
    BY <2>1 DEF CdcEvent, CdcConnected, CdcDisconnected, CdcRxAvailable, CdcTxComplete,
       UsbWriterWakes
  <2>2. CASE ReadBuffer
    BY <2>2 DEF ReadBuffer, UsbWriterWakes
  <2>3. CASE WriteBuffer
    BY <2>3 DEF WriteBuffer, TakeTx, PacketWrite, WriteRefused, UsbWriterWakes
  <2>4. CASE UNCHANGED cdcVars
    BY <2>4 DEF cdcVars, UsbWriterWakes
  <2> QED
    BY <2>1, <2>2, <2>3, <2>4, UsbSteps
<1> QED
  BY <1>1, <1>2, PTL DEF Spec

-----------------------------------------------------------------------------
(***************************************************************************)
(* Where the report of the call is.  Until it is given the endpoint is     *)
(* free; while it is on its way the state says so, and when it was sent    *)
(* the state is idle and the semaphore given after it.  A disconnection    *)
(* makes it "disturbed", of which nothing is claimed.                      *)
(***************************************************************************)
ReportInv ==
    /\ hidOn => hidLink
    /\ hidPc \in {"set", "give"} => hidReport \in {"none", "disturbed"}
    /\ hidPc \in {"set", "give"} /\ hidReport = "none" => hidLink /\ ~hidSending
    /\ hidPc = "give" /\ hidReport = "none" => hidState = "sending"
    /\ hidPc \in {"wait", "look"} => hidReport \in {"given", "sent", "disturbed"}
    /\ hidPc \in {"wait", "look"} /\ hidReport = "given" =>
           hidLink /\ hidSending /\ hidState = "sending"
    /\ hidPc \in {"wait", "look"} /\ hidReport = "sent" =>
           hidLink /\ ~hidSending /\ hidState = "idle"
    /\ hidPc = "wait" /\ hidReport = "sent" => hidSema
    /\ hidPc = "true" => hidReport \in {"sent", "disturbed"}

LEMMA ReportStep ==
  ASSUME ReportInv, [Next]_vars
  PROVE  ReportInv'
<1>1. CASE HidEvent
  <2>1. CASE HidConnected
    BY <1>1, <2>1 DEF HidEvent, HidConnected, ReportInv
  <2>2. CASE HidDisconnected
    BY <1>1, <2>2 DEF HidEvent, HidDisconnected, ReportInv
  <2>3. CASE HidTxComplete
    BY <1>1, <2>3 DEF HidEvent, HidTxComplete, ReportInv
  <2> QED
    BY <1>1, <2>1, <2>2, <2>3 DEF HidEvent
<1>2. CASE SendMouseEvent
  <2>1. CASE BeginReport
    BY <1>2, <2>1 DEF SendMouseEvent, BeginReport, ReportInv
  <2>2. CASE SetSending
    BY <1>2, <2>2 DEF SendMouseEvent, SetSending, ReportInv
  <2>3. CASE GiveReport
    BY <1>2, <2>3 DEF SendMouseEvent, GiveReport, ReportInv
  <2>4. CASE TakeStateChange \/ LookAtState
    BY <1>2, <2>4 DEF SendMouseEvent, TakeStateChange, LookAtState, ReportInv
  <2>5. CASE WaitTimeout \/ ReturnTrue
    BY <1>2, <2>5 DEF SendMouseEvent, WaitTimeout, ReturnTrue, ReportInv
  <2> QED
    BY <1>2, <2>1, <2>2, <2>3, <2>4, <2>5 DEF SendMouseEvent
<1>3. CASE UNCHANGED hidVars
  BY <1>3 DEF hidVars, ReportInv
<1> QED
  BY <1>1, <1>2, <1>3, UsbSteps

LEMMA ReportAlways == Spec => []ReportInv
<1>1. Init => ReportInv
  BY DEF Init, UsbInit, ReportInv
<1>2. ReportInv /\ [Next]_vars => ReportInv'
  BY ReportStep
<1> QED
  BY <1>1, <1>2, PTL DEF Spec

(***************************************************************************)
(* A sendMouseEvent() whose report was sent does not wait in vain.         *)
(***************************************************************************)
THEOREM SenderWakes == Spec => []UsbSenderWakes
<1>1. ReportInv => UsbSenderWakes
  BY DEF ReportInv, UsbSenderWakes
<1> QED
  BY <1>1, ReportAlways, PTL

(***************************************************************************)
(* sendMouseEvent() returns true when the report was sent.                 *)
(***************************************************************************)
THEOREM TrueWhenSent == Spec => []UsbTrueWhenSent
<1>1. ReportInv => UsbTrueWhenSent
  BY DEF ReportInv, UsbTrueWhenSent
<1> QED
  BY <1>1, ReportAlways, PTL

-----------------------------------------------------------------------------
(* The USB devices' part of the type invariant.                            *)
UsbFlags == {cdcOn, cdcRx, cdcTx, cdcSending, hidLink, hidOn, hidSema, hidSending}
UsbTypes ==
    /\ cdcData \in Nat /\ cdcAvail \in Nat
    /\ UsbFlags \subseteq BOOLEAN
    /\ hidState \in {"unconfigured", "idle", "sending"}

CdcFlagsTyped ==
    cdcOn \in BOOLEAN /\ cdcRx \in BOOLEAN /\ cdcTx \in BOOLEAN /\ cdcSending \in BOOLEAN

HidTyped ==
    /\ hidLink \in BOOLEAN /\ hidOn \in BOOLEAN /\ hidSema \in BOOLEAN
    /\ hidSending \in BOOLEAN
    /\ hidState \in {"unconfigured", "idle", "sending"}

LEMMA UsbTypesStep ==
  ASSUME CdcFlagsTyped, HidTyped, [Next]_vars
  PROVE  CdcFlagsTyped' /\ HidTyped'
<1>1. CdcFlagsTyped'
  <2>1. CASE CdcEvent
    BY <2>1, Zenon DEF CdcEvent, CdcConnected, CdcDisconnected, CdcRxAvailable, CdcTxComplete,
                       CdcFlagsTyped
  <2>2. CASE ReadBuffer
    <3>1. cdcRx' \in BOOLEAN
      BY <2>2, Zenon DEF ReadBuffer, TakeRx, LookAtRx, PacketRead, LeaveRx, CdcFlagsTyped
    <3> QED
      BY <2>2, <3>1, Zenon DEF ReadBuffer, CdcFlagsTyped
  <2>3. CASE WriteBuffer
    <3>1. cdcTx' \in BOOLEAN /\ cdcSending' \in BOOLEAN
      BY <2>3, Zenon DEF WriteBuffer, TakeTx, PacketWrite, WriteRefused, CdcFlagsTyped
    <3> QED
      BY <2>3, <3>1, Zenon DEF WriteBuffer, CdcFlagsTyped
  <2>4. CASE UNCHANGED cdcVars
    BY <2>4 DEF cdcVars, CdcFlagsTyped
  <2> QED
    BY <2>1, <2>2, <2>3, <2>4, UsbSteps
<1>2. HidTyped'
  <2>1. CASE HidEvent
    BY <2>1 DEF HidEvent, HidConnected, HidDisconnected, HidTxComplete, HidTyped
  <2>2. CASE SendMouseEvent
    BY <2>2 DEF SendMouseEvent, BeginReport, SetSending, GiveReport, TakeStateChange,
                LookAtState, WaitTimeout, ReturnTrue, HidTyped
  <2>3. CASE UNCHANGED hidVars
    BY <2>3 DEF hidVars, HidTyped
  <2> QED
    BY <2>1, <2>2, <2>3, UsbSteps
<1> QED
  BY <1>1, <1>2

LEMMA UsbTypesAlways == Spec => []UsbTypes
<1>1. Init => ReaderInv /\ CdcFlagsTyped /\ HidTyped
  <2>1. UsbInit => ReaderInv
    BY DEF UsbInit, ReaderInv
  <2>2. UsbInit => CdcFlagsTyped
    BY Zenon DEF UsbInit, CdcFlagsTyped
  <2>3. UsbInit => HidTyped
    <3>1. UsbInit => /\ hidLink \in BOOLEAN /\ hidOn \in BOOLEAN /\ hidSema \in BOOLEAN
                     /\ hidSending \in BOOLEAN
      BY Zenon DEF UsbInit
    <3>2. UsbInit => hidState \in {"unconfigured", "idle", "sending"}
      BY DEF UsbInit
    <3> QED
      BY <3>1, <3>2 DEF HidTyped
  <2> QED
    BY <2>1, <2>2, <2>3 DEF Init
<1>2. /\ ReaderInv /\ CdcFlagsTyped /\ HidTyped /\ [Next]_vars
      => ReaderInv' /\ CdcFlagsTyped' /\ HidTyped'
  BY ReaderStep, UsbTypesStep
<1>3. ReaderInv /\ CdcFlagsTyped /\ HidTyped => UsbTypes
  <2> SUFFICES ASSUME ReaderInv, CdcFlagsTyped, HidTyped PROVE UsbTypes
    OBVIOUS
  <2>1. cdcData \in Nat /\ cdcAvail \in Nat /\ hidState \in {"unconfigured", "idle", "sending"}
    BY DEF ReaderInv, HidTyped
  <2>2. UsbFlags \subseteq BOOLEAN
    BY DEF UsbFlags, CdcFlagsTyped, HidTyped
  <2> QED
    BY <2>1, <2>2 DEF UsbTypes
<1> QED
  BY <1>1, <1>2, <1>3, PTL DEF Spec
=============================================================================
