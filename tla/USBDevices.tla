------------------------------ MODULE USBDevices ------------------------------
(***************************************************************************)
(* The two kinds of USB device: USBCDCDevice with a reading and a writing  *)
(* task, and USBMouseDevice with a task that sends reports.  The events of *)
(* the USB library are delivered in interrupt context and may come between *)
(* any two steps of a task.  Binary semaphores are Boolean.                *)
(***************************************************************************)
EXTENDS Integers

CONSTANTS PacketSizes,   \* bytes in a packet from the host
          ReadSizes,     \* bufferSize of readBuffer()
          MaxConnects    \* bound: connections of each device

ASSUME UsbAssumption ==
    /\ PacketSizes \subseteq Nat \ {0} /\ ReadSizes \subseteq Nat \ {0}
    /\ MaxConnects \in Nat

VARIABLES cdcOn, cdcConnects,
          cdcData, cdcSending,     \* the endpoints: unread bytes, a packet on its way
          cdcRx, cdcTx,            \* _rxSemaphore, _txSemaphore
          cdcReader, cdcAvail, cdcSize,     \* readBuffer()
          cdcWriter,                        \* writeBuffer()
          hidLink, hidConnects, hidSending,   \* the mouse: the host is there, the endpoint
          hidOn, hidState, hidSema,           \* _connected, _state, _stateChangeSemaphore
          hidPc,                              \* sendMouseEvent()
          hidReport                \* history: what became of the report of this call

cdcVars == <<cdcOn, cdcConnects, cdcData, cdcSending, cdcRx, cdcTx,
             cdcReader, cdcAvail, cdcSize, cdcWriter>>
hidVars == <<hidLink, hidConnects, hidSending, hidOn, hidState, hidSema, hidPc, hidReport>>
usbVars == <<cdcVars, hidVars>>

UsbInit ==
    /\ cdcOn = FALSE /\ cdcConnects = 0 /\ cdcData = 0 /\ cdcSending = FALSE
    /\ cdcRx = FALSE /\ cdcTx = TRUE
    /\ cdcReader = "idle" /\ cdcAvail = 0 /\ cdcSize = 0 /\ cdcWriter = "idle"
    /\ hidLink = FALSE /\ hidOn = FALSE /\ hidConnects = 0 /\ hidSending = FALSE
    /\ hidState = "unconfigured" /\ hidSema = FALSE /\ hidPc = "idle"
    /\ hidReport = "none"

-----------------------------------------------------------------------------
(***************************************************************************)
(* USBCDCDevice: the handlers, each with the event it answers.  The host   *)
(* sends a packet when the one before has been read.                       *)
(***************************************************************************)
(* Fault: the transmit semaphore, which a disconnection took, stays away.  *)
CdcConnectedKeepsTx ==
    /\ ~cdcOn /\ cdcConnects < MaxConnects
    /\ cdcOn' = TRUE /\ cdcConnects' = cdcConnects + 1
    /\ cdcRx' = FALSE
    /\ UNCHANGED <<cdcTx, cdcData, cdcSending>>

CdcConnected ==
    /\ ~cdcOn /\ cdcConnects < MaxConnects
    /\ cdcOn' = TRUE /\ cdcConnects' = cdcConnects + 1
    /\ cdcTx' = TRUE /\ cdcRx' = FALSE
    /\ UNCHANGED <<cdcData, cdcSending>>

CdcDisconnected ==
    /\ cdcOn
    /\ cdcOn' = FALSE
    /\ cdcTx' = FALSE /\ cdcRx' = FALSE
    /\ cdcData' = 0 /\ cdcSending' = FALSE
    /\ UNCHANGED cdcConnects

CdcRxAvailable ==
    /\ cdcOn /\ cdcData = 0
    /\ cdcData' \in PacketSizes
    /\ cdcRx' = TRUE
    /\ UNCHANGED <<cdcOn, cdcConnects, cdcSending, cdcTx>>

CdcTxComplete ==
    /\ cdcSending
    /\ cdcSending' = FALSE
    /\ cdcTx' = TRUE
    /\ UNCHANGED <<cdcOn, cdcConnects, cdcData, cdcRx>>

CdcEvent ==
    /\ CdcConnected \/ CdcDisconnected \/ CdcRxAvailable \/ CdcTxComplete
    /\ UNCHANGED <<cdcReader, cdcAvail, cdcSize, cdcWriter>>

(***************************************************************************)
(* readBuffer(), under its lock: wait (any time, or until the timeout),    *)
(* look at what is there, read, and leave the semaphore to the next call   *)
(* when there was more.                                                    *)
(***************************************************************************)
TakeRx ==
    /\ cdcReader = "idle" /\ cdcRx
    /\ cdcRx' = FALSE
    /\ cdcReader' = "look"
    /\ cdcSize' \in ReadSizes
    /\ UNCHANGED <<cdcData, cdcAvail>>

LookAtRx ==
    /\ cdcReader = "look"
    /\ cdcAvail' = cdcData
    /\ cdcReader' = "read"
    /\ UNCHANGED <<cdcRx, cdcData, cdcSize>>

PacketRead ==
    /\ cdcReader = "read"
    /\ cdcData' = IF cdcData > cdcSize THEN cdcData - cdcSize ELSE 0
    /\ cdcReader' = "readDone"
    /\ UNCHANGED <<cdcRx, cdcAvail, cdcSize>>

(* Fault: a byte too few is taken for the rest.                            *)
LeaveRxOffByOne ==
    /\ cdcReader = "readDone"
    /\ cdcRx' = (cdcRx \/ cdcAvail > cdcSize + 1)
    /\ cdcReader' = "idle" /\ cdcAvail' = 0 /\ cdcSize' = 0
    /\ UNCHANGED cdcData

LeaveRx ==
    /\ cdcReader = "readDone"
    /\ cdcRx' = (cdcRx \/ cdcAvail > cdcSize)
    /\ cdcReader' = "idle" /\ cdcAvail' = 0 /\ cdcSize' = 0
    /\ UNCHANGED cdcData

ReadBuffer ==
    /\ TakeRx \/ LookAtRx \/ PacketRead \/ LeaveRx
    /\ UNCHANGED <<cdcOn, cdcConnects, cdcSending, cdcTx, cdcWriter>>

(***************************************************************************)
(* writeBuffer() for one packet: the library refuses it while another is   *)
(* on its way or nobody is connected; the call gives up only in the second *)
(* case, which it looks at afterwards.                                     *)
(***************************************************************************)
TakeTx ==
    /\ cdcWriter = "idle" /\ cdcTx
    /\ cdcTx' = FALSE
    /\ cdcWriter' = "write"
    /\ UNCHANGED cdcSending

PacketWrite ==
    /\ cdcWriter = "write"
    /\ IF cdcOn /\ ~cdcSending
       THEN cdcSending' = TRUE /\ cdcWriter' = "idle"
       ELSE cdcWriter' = "refused" /\ UNCHANGED cdcSending
    /\ UNCHANGED cdcTx

WriteRefused ==
    /\ cdcWriter = "refused"
    /\ cdcWriter' = IF cdcOn THEN "write" ELSE "idle"
    /\ UNCHANGED <<cdcTx, cdcSending>>

WriteBuffer ==
    /\ TakeTx \/ PacketWrite \/ WriteRefused
    /\ UNCHANGED <<cdcOn, cdcConnects, cdcData, cdcRx, cdcReader, cdcAvail, cdcSize>>

-----------------------------------------------------------------------------
(***************************************************************************)
(* USBDevice::DeviceHandler() for the mouse.                               *)
(***************************************************************************)
HidConnected ==
    /\ ~hidLink /\ hidConnects < MaxConnects
    /\ hidLink' = TRUE /\ hidConnects' = hidConnects + 1
    /\ hidState' = "idle" /\ hidSema' = TRUE /\ hidOn' = TRUE
    /\ UNCHANGED <<hidSending, hidReport>>

HidDisconnected ==
    /\ hidLink
    /\ hidLink' = FALSE
    /\ hidOn' = FALSE /\ hidState' = "unconfigured" /\ hidSema' = TRUE
    /\ hidSending' = FALSE
    /\ hidReport' = IF hidPc = "idle" THEN hidReport ELSE "disturbed"
    /\ UNCHANGED hidConnects

HidTxComplete ==
    /\ hidSending
    /\ hidSending' = FALSE
    /\ hidState' = "idle" /\ hidSema' = TRUE
    /\ hidReport' = IF hidReport = "given" THEN "sent" ELSE hidReport
    /\ UNCHANGED <<hidLink, hidOn, hidConnects>>

HidEvent ==
    /\ HidConnected \/ HidDisconnected \/ HidTxComplete
    /\ UNCHANGED hidPc

(***************************************************************************)
(* sendMouseEvent(): the state is set before the report is given to the    *)
(* library; then waitForSendIdle() looks at the state each time it could   *)
(* take the semaphore.  When the time is up the device counts as           *)
(* disconnected.                                                           *)
(***************************************************************************)
BeginReport ==
    /\ hidPc = "idle" /\ hidOn
    /\ hidPc' = "set"
    /\ hidReport' = IF hidSending THEN "disturbed" ELSE "none"
    /\ UNCHANGED <<hidOn, hidState, hidSending, hidSema>>

SetSending ==
    /\ hidPc = "set"
    /\ hidState' = "sending"
    /\ hidPc' = "give"
    /\ UNCHANGED <<hidOn, hidSending, hidSema, hidReport>>

(* Fault: the state is set after the report is given to the library, which *)
(* may have sent it by then.                                               *)
GiveReportThenState ==
    /\ hidPc = "give" /\ hidLink /\ ~hidSending
    /\ hidState' = "sending" /\ hidPc' = "wait"
    /\ \/ hidSending' = TRUE /\ hidReport' = "given" /\ UNCHANGED hidSema
       \/ hidSending' = FALSE /\ hidReport' = "sent" /\ hidSema' = TRUE
    /\ UNCHANGED hidOn

GiveReport ==
    /\ hidPc = "give"
    /\ \/ /\ hidLink /\ ~hidSending
          /\ hidSending' = TRUE /\ hidPc' = "wait"
          /\ hidReport' = IF hidReport = "none" THEN "given" ELSE hidReport
       \/ /\ hidPc' = "idle"
          /\ UNCHANGED <<hidSending, hidReport>>
    /\ UNCHANGED <<hidOn, hidState, hidSema>>

TakeStateChange ==
    /\ hidPc = "wait" /\ hidSema
    /\ hidSema' = FALSE
    /\ hidPc' = "look"
    /\ UNCHANGED <<hidOn, hidState, hidSending, hidReport>>

(* Fault: the semaphore is taken for the end of the transmission.          *)
LookAtAnyState ==
    /\ hidPc = "look"
    /\ hidPc' = "true"
    /\ UNCHANGED <<hidOn, hidState, hidSema, hidSending, hidReport>>

LookAtState ==
    /\ hidPc = "look"
    /\ \/ hidState = "idle" /\ hidPc' = "true" /\ UNCHANGED hidOn
       \/ hidState # "idle" /\ hidPc' = "wait" /\ UNCHANGED hidOn
       \/ hidState # "idle" /\ hidPc' = "idle" /\ hidOn' = FALSE
    /\ UNCHANGED <<hidState, hidSema, hidSending, hidReport>>

WaitTimeout ==
    /\ hidPc = "wait" /\ ~hidSema
    /\ hidOn' = FALSE
    /\ hidPc' = "idle"
    /\ UNCHANGED <<hidState, hidSema, hidSending, hidReport>>

ReturnTrue ==
    /\ hidPc = "true"
    /\ hidPc' = "idle"
    /\ UNCHANGED <<hidOn, hidState, hidSema, hidSending, hidReport>>

SendMouseEvent ==
    /\ \/ BeginReport \/ SetSending \/ GiveReport \/ TakeStateChange
       \/ LookAtState \/ WaitTimeout \/ ReturnTrue
    /\ UNCHANGED <<hidLink, hidConnects>>

CdcNext == (CdcEvent \/ ReadBuffer \/ WriteBuffer) /\ UNCHANGED hidVars

HidNext == (HidEvent \/ SendMouseEvent) /\ UNCHANGED cdcVars

-----------------------------------------------------------------------------
(***************************************************************************)
(* While there is something to read and no call at it, the next call finds *)
(* the semaphore given, although it is given once per packet, taken away   *)
(* by connections, and given back from a count that is old by then         *)
(* (USBCDCDevice.cpp:128-138).                                             *)
(***************************************************************************)
UsbReaderWakes == cdcData > 0 /\ cdcReader = "idle" => cdcRx

(***************************************************************************)
(* While the endpoint is free and no call about to use it, the next        *)
(* writeBuffer() finds the semaphore given, after any disconnection during *)
(* a packet or a wait (USBCDCDevice.cpp:106-116, 161-183).                 *)
(***************************************************************************)
UsbWriterWakes == cdcOn /\ ~cdcSending /\ cdcWriter = "idle" => cdcTx

(***************************************************************************)
(* A sendMouseEvent() whose report was sent is not left waiting, to        *)
(* declare the device disconnected after its timeout, whenever between its *)
(* steps the transmission ends (USBMouseDevice.cpp:51-56).                 *)
(***************************************************************************)
UsbSenderWakes ==
    /\ hidPc = "wait" /\ hidReport = "sent" => hidSema
    /\ hidPc \in {"wait", "look"} /\ hidReport = "sent" => hidState = "idle"

(***************************************************************************)
(* sendMouseEvent() returns true when the report was sent, unless the      *)
(* device was disconnected during the call or the one before; what earlier *)
(* calls and events left in the semaphore does not make it                 *)
(* (USBDevice.cpp:53-64).                                                  *)
(***************************************************************************)
UsbTrueWhenSent == hidPc = "true" => hidReport \in {"sent", "disturbed"}
=============================================================================
