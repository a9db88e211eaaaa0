---------------------------------- MODULE LIN ----------------------------------
(***************************************************************************)
(* A LIN bus: LinMaster on a UART with interrupts and one LinSlave that    *)
(* polls its UART.  Both hear every byte, their own included.  The master  *)
(* sends headers; who publishes the frame then sends data and checksum,    *)
(* the other may receive it.  Nothing but the value 0x55 tells a header    *)
(* from data, and what a receiver that gave up did not read is still there *)
(* when the next frame begins.                                             *)
(*                                                                         *)
(* A byte is a tuple: the sync byte (also when it is data), the protected  *)
(* identifier, data, or a checksum, which is taken to be injective and     *)
(* different from data (it is a sum modulo 255 over identifier and data).  *)
(* Frames have one data byte.                                              *)
(***************************************************************************)
EXTENDS Integers, Sequences

CONSTANTS LinFifoSize, LinQueueSize,   \* of a UART: 16, OPENSTELLA_UART_QUEUESIZE
          Ids, SlaveIds,             \* identifiers, and those the slave publishes
          Data, None,
          MaxHeaders, MaxCalls       \* bounds: headers sent, calls of onIdReceived()

ASSUME LinAssumption ==
    /\ LinFifoSize \in Nat \ {0} /\ LinQueueSize \in Nat \ {0}
    /\ SlaveIds \subseteq Ids
    /\ \A data \in Data : data[1] # "checksum"
    /\ MaxHeaders \in Nat \ {0} /\ MaxCalls \in Nat

VARIABLES masterWire, slaveWire,     \* bytes given to a UART but not yet on the bus
          masterFifo, masterQueue,   \* bytes received: peripheral, then queue
          slaveFifo,
          masterPc, wanted, frame,                \* LinMaster
          slavePc,                                \* LinSlave
          headers, published, accepted, called, disturbed    \* history

linVars == <<masterWire, slaveWire, masterFifo, masterQueue, slaveFifo, masterPc,
             wanted, frame, slavePc,
             headers, published, accepted, called, disturbed>>
historyVars == <<headers, published, accepted, called, disturbed>>
masterVars == <<masterPc, wanted, frame>>

Sync == <<"sync">>
Pid(id) == <<"id", id>>
Checksum(id, data) == <<"checksum", id, data>>
Frame(id, data) == <<data, Checksum(id, data)>>

(* Fault: the checksum does not cover the identifier.                      *)
ChecksumMatchesAnyId(id, data, byte) ==
    \E i \in Ids : byte = Checksum(i, data)
ChecksumMatches(id, data, byte) == byte = Checksum(id, data)

LinInit ==
    /\ masterFifo = <<>> /\ masterQueue = <<>>
    /\ masterWire = <<>> /\ slaveWire = <<>> /\ slaveFifo = <<>>
    /\ masterPc = "idle" /\ wanted = None /\ frame = <<>>
    /\ slavePc = "sync"
    /\ headers = <<>> /\ published = {} /\ accepted = {} /\ called = <<>>
    /\ disturbed = FALSE

(***************************************************************************)
(* The line: the next byte of either side reaches both.  It is disturbed   *)
(* when both sides send at a time, or the slave is too slow for it.        *)
(***************************************************************************)
Received(fifo, byte) == IF Len(fifo) < LinFifoSize THEN Append(fifo, byte) ELSE fifo

Carry(byte) ==
    /\ masterFifo' = Received(masterFifo, byte)
    /\ slaveFifo' = Received(slaveFifo, byte)
    /\ disturbed' = \/ disturbed
                    \/ masterWire # <<>> /\ slaveWire # <<>>
                    \/ Len(slaveFifo) = LinFifoSize
    /\ UNCHANGED <<masterQueue, masterVars, slavePc, headers, published, accepted, called>>

Line ==
    \/ /\ masterWire # <<>>
       /\ Carry(Head(masterWire))
       /\ masterWire' = Tail(masterWire)
       /\ UNCHANGED slaveWire
    \/ /\ slaveWire # <<>>
       /\ Carry(Head(slaveWire))
       /\ slaveWire' = Tail(slaveWire)
       /\ UNCHANGED masterWire

EndReceive == masterPc' = "idle" /\ frame' = <<>> /\ wanted' = None

(***************************************************************************)
(* sendIdAndDelay(): turning the UART off waits for what is being sent and *)
(* empties the receive FIFO, but not the queue.  onIdReceived() is the     *)
(* application's: it receives the slave's frames and publishes the others. *)
(***************************************************************************)
SendHeader(id) ==
    /\ masterPc = "idle"
    /\ Len(headers) < MaxHeaders
    /\ masterWire = <<>>
    /\ masterWire' = <<Sync, Pid(id)>>
    /\ masterFifo' = <<>>
    /\ masterPc' = "onId"
    /\ wanted' = id
    /\ headers' = Append(headers, id)
    /\ UNCHANGED <<masterQueue, slaveWire, slaveFifo, frame,
                   slavePc, published, accepted, called, disturbed>>

OnIdReceived ==
    /\ masterPc = "onId"
    /\ \/ /\ wanted \in SlaveIds
          /\ masterPc' = "sync"
          /\ UNCHANGED <<masterWire, wanted, frame, published>>
       \/ /\ wanted \notin SlaveIds
          /\ EndReceive
          /\ \E data \in Data :
                 /\ masterWire' = masterWire \o Frame(wanted, data)
                 /\ published' = published \cup {<<wanted, data>>}
    /\ UNCHANGED <<masterFifo, masterQueue, slaveWire, slaveFifo, slavePc, headers, accepted,
                   called, disturbed>>

(***************************************************************************)
(* LinMaster::receiveFrame(): anything up to 0x55 is skipped, the next     *)
(* byte is thrown away, data and checksum follow.  Each loop looks at the  *)
(* time, which may be up at any turn, and then for a byte.                 *)
(***************************************************************************)
TimeUp ==
    /\ EndReceive
    /\ UNCHANGED <<masterQueue, accepted>>

GetChar == masterQueue # <<>> /\ masterQueue' = Tail(masterQueue)

ReceiveSync ==
    /\ masterPc = "sync"
    /\ \/ TimeUp
       \/ /\ GetChar
          /\ masterPc' = IF Head(masterQueue) = Sync THEN "id" ELSE "sync"
          /\ UNCHANGED <<frame, wanted, accepted>>

(* Fault: the loop that waits for the identifier does not look at the time. *)
ReceiveIdForever ==
    /\ masterPc = "id"
    /\ GetChar
    /\ masterPc' = "data"
    /\ UNCHANGED <<frame, wanted, accepted>>

ReceiveId ==
    /\ masterPc = "id"
    /\ \/ TimeUp
       \/ /\ GetChar
          /\ masterPc' = "data"
          /\ UNCHANGED <<frame, wanted, accepted>>

ReceiveData ==
    /\ masterPc = "data"
    /\ \/ TimeUp
       \/ /\ GetChar
          /\ IF frame = <<>>
             THEN frame' = <<Head(masterQueue)>> /\ UNCHANGED <<masterPc, wanted, accepted>>
             ELSE /\ EndReceive
                  /\ accepted' = IF ChecksumMatches(wanted, frame[1], Head(masterQueue))
                                 THEN accepted \cup {<<wanted, frame[1]>>} ELSE accepted

ReceiveFrame ==
    /\ ReceiveSync \/ ReceiveId \/ ReceiveData
    /\ UNCHANGED <<masterFifo, masterWire, slaveWire, slaveFifo, slavePc,
                   headers, published, called, disturbed>>

(***************************************************************************)
(* LinSlave::execute(): a byte 0x55, then whatever byte comes next is the  *)
(* identifier, of which the parity is not looked at.  The application      *)
(* publishes its frames and leaves the others alone.                       *)
(***************************************************************************)
Unprotected(byte) == IF byte[1] = "id" THEN {byte[2]} ELSE Ids

SlaveSync ==
    /\ slavePc = "sync" /\ slaveFifo # <<>>
    /\ slavePc' = IF Head(slaveFifo) = Sync THEN "id" ELSE "sync"
    /\ slaveFifo' = Tail(slaveFifo)
    /\ UNCHANGED <<slaveWire, published, accepted, called>>

(* Fault: after a frame the next byte is taken for an identifier again.   *)
SlaveIdStays ==
    /\ slavePc = "id" /\ slaveFifo # <<>> /\ Len(called) < MaxCalls
    /\ slaveFifo' = Tail(slaveFifo)
    /\ \E id \in Unprotected(Head(slaveFifo)) :
           /\ called' = Append(called, id)
           /\ IF id \in SlaveIds
              THEN \E data \in Data :
                       /\ slaveWire' = slaveWire \o Frame(id, data)
                       /\ published' = published \cup {<<id, data>>}
              ELSE UNCHANGED <<slaveWire, published>>
    /\ slavePc' = slavePc
    /\ UNCHANGED accepted

SlaveId ==
    /\ slavePc = "id" /\ slaveFifo # <<>> /\ Len(called) < MaxCalls
    /\ slaveFifo' = Tail(slaveFifo)
    /\ \E id \in Unprotected(Head(slaveFifo)) :
           /\ called' = Append(called, id)
           /\ IF id \in SlaveIds
              THEN \E data \in Data :
                       /\ slaveWire' = slaveWire \o Frame(id, data)
                       /\ published' = published \cup {<<id, data>>}
              ELSE UNCHANGED <<slaveWire, published>>
    /\ slavePc' = "sync"
    /\ UNCHANGED accepted

Slave ==
    /\ SlaveSync \/ SlaveId
    /\ UNCHANGED <<masterFifo, masterQueue, masterWire, masterVars, headers, disturbed>>

-----------------------------------------------------------------------------
(***************************************************************************)
(* The master's interrupt handler, in one step; UART has its steps.        *)
(***************************************************************************)
LinInterrupt ==
    /\ masterFifo # <<>>
    /\ masterQueue' = LET all == masterQueue \o masterFifo
                      IN  SubSeq(all, 1, IF Len(all) < LinQueueSize THEN Len(all) ELSE LinQueueSize)
    /\ masterFifo' = <<>>
    /\ UNCHANGED <<masterWire, slaveWire, slaveFifo, masterVars, slavePc, historyVars>>

LinNext ==
    \/ LinInterrupt
    \/ Line
    \/ \E id \in Ids : SendHeader(id)
    \/ OnIdReceived
    \/ ReceiveFrame
    \/ Slave

LinFairness ==
    /\ WF_linVars(LinInterrupt)
    /\ WF_linVars(ReceiveFrame)

(***************************************************************************)
(* A frame that receiveFrame() accepts was published for that identifier:  *)
(* what is left of an earlier frame, with another identifier, is never     *)
(* taken for it, whatever was read in place of the header.  (A late answer *)
(* to an earlier request with the same identifier is accepted.)            *)
(***************************************************************************)
LinAcceptsPublished == accepted \subseteq published

(***************************************************************************)
(* As long as nobody sends 0x55 as data and frames do not overlap, a slave *)
(* is called for the headers of the master only, in their order, though    *)
(* the frames, its own answers too, pass through execute() as well         *)
(* (LinSlave.cpp:96-105).                                                  *)
(***************************************************************************)
IsSubsequence(s, t) ==
    \E f \in [DOMAIN s -> DOMAIN t] :
        /\ \A i \in DOMAIN s : s[i] = t[f[i]]
        /\ \A i, j \in DOMAIN s : i < j => f[i] < f[j]

LinCalledForHeaders ==
    ~disturbed /\ (\A f \in published : f[2] # Sync) => IsSubsequence(called, headers)

(***************************************************************************)
(* receiveFrame() ends, whatever the slave does, in each of its waits, if  *)
(* time goes on (getTime() wraps after 12 days, and a deadline beyond the  *)
(* wrap is never passed).                                                  *)
(***************************************************************************)
LinReceiveEnds == masterPc \in {"sync", "id", "data"} ~> masterPc \in {"idle", "onId"}
=============================================================================
