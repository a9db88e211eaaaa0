--------------------------- MODULE CANCyclicMessage ---------------------------
(***************************************************************************)
(* The data of one CANCyclicMessage.  Applications change it byte by byte  *)
(* under the lock of the message; the CAN task, which sends it, reads it   *)
(* byte by byte under the mutex of sendMessage() only.  A byte is the set  *)
(* of its bits that are 1.                                                 *)
(***************************************************************************)
EXTENDS Integers

CONSTANTS Setters,     \* application tasks
          NumBytes,    \* 8
          Bits,        \* bits of a byte
          Unlocked,
          MaxSets      \* bound: calls of setters

ASSUME CyclicAssumption ==
    /\ NumBytes \in Nat \ {0} /\ MaxSets \in Nat
    /\ Unlocked \notin Setters

VARIABLES data,               \* _msg->data
          dataLock,           \* _lock: its owner
          setter,             \* [Setters -> the call, where it is, the byte it has read]
          sendAt, sendFrame,  \* the CAN task: the byte it reads next, and those it has read
          sets, settled, seen    \* history: calls; what the completed calls make of the
                                 \* data, now and at any time since the frame was begun

cyclicVars == <<data, dataLock, setter, sendAt, sendFrame, sets, settled, seen>>

Index == 1..NumBytes
NoCall == [at |-> "idle"]
Call(op, index, value, bits) ==
    [at |-> "lock", op |-> op, index |-> index, value |-> value, bits |-> bits]

CyclicInit ==
    /\ data = [i \in Index |-> {}] /\ dataLock = Unlocked
    /\ setter = [t \in Setters |-> NoCall]
    /\ sendAt = 0 /\ sendFrame = data
    /\ sets = 0 /\ settled = data /\ seen = {data}

-----------------------------------------------------------------------------
(***************************************************************************)
(* setData() copies all bytes, setDataBit() reads a byte and writes it     *)
(* back with one bit changed.  (setDataByte() is its second half.)         *)
(***************************************************************************)
CallSetter(t) ==
    /\ setter[t].at = "idle" /\ sets < MaxSets
    /\ \/ \E bytes \in [Index -> SUBSET Bits] :
              setter' = [setter EXCEPT ![t] = Call("setData", 1, bytes, {})]
       \/ \E i \in Index, bit \in Bits, op \in {"set", "clear"} :
              setter' = [setter EXCEPT ![t] = Call(op, i, data, {bit})]
    /\ sets' = sets + 1
    /\ UNCHANGED <<data, dataLock, settled, seen>>

LockData(t) ==
    /\ setter[t].at = "lock" /\ dataLock = Unlocked
    /\ dataLock' = t
    /\ setter' = [setter EXCEPT ![t].at = IF setter[t].op = "setData" THEN "write" ELSE "read"]
    /\ UNCHANGED <<data, sets, settled, seen>>

Changed(call, byte) ==
    IF call.op = "set" THEN byte \cup call.bits ELSE byte \ call.bits

(* Fault: the guard is destroyed before the byte is written back.          *)
ReadDataByteUnlocking(t) ==
    /\ setter[t].at = "read"
    /\ dataLock' = Unlocked
    /\ setter' = [setter EXCEPT ![t].at = "write",
                                ![t].value[setter[t].index] =
                                    Changed(setter[t], data[setter[t].index])]
    /\ UNCHANGED <<data, sets, settled, seen>>

ReadDataByte(t) ==
    /\ setter[t].at = "read"
    /\ setter' = [setter EXCEPT ![t].at = "write",
                                ![t].value[setter[t].index] =
                                    Changed(setter[t], data[setter[t].index])]
    /\ UNCHANGED <<data, dataLock, sets, settled, seen>>

WriteDataByte(t) ==
    /\ setter[t].at = "write"
    /\ data' = [data EXCEPT ![setter[t].index] = setter[t].value[setter[t].index]]
    /\ setter' = IF setter[t].op = "setData" /\ setter[t].index < NumBytes
                 THEN [setter EXCEPT ![t].index = @ + 1]
                 ELSE [setter EXCEPT ![t].at = "leave"]
    /\ UNCHANGED <<dataLock, sets, settled, seen>>

Completed(call) ==
    IF call.op = "setData" THEN call.value
    ELSE [settled EXCEPT ![call.index] = Changed(call, @)]

UnlockData(t) ==
    /\ setter[t].at = "leave"
    /\ dataLock' = Unlocked
    /\ setter' = [setter EXCEPT ![t] = NoCall]
    /\ settled' = Completed(setter[t])
    /\ seen' = seen \cup {settled'}
    /\ UNCHANGED <<data, sets>>

Set(t) ==
    /\ \/ CallSetter(t) \/ LockData(t) \/ ReadDataByte(t) \/ WriteDataByte(t)
       \/ UnlockData(t)
    /\ UNCHANGED <<sendAt, sendFrame>>

(***************************************************************************)
(* The CAN task: sendMessage() hands a pointer to the data to              *)
(* CANMessageSet(), which reads the bytes.                                 *)
(***************************************************************************)
BeginFrame ==
    /\ sendAt = 0
    /\ sendAt' = 1
    /\ seen' = {settled}
    /\ UNCHANGED sendFrame

FillFrame ==
    /\ sendAt \in Index
    /\ sendFrame' = [sendFrame EXCEPT ![sendAt] = data[sendAt]]
    /\ sendAt' = sendAt + 1
    /\ UNCHANGED seen

EndFrame ==
    /\ sendAt = NumBytes + 1
    /\ sendAt' = 0
    /\ UNCHANGED <<sendFrame, seen>>

SendData ==
    /\ BeginFrame \/ FillFrame \/ EndFrame
    /\ UNCHANGED <<data, dataLock, setter, sets, settled>>

CyclicNext == SendData \/ \E t \in Setters : Set(t)

CyclicSpec == CyclicInit /\ [][CyclicNext]_cyclicVars

-----------------------------------------------------------------------------
(***************************************************************************)
(* Setters of different tasks take effect one after the other: none undoes *)
(* a bit another has set, whatever either had read before                  *)
(* (CANCyclicMessage.cpp:129-220).                                         *)
(***************************************************************************)
CyclicSetsAddUp ==
    (\A t \in Setters : setter[t].at \in {"idle", "lock"}) => data = settled

(***************************************************************************)
(* "CANCyclicMessage is thread-aware so you can safely access/change       *)
(* message data from application threads." (CANCyclicMessage.h:40-41)      *)
(* A frame that is sent carries the data as it was, after all of a call or *)
(* none of it, at some time while the frame was made; a call that is not   *)
(* over yet may count as either.                                           *)
(***************************************************************************)
CyclicFrameIsWhole ==
    sendAt = NumBytes + 1 =>
        sendFrame \in seen \cup {Completed(setter[t]) : t \in {u \in Setters : dataLock = u}}
=============================================================================
