-------------------------- MODULE CANReceiveProofs --------------------------
(***************************************************************************)
(* Proofs about the receive path for any number of mailboxes, swmobs,      *)
(* observers, frames, and any sizes of the queues and of the pool.         *)
(***************************************************************************)
EXTENDS CANReceive, QueueLemmas

-----------------------------------------------------------------------------
(* Facts about the pool.                                                   *)

(* getMessage() lends an entry that was not in use, or a new one, or none; *)
(* it changes no other entry and keeps the pool within its limit.          *)
LEMMA GetLends ==
  ASSUME NEW p \in Seq(PoolEntry), Len(p) <= PoolSize
  PROVE  LET after == AfterGet(p, Null)
         IN  /\ after \in Seq(PoolEntry)
             /\ Len(after) \in Len(p)..PoolSize
             /\ Lent(p) \in 0..Len(after)
             /\ \A i \in 1..Len(p) : i # Lent(p) => after[i] = p[i]
             /\ Lent(p) # NoMessage => after[Lent(p)].inUse
             /\ Lent(p) \in 1..Len(p) => ~p[Lent(p)].inUse
             /\ Lent(p) = NoMessage => after = p
             /\ \A i \in 1..Len(after) : i \in 1..Len(p) \/ i = Lent(p)
<1> DEFINE after == AfterGet(p, Null)
<1>1. Len(p) \in Nat /\ DOMAIN p = 1..Len(p) /\ PoolSize \in Nat
  BY LenProperties, PoolSizeAssumption
<1>2. CASE Unused(p) # {}
  <2>1. Lent(p) \in 1..Len(p) /\ ~p[Lent(p)].inUse
    <3>1. Unused(p) \in SUBSET Nat
      BY <1>1 DEF Unused
    <3>2. Min(Unused(p)) \in Unused(p)
      BY <1>2, <3>1, MinInSet
    <3> QED
      BY <1>2, <3>2 DEF Lent, Unused
  <2> DEFINE l == Lent(p)
             e == [p[l] EXCEPT !.inUse = TRUE]
  <2>2. e \in PoolEntry /\ e.inUse
    <3>1. p[l] \in PoolEntry
      BY <2>1, ElementOfSeq
    <3> QED
      BY <3>1 DEF PoolEntry
  <2>3. after = [p EXCEPT ![l] = e]
    BY <1>2 DEF AfterGet
  <2> HIDE DEF l, e
  <2>4. /\ after \in Seq(PoolEntry) /\ Len(after) = Len(p)
        /\ \A i \in 1..Len(p) : after[i] = IF i = l THEN e ELSE p[i]
    <3>1. l \in 1..Len(p)
      BY <2>1 DEF l
    <3> QED
      BY <2>2, <2>3, <3>1, ExceptSeq
  <2> QED
    BY <1>1, <2>1, <2>2, <2>4 DEF l, NoMessage
<1>3. CASE Unused(p) = {} /\ CanGrow(p)
  <2>1. Lent(p) = Len(p) + 1
    BY <1>3 DEF Lent
  <2> DEFINE e == [inUse |-> TRUE, frame |-> Null]
  <2>2. after = Append(p, e)
    BY <1>3 DEF AfterGet
  <2>3. e \in PoolEntry /\ e.inUse
    BY DEF PoolEntry, Contents
  <2> HIDE DEF e, after
  <2>4. /\ after \in Seq(PoolEntry) /\ Len(after) = Len(p) + 1
        /\ \A i \in 1..Len(p) : after[i] = p[i]
        /\ after[Len(p) + 1] = e
    BY <2>2, <2>3, AppendProperties
  <2>5. Len(p) < PoolSize
    BY <1>3 DEF CanGrow
  <2> QED
    BY <1>1, <2>1, <2>3, <2>4, <2>5 DEF NoMessage, after
<1>4. CASE Unused(p) = {} /\ ~CanGrow(p)
  BY <1>1, <1>4 DEF Lent, AfterGet, NoMessage
<1> QED
  BY <1>2, <1>3, <1>4

(* returnMessage() frees one entry and changes no other.                   *)
LEMMA ReturnFrees ==
  ASSUME NEW p \in Seq(PoolEntry), NEW m \in 0..Len(p)
  PROVE  LET after == AfterReturn(p, m, Null)
         IN  /\ after \in Seq(PoolEntry)
             /\ Len(after) = Len(p)
             /\ \A i \in 1..Len(p) : i # m => after[i] = p[i]
             /\ m # NoMessage => ~after[m].inUse
<1> DEFINE e == [inUse |-> FALSE, frame |-> Null]
           after == AfterReturn(p, m, Null)
<1>1. Len(p) \in Nat /\ DOMAIN p = 1..Len(p)
  BY LenProperties
<1>2. e \in PoolEntry /\ ~e.inUse
  BY DEF PoolEntry, Contents
<1>3. after = [p EXCEPT ![m] = e]
  BY DEF AfterReturn
<1>4. CASE m = 0
  <2>1. after = p
    BY <1>1, <1>3, <1>4
  <2> QED
    BY <1>4, <2>1 DEF NoMessage
<1>5. CASE m \in 1..Len(p)
  <2> HIDE DEF e, after
  <2>1. /\ after \in Seq(PoolEntry) /\ Len(after) = Len(p)
        /\ \A i \in 1..Len(p) : after[i] = IF i = m THEN e ELSE p[i]
    BY <1>2, <1>3, <1>5, ExceptSeq
  <2> QED
    BY <1>2, <1>5, <2>1 DEF after
<1> QED
  BY <1>1, <1>4, <1>5

(* Filling an entry changes its frame only.                                *)
LEMMA FillKeeps ==
  ASSUME NEW p \in Seq(PoolEntry), NEW m \in 1..Len(p), NEW f \in Contents
  PROVE  LET after == [p EXCEPT ![m].frame = f]
         IN  /\ after \in Seq(PoolEntry)
             /\ Len(after) = Len(p)
             /\ \A i \in 1..Len(p) : after[i].inUse = p[i].inUse
<1> DEFINE e == [p[m] EXCEPT !.frame = f]
           after == [p EXCEPT ![m].frame = f]
<1>1. e \in PoolEntry /\ e.inUse = p[m].inUse
  <2>1. p[m] \in PoolEntry
    BY ElementOfSeq
  <2> QED
    BY <2>1 DEF PoolEntry
<1>2. after = [p EXCEPT ![m] = e]
  OBVIOUS
<1> HIDE DEF e, after
<1>3. /\ after \in Seq(PoolEntry) /\ Len(after) = Len(p)
      /\ \A i \in 1..Len(p) : after[i] = IF i = m THEN e ELSE p[i]
  BY <1>1, <1>2, ExceptSeq
<1> QED
  BY <1>1, <1>3 DEF after

-----------------------------------------------------------------------------
(* Facts about the observer list.                                          *)

(* A fragment is a list of its length, all of whose slots are empty.       *)
LEMMA FragmentIsList ==
  Fragment \in Seq(Slot) /\ Len(Fragment) = FragmentLength
<1>1. EmptySlot \in Slot
  BY DEF EmptySlot, Slot, Filter
<1>2. FragmentLength \in Nat
  BY ObserverListAssumption
<1>3. Fragment \in [1..FragmentLength -> Slot]
  BY <1>1 DEF Fragment
<1> QED
  BY <1>2, <1>3

(* Registering writes one free slot, of a fragment added if need be.       *)
LEMMA RegisteredIsList ==
  ASSUME NEW list \in Seq(Slot), NEW o \in Observers, NEW filter \in Filter
  PROVE  Registered(list, o, filter) \in Seq(Slot)
<1> DEFINE room == IF FreeSlots(list) = {} THEN list \o Fragment ELSE list
           e    == [observer |-> o, filter |-> filter]
<1>1. room \in Seq(Slot) /\ Len(room) \in Nat /\ DOMAIN room = 1..Len(room)
  BY FragmentIsList, ConcatProperties, LenProperties
<1>2. FreeSlots(room) # {}
  <2>1. CASE FreeSlots(list) # {}
    BY <2>1
  <2>2. CASE FreeSlots(list) = {}
    <3>1. Len(list) \in Nat /\ FragmentLength \in Nat \ {0}
      BY LenProperties, ObserverListAssumption
    <3>2. /\ Len(room) = Len(list) + FragmentLength
          /\ room[Len(list) + 1] = Fragment[1]
      BY <2>2, <3>1, FragmentIsList, ConcatProperties
    <3>3. Fragment[1].observer = Null
      BY <3>1 DEF Fragment, EmptySlot
    <3>4. Len(list) + 1 \in FreeSlots(room)
      BY <3>1, <3>2, <3>3 DEF FreeSlots
    <3> QED
      BY <3>4
  <2> QED
    BY <2>1, <2>2
<1>3. Min(FreeSlots(room)) \in 1..Len(room)
  <2>1. FreeSlots(room) \in SUBSET Nat
    BY <1>1 DEF FreeSlots
  <2>2. Min(FreeSlots(room)) \in FreeSlots(room)
    BY <1>2, <2>1, MinInSet
  <2> QED
    BY <2>2 DEF FreeSlots
<1>4. e \in Slot
  BY DEF Slot
<1>5. Registered(list, o, filter) =
        IF IsRegistered(list, o, filter) THEN list
        ELSE [room EXCEPT ![Min(FreeSlots(room))] = e]
  BY DEF Registered
<1> HIDE DEF room, e
<1> QED
  BY <1>1, <1>3, <1>4, <1>5, ExceptSeq

(* Unregistering, for all filters or for one, keeps the list a list.       *)
LEMMA UnregisteredIsList ==
  ASSUME NEW list \in Seq(Slot), NEW o \in Observers, NEW filter \in Filter
  PROVE  /\ Unregistered(list, o) \in Seq(Slot)
         /\ UnregisteredFilter(list, o, filter) \in Seq(Slot)
<1>1. Len(list) \in Nat /\ \A i \in 1..Len(list) : list[i] \in Slot
  BY LenProperties, ElementOfSeq
<1>2. EmptySlot \in Slot
  BY DEF EmptySlot, Slot, Filter
<1>3. /\ Unregistered(list, o) \in [1..Len(list) -> Slot]
      /\ UnregisteredFilter(list, o, filter) \in [1..Len(list) -> Slot]
  BY <1>1, <1>2 DEF Unregistered, UnregisteredFilter
<1> QED
  BY <1>1, <1>3

-----------------------------------------------------------------------------
(* Type correctness.  The CAN task's locals are what the code expects only *)
(* where TaskState says so, so that both are proved together.              *)

TypedState == TypeOK /\ TaskState

(* The initial state has the right types.                                  *)
LEMMA InitTyped == Init => TypedState
<1> SUFFICES ASSUME Init PROVE TypedState
  OBVIOUS
<1>1. freeSwMobs \in Seq(SwMobs)
  <2>1. Cardinality(SwMobs) \in Nat
    BY FS_CardinalityType, CANReceiveAssumption
  <2>2. freeSwMobs \in [1..Cardinality(SwMobs) -> SwMobs]
    BY DEF Init, SetToSeqs
  <2> QED
    BY <2>1, <2>2
<1>2. observers \in Seq(Slot)
  BY FragmentIsList DEF Init
<1>3. TypeOK
  <2>1. pool = <<>> /\ Len(pool) = 0
    BY DEF Init
  <2>2. \A S : <<>> \in Seq(S)
    OBVIOUS
  <2>3. /\ usedSwMobs \in Seq(SwMobs)
        /\ pool \in Seq(PoolEntry)
        /\ queue \in [Observers -> Seq(1..Len(pool))]
    BY <2>1, <2>2 DEF Init
  <2>4. /\ mailbox \in [RxMob -> Contents]
        /\ swmobs \in [SwMobs -> Contents]
        /\ taken \in [Observers -> 0..Len(pool)]
        /\ got \in [Observers -> Contents]
    BY <2>1 DEF Init, NoMessage, Contents
  <2>5. pc \in PC /\ msg \in 0..Len(pool) /\ Len(pool) <= PoolSize
    BY <2>1, PoolSizeAssumption DEF Init, PC, NoMessage
  <2>6. /\ onBus \in BOOLEAN /\ mobsSet \in BOOLEAN /\ busError \in BOOLEAN
        /\ observerMutex \in BOOLEAN /\ poolLock \in BOOLEAN
    BY Zenon DEF Init
  <2>7. /\ intPending \subseteq RxMob \cup TxMob
        /\ num \in SwMobs \cup {Null} /\ slot \in Nat /\ stops \in 0..MaxStops
    BY CANReceiveAssumption DEF Init
  <2> QED
    BY <1>1, <1>2, <2>3, <2>4, <2>5, <2>6, <2>7 DEF TypeOK
<1>4. TaskState
  BY DEF Init, TaskState, NoMessage
<1> QED
  BY <1>3, <1>4 DEF TypedState

(* The peripheral.                                                         *)
LEMMA PeripheralTyped ==
  TypedState /\ Peripheral => TypedState'
<1> SUFFICES ASSUME TypedState, Peripheral PROVE TypedState'
  OBVIOUS
<1> USE CANReceiveAssumption DEF TypedState, hardware, swQueues, registry,
      poolVars, task, readers
<1>1. ASSUME NEW f \in Frames, FrameArrives(f) PROVE TypedState'
  <2> DEFINE empty  == {m \in RxMob : mailbox[m] = Null}
             target == IF empty = {} THEN RxMobs ELSE Min(empty)
  <2>1. target \in RxMob
    <3>1. CASE empty = {}
      BY <3>1 DEF RxMob
    <3>2. CASE empty # {}
      <4>1. empty \in SUBSET Nat
        BY DEF RxMob
      <4> QED
        BY <3>2, <4>1, MinInSet
    <3> QED
      BY <3>1, <3>2
  <2>2. /\ mailbox' = [mailbox EXCEPT ![target] = f]
        /\ intPending' = intPending \cup {target}
        /\ UNCHANGED <<onBus, mobsSet, busError, swQueues, registry, poolVars,
                       task, readers, stops>>
    BY <1>1 DEF FrameArrives
  <2> HIDE DEF target
  <2> QED
    BY <2>1, <2>2 DEF TypeOK, TaskState, Contents
<1>2. ASSUME NEW m \in TxMob, FrameSent(m) PROVE TypedState'
  BY <1>2 DEF FrameSent, TypeOK, TaskState
<1>3. ASSUME BusError PROVE TypedState'
  BY <1>3 DEF BusError, TypeOK, TaskState
<1> QED
  BY <1>1, <1>2, <1>3 DEF Peripheral

(* The interrupt handler, whatever its cause, keeps the types.             *)
LEMMA HandleInterruptTyped ==
  TypedState /\ HandleInterrupt => TypedState'
<1> SUFFICES ASSUME TypedState, HandleInterrupt PROVE TypedState'
  OBVIOUS
<1> USE CANReceiveAssumption DEF TypedState, hardware, swQueues, registry,
      poolVars, task, readers
<1>1. ASSUME NEW q \in Seq(SwMobs), NEW x \in SwMobs
      PROVE  Push(q, x) \in Seq(SwMobs)
  BY AppendProperties DEF Push
<1>2. /\ swmobs' \in [SwMobs -> Contents]
      /\ mailbox' \in [RxMob -> Contents]
      /\ freeSwMobs' \in Seq(SwMobs) /\ usedSwMobs' \in Seq(SwMobs)
  <2> DEFINE mobId == Head(freeSwMobs)
  <2>1. CASE freeSwMobs = <<>>
    BY <2>1 DEF HandleInterrupt, TypeOK, FetchRx, FetchTx
  <2>2. CASE freeSwMobs # <<>>
    <3>1. mobId \in SwMobs /\ Tail(freeSwMobs) \in Seq(SwMobs)
      BY <2>2, HeadTailProperties DEF TypeOK
    <3>2. CASE FetchRx
      BY <1>1, <3>1, <3>2 DEF FetchRx, TypeOK, Contents
    <3>3. CASE FetchTx
      BY <1>1, <3>1, <3>3 DEF FetchTx, TypeOK, Contents
    <3> QED
      BY <2>2, <3>2, <3>3 DEF HandleInterrupt
  <2> QED
    BY <2>1, <2>2
<1>3. /\ intPending' \subseteq RxMob \cup TxMob
      /\ UNCHANGED <<onBus, mobsSet, busError, registry, poolVars, task,
                     readers, stops>>
  BY DEF HandleInterrupt, TypeOK
<1>4. TypeOK'
  BY <1>2, <1>3 DEF TypeOK
<1>5. TaskState'
  BY <1>3 DEF TaskState
<1> QED
  BY <1>4, <1>5

(* The CAN task.                                                           *)
LEMMA ExecuteTyped ==
  TypedState /\ Execute => TypedState'
<1> SUFFICES ASSUME TypedState, Execute PROVE TypedState'
  OBVIOUS
<1> USE CANReceiveAssumption DEF TypedState, hardware, swQueues, registry,
      poolVars, task, readers, NoMessage
<1>1. CASE ReceiveSwMob
  <2>1. CASE usedSwMobs # <<>>
    <3>1. Head(usedSwMobs) \in SwMobs /\ Tail(usedSwMobs) \in Seq(SwMobs)
      BY <2>1, HeadTailProperties DEF TypeOK
    <3> QED
      BY <1>1, <2>1, <3>1 DEF ReceiveSwMob, TypeOK, TaskState, PC
  <2>2. CASE usedSwMobs = <<>>
    BY <1>1, <2>2 DEF ReceiveSwMob, TypeOK, TaskState, PC
  <2> QED
    BY <2>1, <2>2
<1>2. CASE LockObservers
  BY <1>2 DEF LockObservers, TypeOK, TaskState, PC
<1>3. CASE SkipSlot
  BY <1>3 DEF SkipSlot, AtSlot, TypeOK, TaskState, PC
<1>4. CASE EnterGetMessage
  <2>1. observers[slot] \in Slot
    BY <1>4, ElementOfSeq DEF EnterGetMessage, AtSlot, TypeOK
  <2>2. observers[slot].observer \in Observers
    BY <1>4, <2>1 DEF EnterGetMessage, Matching, Slot
  <2> QED
    BY <1>4, <2>2 DEF EnterGetMessage, AtSlot, TypeOK, TaskState, PC
<1>5. CASE GetMessage
  <2>1. pool \in Seq(PoolEntry) /\ Len(pool) <= PoolSize
    BY DEF TypeOK
  <2>2. /\ pool' \in Seq(PoolEntry)
        /\ Len(pool') \in Len(pool)..PoolSize
        /\ msg' \in 0..Len(pool')
    BY <1>5, <2>1, GetLends DEF GetMessage
  <2>3. Len(pool) \in Nat /\ Len(pool') \in Nat /\ PoolSize \in Nat
    BY <2>1, <2>2, LenProperties, PoolSizeAssumption
  <2>4. 1..Len(pool) \subseteq 1..Len(pool') /\ 0..Len(pool) \subseteq 0..Len(pool')
    BY <2>2, <2>3
  <2>5. /\ queue' \in [Observers -> Seq(1..Len(pool'))]
        /\ taken' \in [Observers -> 0..Len(pool')]
    <3>1. Seq(1..Len(pool)) \subseteq Seq(1..Len(pool'))
      BY <2>4, SeqMonotonic
    <3> QED
      BY <1>5, <2>4, <3>1 DEF GetMessage, TypeOK
  <2>6. TypeOK'
    <3>1. Len(pool') <= PoolSize
      BY <2>2, <2>3
    <3>2. poolLock' \in BOOLEAN
      BY <1>5, Zenon DEF GetMessage
    <3>3. slot' \in Nat /\ pc' \in PC
      BY <1>5 DEF GetMessage, TypeOK, PC
    <3> QED
      BY <1>5, <2>2, <2>5, <3>1, <3>2, <3>3 DEF GetMessage, TypeOK
  <2>7. TaskState'
    BY <1>5, <2>2 DEF GetMessage, TaskState, TypeOK, PC
  <2> QED
    BY <2>6, <2>7
<1>6. CASE Notify
  <2>1. pool \in Seq(PoolEntry) /\ msg \in 1..Len(pool) /\ swmobs[num] \in Contents
    BY <1>6 DEF Notify, TypeOK, TaskState
  <2>2. pool' \in Seq(PoolEntry) /\ Len(pool') = Len(pool)
    BY <1>6, <2>1, FillKeeps DEF Notify
  <2>3. queue' \in [Observers -> Seq(1..Len(pool))]
    <3>1. observers[slot].observer \in Observers
      BY <1>6 DEF Notify, TaskState
    <3>2. Append(queue[observers[slot].observer], msg) \in Seq(1..Len(pool))
      BY <2>1, <3>1, AppendProperties DEF TypeOK
    <3> QED
      BY <1>6, <3>2 DEF Notify, TypeOK
  <2>4. TypeOK'
    <3>1. /\ Len(pool') <= PoolSize /\ msg' \in 0..Len(pool')
          /\ queue' \in [Observers -> Seq(1..Len(pool'))]
          /\ taken' \in [Observers -> 0..Len(pool')]
      BY <1>6, <2>1, <2>2, <2>3, LenProperties DEF Notify, TypeOK
    <3>2. poolLock' \in BOOLEAN
      BY <1>6, Zenon DEF Notify, TypeOK
    <3>3. slot' \in Nat /\ pc' \in PC
      BY <1>6 DEF Notify, TypeOK, PC
    <3> QED
      BY <1>6, <2>2, <3>1, <3>2, <3>3 DEF Notify, TypeOK
  <2>5. TaskState'
    BY <1>6 DEF Notify, TypeOK, TaskState, PC
  <2> QED
    BY <2>4, <2>5
<1>7. CASE ReturnUndelivered
  <2>1. pool' \in Seq(PoolEntry) /\ Len(pool') = Len(pool)
    BY <1>7, ReturnFrees DEF ReturnUndelivered, TypeOK
  <2>2. TypeOK'
    <3>1. /\ Len(pool') <= PoolSize /\ msg' \in 0..Len(pool')
          /\ queue' \in [Observers -> Seq(1..Len(pool'))]
          /\ taken' \in [Observers -> 0..Len(pool')]
      BY <1>7, <2>1, LenProperties DEF ReturnUndelivered, TypeOK
    <3>2. poolLock' \in BOOLEAN
      BY <1>7, Zenon DEF ReturnUndelivered
    <3>3. slot' \in Nat /\ pc' \in PC
      BY <1>7 DEF ReturnUndelivered, TypeOK, PC
    <3> QED
      BY <1>7, <2>1, <3>1, <3>2, <3>3 DEF ReturnUndelivered, TypeOK
  <2>3. TaskState'
    BY <1>7 DEF ReturnUndelivered, TypeOK, TaskState, PC
  <2> QED
    BY <2>2, <2>3
<1>8. CASE UnlockObservers
  BY <1>8 DEF UnlockObservers, TypeOK, TaskState, PC
<1>9. CASE GiveBackSwMob
  <2>1. num \in SwMobs
    BY <1>9 DEF GiveBackSwMob, TypeOK, TaskState
  <2>2. Append(freeSwMobs, num) \in Seq(SwMobs)
    BY <2>1, AppendProperties DEF TypeOK
  <2> QED
    BY <1>9, <2>1, <2>2 DEF GiveBackSwMob, TypeOK, TaskState, PC, Contents
<1>10. CASE PeekAndCheckStatus
  BY <1>10 DEF PeekAndCheckStatus, TypeOK, TaskState, PC
<1>11. CASE ReinitController
  BY <1>11 DEF ReinitController, TypeOK, TaskState, PC, Contents
<1>12. CASE RestartController
  BY <1>12 DEF RestartController, TypeOK, TaskState, PC
<1> QED
  BY <1>1, <1>2, <1>3, <1>4, <1>5, <1>6, <1>7, <1>8, <1>9, <1>10, <1>11, <1>12
     DEF Execute

(* The application: registering, enabling and disabling.                   *)
LEMMA ApplicationTyped ==
  TypedState /\ Application => TypedState'
<1> SUFFICES ASSUME TypedState, Application PROVE TypedState'
  OBVIOUS
<1> USE CANReceiveAssumption DEF TypedState, hardware, swQueues, registry,
      poolVars, task, readers, NoMessage
<1>1. ASSUME ~observerMutex, observers' \in Seq(Slot),
             UNCHANGED <<hardware, swQueues, observerMutex, poolVars, task,
                         readers, stops>>
      PROVE  TypedState'
  BY <1>1 DEF TypeOK, TaskState
<1>2. ASSUME NEW o \in Observers, NEW filter \in Filters,
             RegisterObserver(o, filter)
      PROVE  TypedState'
  <2>1. observers' \in Seq(Slot)
    BY <1>2, RegisteredIsList DEF RegisterObserver, TypeOK
  <2> QED
    BY <1>1, <1>2, <2>1 DEF RegisterObserver
<1>3. ASSUME NEW o \in Observers, NEW filter \in Filters,
             UnregisterFilter(o, filter)
      PROVE  TypedState'
  <2>1. observers' \in Seq(Slot)
    BY <1>3, UnregisteredIsList DEF UnregisterFilter, TypeOK
  <2> QED
    BY <1>1, <1>3, <2>1 DEF UnregisterFilter
<1>4. ASSUME NEW o \in Observers, UnregisterObserver(o) PROVE TypedState'
  <2>1. [can_id |-> {}, mask |-> {}] \in Filter
    BY DEF Filter
  <2>2. observers' \in Seq(Slot)
    BY <1>4, <2>1, UnregisteredIsList DEF UnregisterObserver, TypeOK
  <2> QED
    BY <1>1, <1>4, <2>2 DEF UnregisterObserver
<1>5. CASE Enable
  BY <1>5 DEF Enable, TypeOK, TaskState, PC
<1>6. CASE Disable
  <2>1. stops' \in 0..MaxStops
    BY <1>6 DEF Disable, TypeOK
  <2>2. pc' \in PC /\ num' \in SwMobs \cup {Null} /\ slot' \in Nat
        /\ msg' \in 0..Len(pool')
    BY <1>6, LenProperties DEF Disable, TypeOK, PC
  <2>3. onBus' \in BOOLEAN
    BY <1>6, Zenon DEF Disable
  <2>4. TypeOK'
    BY <1>6, <2>1, <2>2, <2>3 DEF Disable, TypeOK
  <2>5. TaskState'
    BY <1>6 DEF Disable, TaskState
  <2> QED
    BY <2>4, <2>5
<1> QED
  BY <1>2, <1>3, <1>4, <1>5, <1>6 DEF Application

(* The readers.                                                            *)
LEMMA ReadTyped ==
  ASSUME TypedState, NEW o \in Observers, Read(o)
  PROVE  TypedState'
<1> USE CANReceiveAssumption DEF TypedState, hardware, swQueues, registry,
      poolVars, task, readers, NoMessage
<1>1. CASE TakeMessage(o)
  <2>1. /\ Head(queue[o]) \in 1..Len(pool)
        /\ Tail(queue[o]) \in Seq(1..Len(pool))
    BY <1>1, HeadTailProperties DEF TakeMessage, TypeOK
  <2> QED
    BY <1>1, <2>1 DEF TakeMessage, TypeOK, TaskState
<1>2. CASE AssignMessage(o)
  <2>1. taken[o] \in 1..Len(pool)
    <3>1. Len(pool) \in Nat /\ taken[o] \in 0..Len(pool) /\ taken[o] # 0
      BY <1>2, LenProperties DEF AssignMessage, TypeOK
    <3> QED
      BY <3>1
  <2>2. pool[taken[o]].frame \in Contents
    <3>1. pool[taken[o]] \in PoolEntry
      BY <2>1, ElementOfSeq DEF TypeOK
    <3> QED
      BY <3>1 DEF PoolEntry
  <2> QED
    BY <1>2, <2>2 DEF AssignMessage, TypeOK, TaskState
<1>3. CASE ReturnMessage(o)
  <2>1. pool' \in Seq(PoolEntry) /\ Len(pool') = Len(pool)
    BY <1>3, ReturnFrees DEF ReturnMessage, TypeOK
  <2> QED
    BY <1>3, <2>1 DEF ReturnMessage, TypeOK, TaskState, Contents
<1> QED
  BY <1>1, <1>2, <1>3 DEF Read

(* Every step keeps the types: one case per action.                        *)
LEMMA NextTyped == TypedState /\ [Next]_vars => TypedState'
<1> SUFFICES ASSUME TypedState, [Next]_vars PROVE TypedState'
  OBVIOUS
<1>1. CASE Next
  BY <1>1, PeripheralTyped, HandleInterruptTyped, ExecuteTyped,
     ApplicationTyped, ReadTyped DEF Next
<1>2. CASE UNCHANGED vars
  BY <1>2 DEF vars, hardware, swQueues, registry, poolVars, task, readers,
     TypedState, TypeOK, TaskState
<1> QED
  BY <1>1, <1>2

(* The variables of the receive path keep their types: in particular the   *)
(* pool never exceeds its limit, and no queue and no reader refers to an   *)
(* entry the pool does not have.                                           *)
THEOREM TypeCorrect == Spec => []TypeOK
<1>1. TypedState => TypeOK
  BY DEF TypedState
<1> QED
  BY InitTyped, NextTyped, <1>1, PTL DEF Spec

(* The CAN task holds what the code between receive() and sendToBack()     *)
(* relies on, whatever the application calls meanwhile.                    *)
THEOREM TaskStateCorrect == Spec => []TaskState
<1>1. TypedState => TaskState
  BY DEF TypedState
<1> QED
  BY InitTyped, NextTyped, <1>1, PTL DEF Spec

-----------------------------------------------------------------------------
(* The software message objects.                                           *)

(* An index that is not in an index queue finds room there.                *)
LEMMA PushAppends ==
  ASSUME NEW q \in Seq(SwMobs), IsInjective(q),
         NEW x \in SwMobs, x \notin ToSet(q)
  PROVE  Len(q) < SwQueueSize /\ Push(q, x) = Append(q, x)
<1>1. Len(q) < Cardinality(SwMobs)
  BY DistinctQueueFits, CANReceiveAssumption
<1>2. Len(q) \in Nat /\ Cardinality(SwMobs) \in Nat
  BY LenProperties, FS_CardinalityType, CANReceiveAssumption
<1>3. Len(q) < SwQueueSize
  BY <1>1, <1>2, CANReceiveAssumption
<1> QED
  BY <1>3 DEF Push

SwMobsInv == TypedState /\ SwMobsConserved

(* Before the CAN task runs, every swmob is in the free queue, once.       *)
LEMMA InitSwMobs == Init => SwMobsConserved
<1> SUFFICES ASSUME Init PROVE SwMobsConserved
  OBVIOUS
<1> DEFINE n == Cardinality(SwMobs)
<1>1. n \in Nat /\ IsFiniteSet(SwMobs)
  BY FS_CardinalityType, CANReceiveAssumption
<1>2. /\ freeSwMobs \in [1..n -> SwMobs]
      /\ \A i, j \in 1..n : i # j => freeSwMobs[i] # freeSwMobs[j]
  BY DEF Init, SetToSeqs
<1>3. freeSwMobs \in Injection(1..n, SwMobs)
  BY <1>2 DEF Injection, IsInjective
<1>4. freeSwMobs \in Surjection(1..n, SwMobs)
  <2>1. Cardinality(1..n) = n
    BY <1>1, FS_Interval
  <2> QED
    BY <1>1, <1>3, <2>1, FS_Injection
<1>5. ToSet(freeSwMobs) = SwMobs
  BY <1>2, <1>4 DEF Surjection, ToSet
<1>6. IsInjective(freeSwMobs)
  BY <1>3 DEF Injection
<1>7. usedSwMobs = <<>> /\ ToSet(usedSwMobs) = {} /\ IsInjective(usedSwMobs)
  BY DEF Init, ToSet, IsInjective
<1>8. InHand = {} /\ LostSwMobs = {}
  BY <1>5 DEF Init, InHand, LostSwMobs
<1>9. Cardinality(LostSwMobs) <= stops
  BY <1>8, FS_EmptySet DEF Init
<1> QED
  BY <1>6, <1>7, <1>8, <1>9 DEF SwMobsConserved

(* The interrupt handler moves one index from the free queue to one of the *)
(* two, or none.                                                           *)
LEMMA HandleInterruptSwMobs ==
  SwMobsInv /\ HandleInterrupt => SwMobsConserved'
<1> SUFFICES ASSUME SwMobsInv, HandleInterrupt PROVE SwMobsConserved'
  OBVIOUS
<1> DEFINE mobId == Head(freeSwMobs)
<1>1. freeSwMobs \in Seq(SwMobs) /\ usedSwMobs \in Seq(SwMobs)
  BY DEF SwMobsInv, TypedState, TypeOK
<1>2. num' = num /\ stops' = stops /\ InHand' = InHand
  BY DEF HandleInterrupt, task, InHand
<1>3. CASE freeSwMobs = <<>>
  <2>1. UNCHANGED <<freeSwMobs, usedSwMobs>>
    BY <1>3 DEF HandleInterrupt, swQueues, FetchRx, FetchTx
  <2> QED
    BY <1>2, <2>1 DEF SwMobsInv, SwMobsConserved, LostSwMobs
<1>4. CASE freeSwMobs # <<>>
  <2>1. /\ mobId \in SwMobs /\ Tail(freeSwMobs) \in Seq(SwMobs)
        /\ ToSet(freeSwMobs) = ToSet(Tail(freeSwMobs)) \cup {mobId}
        /\ IsInjective(Tail(freeSwMobs)) /\ mobId \notin ToSet(Tail(freeSwMobs))
    BY <1>1, <1>4, TailElements DEF SwMobsInv, SwMobsConserved
  <2>2. CASE FetchRx
    <3>1. mobId \notin ToSet(usedSwMobs)
      BY <2>1 DEF SwMobsInv, SwMobsConserved
    <3>2. usedSwMobs' = Append(usedSwMobs, mobId)
      BY <1>1, <2>1, <2>2, <3>1, PushAppends
         DEF FetchRx, SwMobsInv, SwMobsConserved
    <3>3. /\ ToSet(usedSwMobs') = ToSet(usedSwMobs) \cup {mobId}
          /\ IsInjective(usedSwMobs')
      BY <1>1, <2>1, <3>1, <3>2, AppendElements DEF SwMobsInv, SwMobsConserved
    <3>4. freeSwMobs' = Tail(freeSwMobs)
      BY <2>2 DEF FetchRx
    <3> QED
      BY <1>2, <2>1, <3>1, <3>3, <3>4 DEF SwMobsInv, SwMobsConserved, LostSwMobs
  <2>3. CASE FetchTx
    <3>1. freeSwMobs' = Append(Tail(freeSwMobs), mobId)
      BY <2>1, <2>3, PushAppends DEF FetchTx
    <3>2. ToSet(freeSwMobs') = ToSet(freeSwMobs) /\ IsInjective(freeSwMobs')
      <4> DEFINE t == Tail(freeSwMobs)
      <4> HIDE DEF t, mobId
      <4>1. /\ t \in Seq(SwMobs) /\ mobId \in SwMobs
            /\ IsInjective(t) /\ mobId \notin ToSet(t)
            /\ ToSet(freeSwMobs) = ToSet(t) \cup {mobId}
        BY <2>1 DEF t
      <4>2. /\ ToSet(Append(t, mobId)) = ToSet(t) \cup {mobId}
            /\ IsInjective(Append(t, mobId))
        BY <4>1, AppendElements
      <4> QED
        BY <3>1, <4>1, <4>2 DEF t
    <3>3. usedSwMobs' = usedSwMobs
      BY <2>3 DEF FetchTx
    <3> QED
      BY <1>2, <3>2, <3>3 DEF SwMobsInv, SwMobsConserved, LostSwMobs
  <2> QED
    BY <1>4, <2>2, <2>3 DEF HandleInterrupt
<1> QED
  BY <1>3, <1>4

(* The CAN task takes an index from the used queue, holds it, and gives it *)
(* back to the free one.                                                   *)
LEMMA ExecuteSwMobs ==
  SwMobsInv /\ Execute => SwMobsConserved'
<1> SUFFICES ASSUME SwMobsInv, Execute PROVE SwMobsConserved'
  OBVIOUS
<1>1. /\ freeSwMobs \in Seq(SwMobs) /\ usedSwMobs \in Seq(SwMobs)
      /\ num \in SwMobs \cup {Null} /\ Null \notin SwMobs
  BY CANReceiveAssumption DEF SwMobsInv, TypedState, TypeOK
<1>2. ASSUME UNCHANGED <<freeSwMobs, usedSwMobs, num, stops>>
      PROVE  SwMobsConserved'
  BY <1>2 DEF SwMobsInv, SwMobsConserved, LostSwMobs, InHand
<1>3. CASE ReceiveSwMob
  <2>1. CASE usedSwMobs # <<>>
    <3> DEFINE h == Head(usedSwMobs)
    <3>1. /\ h \in SwMobs
          /\ ToSet(usedSwMobs) = ToSet(Tail(usedSwMobs)) \cup {h}
          /\ IsInjective(Tail(usedSwMobs)) /\ h \notin ToSet(Tail(usedSwMobs))
      BY <1>1, <2>1, TailElements DEF SwMobsInv, SwMobsConserved
    <3>2. /\ num = Null /\ num' = h /\ usedSwMobs' = Tail(usedSwMobs)
          /\ UNCHANGED <<freeSwMobs, stops>>
      BY <1>3, <2>1 DEF ReceiveSwMob, SwMobsInv, TypedState, TaskState
    <3>3. InHand = {} /\ InHand' = {h}
      BY <1>1, <3>1, <3>2 DEF InHand
    <3> QED
      BY <3>1, <3>2, <3>3 DEF SwMobsInv, SwMobsConserved, LostSwMobs
  <2>2. CASE usedSwMobs = <<>>
    BY <1>2, <1>3, <2>2 DEF ReceiveSwMob
  <2> QED
    BY <2>1, <2>2
<1>4. CASE GiveBackSwMob
  <2>1. num \in SwMobs /\ InHand = {num}
    BY <1>1, <1>4 DEF GiveBackSwMob, SwMobsInv, TypedState, TaskState, InHand
  <2>2. num \notin ToSet(freeSwMobs)
    BY <2>1 DEF SwMobsInv, SwMobsConserved
  <2>3. /\ freeSwMobs' = Append(freeSwMobs, num)
        /\ num' = Null /\ UNCHANGED <<usedSwMobs, stops>>
    BY <1>4 DEF GiveBackSwMob
  <2>4. /\ ToSet(freeSwMobs') = ToSet(freeSwMobs) \cup {num}
        /\ IsInjective(freeSwMobs')
    BY <1>1, <2>1, <2>2, <2>3, AppendElements DEF SwMobsInv, SwMobsConserved
  <2>5. InHand' = {}
    BY <2>3 DEF InHand
  <2> QED
    BY <2>1, <2>3, <2>4, <2>5 DEF SwMobsInv, SwMobsConserved, LostSwMobs
<1>5. CASE \/ LockObservers \/ SkipSlot \/ EnterGetMessage \/ GetMessage
           \/ Notify \/ ReturnUndelivered \/ UnlockObservers
           \/ PeekAndCheckStatus \/ ReinitController \/ RestartController
  BY <1>2, <1>5 DEF LockObservers, SkipSlot, EnterGetMessage, GetMessage,
     Notify, ReturnUndelivered, UnlockObservers, PeekAndCheckStatus,
     ReinitController, RestartController, swQueues
<1> QED
  BY <1>3, <1>4, <1>5 DEF Execute

(* Deleting the CAN task may lose the one swmob it holds, which the count  *)
(* of stops allows.                                                        *)
LEMMA DisableSwMobs ==
  SwMobsInv /\ Disable => SwMobsConserved'
<1> SUFFICES ASSUME SwMobsInv, Disable PROVE SwMobsConserved'
  OBVIOUS
<1>1. /\ UNCHANGED <<freeSwMobs, usedSwMobs>> /\ InHand' = {}
      /\ stops \in Nat /\ stops' = stops + 1
  BY CANReceiveAssumption
     DEF Disable, swQueues, InHand, SwMobsInv, TypedState, TypeOK
<1>2. IsFiniteSet(LostSwMobs) /\ Cardinality(LostSwMobs) \in Nat
  BY CANReceiveAssumption, FS_Subset, FS_CardinalityType DEF LostSwMobs
<1>3. LostSwMobs' \in SUBSET (LostSwMobs \cup {num})
  BY <1>1 DEF LostSwMobs, InHand
<1>4. /\ IsFiniteSet(LostSwMobs \cup {num})
      /\ Cardinality(LostSwMobs \cup {num}) <= Cardinality(LostSwMobs) + 1
  BY <1>2, FS_AddElement
<1>5. /\ Cardinality(LostSwMobs') <= Cardinality(LostSwMobs \cup {num})
      /\ Cardinality(LostSwMobs') \in Nat
      /\ Cardinality(LostSwMobs \cup {num}) \in Nat
  BY <1>3, <1>4, FS_Subset, FS_CardinalityType
<1>6. Cardinality(LostSwMobs) <= stops
  BY DEF SwMobsInv, SwMobsConserved
<1>7. Cardinality(LostSwMobs)' <= stops'
  BY <1>1, <1>2, <1>4, <1>5, <1>6
<1> QED
  BY <1>1, <1>7 DEF SwMobsInv, SwMobsConserved

(* Every step conserves the swmobs.                                        *)
LEMMA NextSwMobs == SwMobsInv /\ [Next]_vars => SwMobsConserved'
<1> SUFFICES ASSUME SwMobsInv, [Next]_vars PROVE SwMobsConserved'
  OBVIOUS
<1>1. ASSUME UNCHANGED <<swQueues, task, stops>> PROVE SwMobsConserved'
  BY <1>1 DEF swQueues, task, SwMobsInv, SwMobsConserved, LostSwMobs, InHand
<1>2. CASE Peripheral
  BY <1>1, <1>2 DEF Peripheral, FrameArrives, FrameSent, BusError
<1>3. CASE HandleInterrupt
  BY <1>3, HandleInterruptSwMobs
<1>4. CASE Execute
  BY <1>4, ExecuteSwMobs
<1>5. ASSUME NEW o \in Observers, NEW filter \in Filters,
             RegisterObserver(o, filter) \/ UnregisterFilter(o, filter)
      PROVE  SwMobsConserved'
  BY <1>1, <1>5 DEF RegisterObserver, UnregisterFilter
<1>6. ASSUME NEW o \in Observers, UnregisterObserver(o) PROVE SwMobsConserved'
  BY <1>1, <1>6 DEF UnregisterObserver
<1>7. CASE Enable
  BY <1>7 DEF Enable, swQueues, SwMobsInv, SwMobsConserved, LostSwMobs, InHand
<1>8. CASE Disable
  BY <1>8, DisableSwMobs
<1>9. ASSUME NEW o \in Observers, Read(o) PROVE SwMobsConserved'
  BY <1>1, <1>9 DEF Read, TakeMessage, AssignMessage, ReturnMessage
<1>10. CASE UNCHANGED vars
  BY <1>1, <1>10 DEF vars
<1> QED
  BY <1>2, <1>3, <1>4, <1>5, <1>6, <1>7, <1>8, <1>9, <1>10 DEF Next, Application

(* The swmobs are conserved in every reachable state.                      *)
LEMMA SwMobsInductive == Spec => []SwMobsInv
<1>1. Init => SwMobsInv
  BY InitTyped, InitSwMobs DEF SwMobsInv
<1>2. SwMobsInv /\ [Next]_vars => SwMobsInv'
  BY NextTyped, NextSwMobs DEF SwMobsInv
<1> QED
  BY <1>1, <1>2, PTL DEF Spec

(* Interrupt handler, CAN task and disable() share the software message    *)
(* objects without ever having one in two places, for any number of them.  *)
THEOREM SwMobsSafe == Spec => []SwMobsConserved
<1>1. SwMobsInv => SwMobsConserved
  BY DEF SwMobsInv
<1> QED
  BY SwMobsInductive, <1>1, PTL

(* sendToBack() in execute() and sendToBackFromISR() in the interrupt      *)
(* handler always find room, so that neither blocks the CAN task nor drops *)
(* an index: there are not more indices than places in a queue.            *)
THEOREM IndexQueuesHaveRoom ==
  Spec => [](/\ num # Null => Len(freeSwMobs) < SwQueueSize
             /\ freeSwMobs # <<>> => Len(usedSwMobs) < SwQueueSize)
<1>1. SwMobsInv => (num # Null => Len(freeSwMobs) < SwQueueSize)
  <2> SUFFICES ASSUME SwMobsInv, num # Null PROVE Len(freeSwMobs) < SwQueueSize
    OBVIOUS
  <2>1. num \in SwMobs /\ freeSwMobs \in Seq(SwMobs)
    BY DEF SwMobsInv, TypedState, TypeOK
  <2>2. num \notin ToSet(freeSwMobs) /\ IsInjective(freeSwMobs)
    BY DEF SwMobsInv, SwMobsConserved, InHand
  <2> QED
    BY <2>1, <2>2, PushAppends
<1>2. SwMobsInv => (freeSwMobs # <<>> => Len(usedSwMobs) < SwQueueSize)
  <2> SUFFICES ASSUME SwMobsInv, freeSwMobs # <<>>
               PROVE  Len(usedSwMobs) < SwQueueSize
    OBVIOUS
  <2>1. usedSwMobs \in Seq(SwMobs) /\ freeSwMobs \in Seq(SwMobs)
    BY DEF SwMobsInv, TypedState, TypeOK
  <2>2. Head(freeSwMobs) \in SwMobs /\ Head(freeSwMobs) \in ToSet(freeSwMobs)
    BY <2>1, TailElements
  <2>3. Head(freeSwMobs) \notin ToSet(usedSwMobs) /\ IsInjective(usedSwMobs)
    BY <2>2 DEF SwMobsInv, SwMobsConserved
  <2> QED
    BY <2>1, <2>2, <2>3, PushAppends
<1> QED
  BY SwMobsInductive, <1>1, <1>2, PTL

-----------------------------------------------------------------------------
(* The ownership of pooled messages.                                       *)

(* Who refers to message p, without the positions Owners(p) names.         *)
Held(p) ==
  \/ \E o \in Observers : \E i \in 1..Len(queue[o]) : queue[o][i] = p
  \/ \E o \in Observers : taken[o] = p
  \/ msg = p

(* No two references to one message.                                       *)
NoSharing ==
  /\ \A o1, o2 \in Observers :
        \A i \in 1..Len(queue[o1]), j \in 1..Len(queue[o2]) :
           queue[o1][i] = queue[o2][j] => o1 = o2 /\ i = j
  /\ \A o1, o2 \in Observers : \A i \in 1..Len(queue[o1]) :
        queue[o1][i] # taken[o2]
  /\ \A o \in Observers : \A i \in 1..Len(queue[o]) : queue[o][i] # msg
  /\ \A o1, o2 \in Observers :
        taken[o1] = taken[o2] /\ taken[o1] # NoMessage => o1 = o2
  /\ \A o \in Observers : taken[o] = msg => msg = NoMessage

HeldInUse == \A p \in 1..Len(pool) : Held(p) => pool[p].inUse

Unheld  == {p \in 1..Len(pool) : pool[p].inUse /\ ~Held(p)}
FewLost == Cardinality(Unheld) <= stops

PoolInv == TypedState /\ ReaderState /\ NoSharing /\ HeldInUse /\ FewLost

(* What the type invariant says of the pool, the queues and the owners.    *)
LEMMA PoolTypes ==
  ASSUME TypedState
  PROVE  /\ pool \in Seq(PoolEntry) /\ Len(pool) \in Nat
         /\ msg \in 0..Len(pool)
         /\ \A o \in Observers :
              /\ queue[o] \in Seq(1..Len(pool)) /\ Len(queue[o]) \in Nat
              /\ \A i \in 1..Len(queue[o]) : queue[o][i] \in 1..Len(pool)
              /\ taken[o] \in 0..Len(pool)
         /\ stops \in Nat /\ ObserverQueue \in Nat
<1>1. /\ pool \in Seq(PoolEntry) /\ Len(pool) \in Nat
      /\ msg \in 0..Len(pool) /\ stops \in Nat /\ ObserverQueue \in Nat
  BY LenProperties, CANReceiveAssumption DEF TypedState, TypeOK
<1>2. ASSUME NEW o \in Observers
      PROVE  /\ queue[o] \in Seq(1..Len(pool)) /\ Len(queue[o]) \in Nat
             /\ \A i \in 1..Len(queue[o]) : queue[o][i] \in 1..Len(pool)
             /\ taken[o] \in 0..Len(pool)
  <2>1. queue[o] \in Seq(1..Len(pool)) /\ taken[o] \in 0..Len(pool)
    BY DEF TypedState, TypeOK
  <2> QED
    BY <2>1, LenProperties, ElementOfSeq
<1> QED
  BY <1>1, <1>2

(* A message is held when it has an owner, and NoSharing says that the     *)
(* owner is the only one.                                                  *)
LEMMA OwnersHold ==
  ASSUME TypedState, ReaderState, NEW p \in 1..Len(pool)
  PROVE  /\ Held(p) <=> Owners(p) # {}
         /\ NoSharing => \A x, y \in Owners(p) : x = y
<1>1. /\ \A o \in Observers : Len(queue[o]) \in Nat /\ Len(queue[o]) <= ObserverQueue
      /\ ObserverQueue \in Nat /\ Len(pool) \in Nat
  BY PoolTypes DEF ReaderState
<1>2. Held(p) => Owners(p) # {}
  <2>1. ASSUME NEW o \in Observers, NEW i \in 1..Len(queue[o]), queue[o][i] = p
        PROVE  <<o, i>> \in Owners(p)
    <3>1. i \in 1..ObserverQueue /\ i <= Len(queue[o])
      BY <1>1
    <3> QED
      BY <2>1, <3>1 DEF Owners
  <2>2. ASSUME NEW o \in Observers, taken[o] = p PROVE <<o, 0>> \in Owners(p)
    BY <2>2 DEF Owners
  <2>3. ASSUME msg = p PROVE <<Null, 0>> \in Owners(p)
    BY <2>3 DEF Owners
  <2> QED
    BY <2>1, <2>2, <2>3 DEF Held
<1>3. ASSUME NEW x \in Owners(p)
      PROVE  \/ \E o \in Observers : \E i \in 1..Len(queue[o]) :
                  x = <<o, i>> /\ queue[o][i] = p
             \/ \E o \in Observers : x = <<o, 0>> /\ taken[o] = p
             \/ x = <<Null, 0>> /\ msg = p
  <2>1. CASE x \in Observers \X (1..ObserverQueue) /\ x[2] <= Len(queue[x[1]])
               /\ queue[x[1]][x[2]] = p
    <3>1. PICK o \in Observers, i \in 1..ObserverQueue : x = <<o, i>>
      BY <2>1
    <3>2. i \in 1..Len(queue[o]) /\ queue[o][i] = p
      BY <1>1, <2>1, <3>1
    <3> QED
      BY <3>1, <3>2
  <2>2. CASE x \in Observers \X {0} /\ taken[x[1]] = p
    BY <2>2
  <2>3. CASE msg = p /\ x = <<Null, 0>>
    BY <2>3
  <2> QED
    BY <2>1, <2>2, <2>3 DEF Owners
<1>4. Owners(p) # {} => Held(p)
  BY <1>3 DEF Held
<1>5. ASSUME NoSharing, NEW x \in Owners(p), NEW y \in Owners(p) PROVE x = y
  <2>1. p # NoMessage
    BY <1>1 DEF NoMessage
  <2> QED
    BY <1>3, <1>5, <2>1 DEF NoSharing
<1> QED
  BY <1>2, <1>4, <1>5

(* The inductive invariant of the pool implies what the runs check.        *)
LEMMA PoolInvImplies == PoolInv => PoolOwnership
<1> SUFFICES ASSUME PoolInv PROVE PoolOwnership
  OBVIOUS
<1>1. \A p \in 1..Len(pool) :
        (Held(p) <=> Owners(p) # {}) /\ \A x, y \in Owners(p) : x = y
  BY OwnersHold DEF PoolInv
<1>2. LostMessages = Unheld
  BY <1>1 DEF LostMessages, Unheld
<1> QED
  BY <1>1, <1>2 DEF PoolInv, HeldInUse, FewLost, PoolOwnership

(* A step that loses no message keeps FewLost.                             *)
LEMMA LosesNone ==
  ASSUME TypedState, FewLost, Unheld' \subseteq Unheld, stops' = stops
  PROVE  FewLost'
<1>1. IsFiniteSet(1..Len(pool)) /\ Unheld \in SUBSET (1..Len(pool))
  BY PoolTypes, FS_Interval DEF Unheld
<1>2. IsFiniteSet(Unheld)
  BY <1>1, FS_Subset
<1>3. Cardinality(Unheld') <= Cardinality(Unheld)
  BY <1>2, FS_Subset
<1>4. Cardinality(Unheld) \in Nat /\ Cardinality(Unheld') \in Nat
  BY <1>2, FS_Subset, FS_CardinalityType
<1> QED
  BY <1>3, <1>4, PoolTypes DEF FewLost

(* Nothing that refers to a message, and no message, changes.              *)
LEMMA PoolUnchanged ==
  ASSUME PoolInv, UNCHANGED <<pool, queue, taken, got, msg, stops>>
  PROVE  ReaderState' /\ NoSharing' /\ HeldInUse' /\ FewLost'
BY DEF PoolInv, ReaderState, NoSharing, HeldInUse, FewLost, Unheld, Held

(* The pool is empty at first, so nobody owns anything.                    *)
LEMMA InitPool == Init => PoolInv
<1> SUFFICES ASSUME Init PROVE PoolInv
  OBVIOUS
<1>1. /\ pool = <<>> /\ Len(pool) = 0 /\ stops = 0 /\ msg = NoMessage
      /\ \A o \in Observers : /\ queue[o] = <<>> /\ Len(queue[o]) = 0
                             /\ taken[o] = NoMessage /\ got[o] = Null
  BY DEF Init
<1>2. ReaderState /\ NoSharing /\ HeldInUse
  BY <1>1, CANReceiveAssumption DEF ReaderState, NoSharing, HeldInUse
<1>3. Unheld = {}
  BY <1>1 DEF Unheld
<1>4. FewLost
  BY <1>1, <1>3, FS_EmptySet DEF FewLost
<1> QED
  BY <1>2, <1>4, InitTyped DEF PoolInv

(* getMessage() lends an entry that nobody owns.                           *)
LEMMA GetMessagePool ==
  ASSUME PoolInv, GetMessage
  PROVE  ReaderState' /\ NoSharing' /\ HeldInUse' /\ FewLost'
<1> DEFINE l == Lent(pool)
<1>1. TypedState /\ msg = NoMessage /\ msg' = l
      /\ UNCHANGED <<queue, taken, got, stops>>
  BY DEF PoolInv, GetMessage, TypedState, TaskState, readers
<1>2. /\ pool' \in Seq(PoolEntry) /\ Len(pool') \in Len(pool)..PoolSize
      /\ l \in 0..Len(pool')
      /\ \A i \in 1..Len(pool) : i # l => pool'[i] = pool[i]
      /\ l # NoMessage => pool'[l].inUse
      /\ l \in 1..Len(pool) => ~pool[l].inUse
      /\ l = NoMessage => pool' = pool
      /\ \A i \in 1..Len(pool') : i \in 1..Len(pool) \/ i = l
  BY <1>1, GetLends DEF GetMessage, TypedState, TypeOK
<1>3. /\ Len(pool) \in Nat /\ Len(pool') \in Nat
      /\ \A o \in Observers : /\ \A i \in 1..Len(queue[o]) : queue[o][i] \in 1..Len(pool)
                             /\ taken[o] \in 0..Len(pool)
  BY <1>1, <1>2, PoolTypes, LenProperties
<1> HIDE DEF l
<1>4. ~Held(l) \/ l = NoMessage
  <2>1. CASE l \in 1..Len(pool)
    BY <1>2, <2>1 DEF PoolInv, HeldInUse
  <2>2. CASE l \notin 1..Len(pool)
    BY <1>1, <1>2, <1>3, <2>2 DEF Held, NoMessage
  <2> QED
    BY <2>1, <2>2
<1>5. ReaderState'
  BY <1>1 DEF PoolInv, ReaderState
<1>6. NoSharing'
  <2>1. CASE l = NoMessage
    BY <1>1, <2>1 DEF PoolInv, NoSharing
  <2>2. CASE l # NoMessage
    BY <1>1, <1>4, <2>2 DEF PoolInv, NoSharing, Held
  <2> QED
    BY <2>1, <2>2
<1>7. ASSUME NEW p \in 1..Len(pool'), p # l
      PROVE  p \in 1..Len(pool) /\ pool'[p] = pool[p] /\ (Held(p)' <=> Held(p))
  BY <1>1, <1>2, <1>3, <1>7 DEF Held, NoMessage
<1>8. HeldInUse'
  BY <1>2, <1>3, <1>7 DEF PoolInv, HeldInUse, NoMessage
<1>9. Unheld' \subseteq Unheld
  BY <1>1, <1>7 DEF Unheld, Held
<1> QED
  BY <1>1, <1>5, <1>6, <1>8, <1>9, LosesNone DEF PoolInv

(* A message handed to an observer's queue changes its owner, from the CAN *)
(* task to that queue.                                                     *)
LEMMA NotifyPool ==
  ASSUME PoolInv, Notify
  PROVE  ReaderState' /\ NoSharing' /\ HeldInUse' /\ FewLost'
<1> DEFINE o == observers[slot].observer
<1>1. /\ TypedState /\ o \in Observers /\ msg \in 1..Len(pool)
      /\ swmobs[num] \in Contents
      /\ pool' = [pool EXCEPT ![msg].frame = swmobs[num]]
      /\ UNCHANGED <<taken, got, stops>>
  BY DEF PoolInv, Notify, TypedState, TypeOK, TaskState, NoMessage
<1>2. /\ Len(pool') = Len(pool)
      /\ \A i \in 1..Len(pool) : pool'[i].inUse = pool[i].inUse
  BY <1>1, FillKeeps DEF TypedState, TypeOK
<1>3. /\ Len(pool) \in Nat
      /\ \A x \in Observers : /\ \A i \in 1..Len(queue[x]) : queue[x][i] \in 1..Len(pool)
                             /\ taken[x] \in 0..Len(pool)
  BY <1>1, PoolTypes
<1>4. CASE Len(queue[o]) >= ObserverQueue
  <2>1. queue' = queue /\ msg' = msg
    BY <1>1, <1>4, PoolTypes DEF Notify
  <2>2. \A p : Held(p)' <=> Held(p)
    BY <1>1, <2>1 DEF Held
  <2>3. ReaderState' /\ NoSharing' /\ HeldInUse'
    BY <1>1, <1>2, <2>1, <2>2 DEF PoolInv, ReaderState, NoSharing, HeldInUse
  <2>4. Unheld' \subseteq Unheld
    BY <1>2, <2>2 DEF Unheld
  <2> QED
    BY <1>1, <2>3, <2>4, LosesNone DEF PoolInv
<1>5. CASE Len(queue[o]) < ObserverQueue
  <2>1. /\ queue' = [queue EXCEPT ![o] = Append(@, msg)] /\ msg' = NoMessage
        /\ DOMAIN queue = Observers
    <3>1. ~ (Len(queue[o]) >= ObserverQueue)
      BY <1>1, <1>5, PoolTypes
    <3>2. DOMAIN queue = Observers
      BY <1>1 DEF TypedState, TypeOK
    <3>3. queue' = [queue EXCEPT ![o] = Append(@, msg)] /\ msg' = NoMessage
      BY <3>1 DEF Notify
    <3> QED
      BY <3>2, <3>3
  <2>2. /\ Len(queue'[o]) = Len(queue[o]) + 1 /\ Len(queue[o]) \in Nat
        /\ \A i \in 1..Len(queue[o]) : queue'[o][i] = queue[o][i]
        /\ queue'[o][Len(queue[o]) + 1] = msg
    <3>1. queue'[o] = Append(queue[o], msg)
      BY <1>1, <2>1
    <3>2. queue[o] \in Seq(1..Len(pool)) /\ Len(queue[o]) \in Nat
      BY <1>1, PoolTypes
    <3> HIDE DEF o
    <3> QED
      BY <1>1, <3>1, <3>2, AppendProperties
  <2> HIDE DEF o
  <2>3. \A x \in Observers : x # o => queue'[x] = queue[x]
    BY <2>1
  <2>4. ASSUME NEW x \in Observers, NEW i \in 1..Len(queue'[x])
        PROVE  \/ i \in 1..Len(queue[x]) /\ queue'[x][i] = queue[x][i]
               \/ x = o /\ i = Len(queue[o]) + 1 /\ queue'[x][i] = msg
    BY <2>2, <2>3
  <2>5. ReaderState'
    <3>1. Len(queue'[o]) <= ObserverQueue
      BY <1>1, <1>5, <2>2, PoolTypes DEF o
    <3> QED
      BY <1>1, <2>3, <3>1 DEF PoolInv, ReaderState
  <2>6. NoSharing'
    <3>1. \A x, y \in Observers :
            \A i \in 1..Len(queue'[x]), j \in 1..Len(queue'[y]) :
               queue'[x][i] = queue'[y][j] => x = y /\ i = j
      BY <2>4 DEF PoolInv, NoSharing
    <3>2. \A x, y \in Observers : \A i \in 1..Len(queue'[x]) :
             queue'[x][i] # taken[y]
      <4>1. msg # NoMessage
        BY <1>1, <1>3 DEF NoMessage
      <4> QED
        BY <2>4, <4>1 DEF PoolInv, NoSharing
    <3>3. \A x \in Observers : \A i \in 1..Len(queue'[x]) :
             queue'[x][i] # NoMessage
      BY <1>1, <1>3, <2>4 DEF NoMessage
    <3> QED
      BY <1>1, <2>1, <3>1, <3>2, <3>3 DEF PoolInv, NoSharing
  <2>7. ASSUME NEW p \in 1..Len(pool) PROVE Held(p)' <=> Held(p)
    <3>1. Held(p)' => Held(p)
      BY <1>1, <1>3, <2>1, <2>4 DEF Held, NoMessage
    <3>2. ASSUME NEW x \in Observers, NEW i \in 1..Len(queue[x])
          PROVE  i \in 1..Len(queue'[x]) /\ queue'[x][i] = queue[x][i]
      BY <2>2, <2>3
    <3>3. o \in Observers /\ Len(queue[o]) + 1 \in 1..Len(queue'[o])
      BY <1>1, <2>2 DEF o
    <3>4. Held(p) => Held(p)'
      BY <1>1, <2>2, <3>2, <3>3 DEF Held
    <3> QED
      BY <3>1, <3>4
  <2>8. HeldInUse'
    BY <1>2, <2>7 DEF PoolInv, HeldInUse
  <2>9. Unheld' \subseteq Unheld
    BY <1>2, <2>7 DEF Unheld
  <2> QED
    BY <1>1, <2>5, <2>6, <2>8, <2>9, LosesNone DEF PoolInv
<1> QED
  BY <1>1, <1>4, <1>5, PoolTypes

(* One reference to message m ends and m is returned to the pool.          *)
LEMMA ReturnPool ==
  ASSUME PoolInv, NEW m \in 1..Len(pool), pool' = AfterReturn(pool, m, Null),
         queue' = queue, stops' = stops,
         \A o \in Observers : taken'[o] = taken[o] \/ taken'[o] = NoMessage,
         msg' = msg \/ msg' = NoMessage,
         ~(Held(m)'),
         \A p \in 1..Len(pool) : p # m => (Held(p)' <=> Held(p))
  PROVE  NoSharing' /\ HeldInUse' /\ FewLost'
<1>1. /\ TypedState /\ pool \in Seq(PoolEntry) /\ Len(pool) \in Nat
      /\ \A o \in Observers : \A i \in 1..Len(queue[o]) : queue[o][i] \in 1..Len(pool)
  BY PoolTypes DEF PoolInv
<1>2. /\ Len(pool') = Len(pool) /\ ~pool'[m].inUse
      /\ \A i \in 1..Len(pool) : i # m => pool'[i] = pool[i]
  BY <1>1, ReturnFrees DEF NoMessage
<1>3. NoSharing'
  BY <1>1 DEF PoolInv, NoSharing, NoMessage
<1>4. HeldInUse'
  BY <1>2 DEF PoolInv, HeldInUse
<1>5. Unheld' \subseteq Unheld
  BY <1>2 DEF Unheld
<1> QED
  BY <1>1, <1>3, <1>4, <1>5, LosesNone DEF PoolInv

(* A message that found no room in the queue is returned by the CAN task,  *)
(* its owner.                                                              *)
LEMMA ReturnUndeliveredPool ==
  ASSUME PoolInv, ReturnUndelivered
  PROVE  ReaderState' /\ NoSharing' /\ HeldInUse' /\ FewLost'
<1>1. /\ msg \in 1..Len(pool) /\ msg' = NoMessage
      /\ pool' = AfterReturn(pool, msg, Null)
      /\ UNCHANGED <<queue, taken, got, stops>>
  BY DEF PoolInv, TypedState, TypeOK, TaskState, ReturnUndelivered, readers,
     NoMessage
<1>2. PICK m \in 1..Len(pool) : m = msg
  BY <1>1
<1>3. ~(Held(m)')
  BY <1>1, <1>2 DEF PoolInv, NoSharing, Held, NoMessage
<1>4. \A p \in 1..Len(pool) : p # m => (Held(p)' <=> Held(p))
  BY <1>1, <1>2 DEF Held, NoMessage
<1>5. NoSharing' /\ HeldInUse' /\ FewLost'
  BY <1>1, <1>2, <1>3, <1>4, ReturnPool
<1>6. ReaderState'
  BY <1>1 DEF PoolInv, ReaderState
<1> QED
  BY <1>5, <1>6

(* A reader returns the message it owns.                                   *)
LEMMA ReturnMessagePool ==
  ASSUME PoolInv, NEW o \in Observers, ReturnMessage(o)
  PROVE  ReaderState' /\ NoSharing' /\ HeldInUse' /\ FewLost'
<1>1. /\ taken[o] \in 1..Len(pool)
      /\ \A x \in Observers : taken[x] \in 0..Len(pool)
      /\ msg' = msg /\ stops' = stops /\ queue' = queue
      /\ pool' = AfterReturn(pool, taken[o], Null)
      /\ \A x \in Observers : /\ taken'[x] = IF x = o THEN NoMessage ELSE taken[x]
                             /\ got'[x] = IF x = o THEN Null ELSE got[x]
  <2>1. /\ taken[o] \in 0..Len(pool) /\ taken[o] # NoMessage
        /\ Len(pool) \in Nat
        /\ \A x \in Observers : taken[x] \in 0..Len(pool)
    BY PoolTypes DEF PoolInv, ReaderState, ReturnMessage
  <2>2. DOMAIN taken = Observers /\ DOMAIN got = Observers
    BY DEF PoolInv, TypedState, TypeOK
  <2> QED
    BY <2>1, <2>2 DEF ReturnMessage, task, NoMessage
<1>2. PICK m \in 1..Len(pool) : m = taken[o]
  BY <1>1
<1>3. ~(Held(m)')
  BY <1>1, <1>2 DEF PoolInv, NoSharing, Held, NoMessage
<1>4. \A p \in 1..Len(pool) : p # m => (Held(p)' <=> Held(p))
  BY <1>1, <1>2 DEF Held, NoMessage
<1>5. NoSharing' /\ HeldInUse' /\ FewLost'
  BY <1>1, <1>2, <1>3, <1>4, ReturnPool
<1>6. ReaderState'
  BY <1>1 DEF PoolInv, ReaderState
<1> QED
  BY <1>5, <1>6

(* A reader becomes the owner of the head of its queue.                    *)
LEMMA TakeMessagePool ==
  ASSUME PoolInv, NEW o \in Observers, TakeMessage(o)
  PROVE  ReaderState' /\ NoSharing' /\ HeldInUse' /\ FewLost'
<1>1. /\ TypedState /\ taken[o] = NoMessage /\ queue[o] # <<>>
      /\ UNCHANGED <<pool, got, msg, stops>>
      /\ \A x \in Observers : /\ taken'[x] = IF x = o THEN Head(queue[o]) ELSE taken[x]
                             /\ queue'[x] = IF x = o THEN Tail(queue[o]) ELSE queue[x]
  <2>1. DOMAIN taken = Observers /\ DOMAIN queue = Observers
    BY DEF PoolInv, TypedState, TypeOK
  <2> QED
    BY <2>1 DEF PoolInv, TakeMessage, poolVars, task
<1>2. /\ Len(pool) \in Nat /\ ObserverQueue \in Nat
      /\ \A x \in Observers : /\ Len(queue[x]) \in Nat /\ taken[x] \in 0..Len(pool)
                             /\ \A i \in 1..Len(queue[x]) : queue[x][i] \in 1..Len(pool)
  BY <1>1, PoolTypes
<1>3. /\ Len(queue'[o]) = Len(queue[o]) - 1 /\ 1 \in 1..Len(queue[o])
      /\ taken'[o] = queue[o][1]
      /\ \A i \in 1..Len(queue'[o]) : queue'[o][i] = queue[o][i + 1]
  <2>1. queue[o] \in Seq(1..Len(pool))
    BY <1>1, PoolTypes
  <2>2. /\ Len(Tail(queue[o])) = Len(queue[o]) - 1
        /\ \A i \in 1..Len(Tail(queue[o])) : Tail(queue[o])[i] = queue[o][i + 1]
    BY <1>1, <2>1, HeadTailProperties
  <2>3. 1 \in 1..Len(queue[o]) /\ Head(queue[o]) = queue[o][1]
    BY <1>1, <2>1
  <2> QED
    BY <1>1, <2>2, <2>3
<1>4. ASSUME NEW x \in Observers, NEW i \in 1..Len(queue'[x])
      PROVE  /\ x = o => /\ i + 1 \in 1..Len(queue[x]) /\ i + 1 # 1
                         /\ queue'[x][i] = queue[x][i + 1]
             /\ x # o => i \in 1..Len(queue[x]) /\ queue'[x][i] = queue[x][i]
  BY <1>1, <1>2, <1>3
<1>5. ReaderState'
  <2>1. Len(queue'[o]) <= ObserverQueue
    BY <1>2, <1>3 DEF PoolInv, ReaderState
  <2>2. taken'[o] # NoMessage
    BY <1>2, <1>3 DEF NoMessage
  <2> QED
    BY <1>1, <2>1, <2>2 DEF PoolInv, ReaderState
<1>6. NoSharing'
  <2>1. ASSUME NEW x \in Observers, NEW y \in Observers,
               NEW i \in 1..Len(queue'[x]), NEW j \in 1..Len(queue'[y]),
               queue'[x][i] = queue'[y][j]
        PROVE  x = y /\ i = j
    <3>1. CASE x = o /\ y = o
      BY <1>4, <2>1, <3>1 DEF PoolInv, NoSharing
    <3>2. CASE x = o /\ y # o
      BY <1>4, <2>1, <3>2 DEF PoolInv, NoSharing
    <3>3. CASE x # o /\ y = o
      BY <1>4, <2>1, <3>3 DEF PoolInv, NoSharing
    <3>4. CASE x # o /\ y # o
      BY <1>4, <2>1, <3>4 DEF PoolInv, NoSharing
    <3> QED
      BY <3>1, <3>2, <3>3, <3>4
  <2>2. \A x, y \in Observers : \A i \in 1..Len(queue'[x]) :
           queue'[x][i] # taken'[y]
    BY <1>1, <1>3, <1>4 DEF PoolInv, NoSharing
  <2>3. \A x \in Observers : \A i \in 1..Len(queue'[x]) : queue'[x][i] # msg'
    BY <1>1, <1>4 DEF PoolInv, NoSharing
  <2>4. \A x, y \in Observers :
           taken'[x] = taken'[y] /\ taken'[x] # NoMessage => x = y
    BY <1>1, <1>3 DEF PoolInv, NoSharing
  <2>5. \A x \in Observers : taken'[x] = msg' => msg' = NoMessage
    BY <1>1, <1>3 DEF PoolInv, NoSharing
  <2> QED
    BY <2>1, <2>2, <2>3, <2>4, <2>5 DEF NoSharing
<1>7. ASSUME NEW p \in 1..Len(pool) PROVE Held(p)' <=> Held(p)
  <2>1. Held(p)' => Held(p)
    <3>1. ASSUME NEW x \in Observers, NEW i \in 1..Len(queue'[x]), queue'[x][i] = p
          PROVE  Held(p)
      BY <1>4, <3>1 DEF Held
    <3>2. ASSUME NEW x \in Observers, taken'[x] = p PROVE Held(p)
      BY <1>1, <1>3, <3>2 DEF Held
    <3>3. msg' = p => Held(p)
      BY <1>1 DEF Held
    <3> QED
      BY <3>1, <3>2, <3>3 DEF Held
  <2>2. ASSUME NEW x \in Observers, NEW i \in 1..Len(queue[x]), queue[x][i] = p
        PROVE  Held(p)'
    <3>1. CASE x # o
      BY <1>1, <2>2, <3>1 DEF Held
    <3>2. CASE x = o /\ i = 1
      BY <1>3, <2>2, <3>2 DEF Held
    <3>3. CASE x = o /\ i # 1
      <4>1. i - 1 \in 1..Len(queue'[o]) /\ queue'[o][i - 1] = p
        BY <1>2, <1>3, <2>2, <3>3
      <4> QED
        BY <4>1 DEF Held
    <3> QED
      BY <3>1, <3>2, <3>3
  <2>3. ASSUME NEW x \in Observers, taken[x] = p PROVE Held(p)'
    <3>1. x # o
      BY <1>1, <1>2, <2>3 DEF NoMessage
    <3> QED
      BY <1>1, <2>3, <3>1 DEF Held
  <2>4. msg = p => Held(p)'
    BY <1>1 DEF Held
  <2> QED
    BY <2>1, <2>2, <2>3, <2>4 DEF Held
<1>8. HeldInUse' /\ Unheld' \subseteq Unheld
  BY <1>1, <1>7 DEF PoolInv, HeldInUse, Unheld
<1> QED
  BY <1>1, <1>5, <1>6, <1>8, LosesNone DEF PoolInv

(* Copying a message changes no owner.                                     *)
LEMMA AssignMessagePool ==
  ASSUME PoolInv, NEW o \in Observers, AssignMessage(o)
  PROVE  ReaderState' /\ NoSharing' /\ HeldInUse' /\ FewLost'
<1>1. /\ UNCHANGED <<pool, queue, taken, msg, stops>>
      /\ taken[o] # NoMessage
      /\ \A x \in Observers : x # o => got'[x] = got[x]
  BY DEF AssignMessage, poolVars, task
<1>2. ReaderState'
  BY <1>1 DEF PoolInv, ReaderState
<1> QED
  BY <1>1, <1>2 DEF PoolInv, NoSharing, HeldInUse, FewLost, Unheld, Held

(* disable() may take the CAN task away with the one message it holds.     *)
LEMMA DisablePool ==
  ASSUME PoolInv, Disable
  PROVE  ReaderState' /\ NoSharing' /\ HeldInUse' /\ FewLost'
<1>1. /\ TypedState /\ UNCHANGED <<pool, queue, taken, got>>
      /\ msg' = NoMessage /\ stops' = stops + 1
  BY DEF PoolInv, Disable, poolVars, readers
<1>2. /\ Len(pool) \in Nat /\ stops \in Nat
      /\ \A x \in Observers : \A i \in 1..Len(queue[x]) : queue[x][i] \in 1..Len(pool)
  BY <1>1, PoolTypes
<1>3. ReaderState' /\ NoSharing'
  BY <1>1, <1>2 DEF PoolInv, ReaderState, NoSharing, NoMessage
<1>4. ASSUME NEW p \in 1..Len(pool)
      PROVE  (Held(p)' => Held(p)) /\ (Held(p) => Held(p)' \/ p = msg)
  BY <1>1, <1>2 DEF Held, NoMessage
<1>5. HeldInUse'
  <2>1. ASSUME NEW p \in 1..Len(pool), Held(p)' PROVE pool'[p].inUse
    <3>1. Held(p)
      BY <1>4, <2>1
    <3> QED
      BY <1>1, <3>1 DEF PoolInv, HeldInUse
  <2> QED
    BY <1>1, <2>1 DEF HeldInUse
<1>6. Unheld' \in SUBSET (Unheld \cup {msg})
  BY <1>1, <1>4 DEF Unheld
<1>7. IsFiniteSet(Unheld) /\ Cardinality(Unheld) \in Nat
  <2>1. IsFiniteSet(1..Len(pool)) /\ Unheld \in SUBSET (1..Len(pool))
    BY <1>2, FS_Interval DEF Unheld
  <2> QED
    BY <2>1, FS_Subset, FS_CardinalityType
<1>8. /\ IsFiniteSet(Unheld \cup {msg})
      /\ Cardinality(Unheld \cup {msg}) \in Nat
      /\ Cardinality(Unheld \cup {msg}) <= Cardinality(Unheld) + 1
  BY <1>7, FS_AddElement, FS_CardinalityType
<1>9. /\ Cardinality(Unheld') <= Cardinality(Unheld \cup {msg})
      /\ Cardinality(Unheld') \in Nat
  BY <1>6, <1>8, FS_Subset, FS_CardinalityType
<1>10. FewLost'
  BY <1>1, <1>2, <1>7, <1>8, <1>9 DEF PoolInv, FewLost
<1> QED
  BY <1>3, <1>5, <1>10

PoolStep == ReaderState' /\ NoSharing' /\ HeldInUse' /\ FewLost'

(* Every step keeps the invariant of the pool.                             *)
LEMMA NextPool ==
  ASSUME PoolInv, [Next]_vars
  PROVE  PoolStep
<1>1. ASSUME UNCHANGED <<pool, queue, taken, got, msg, stops>> PROVE PoolStep
  BY <1>1, PoolUnchanged DEF PoolStep
<1> USE DEF hardware, swQueues, registry, poolVars, task, readers
<1>2. CASE Peripheral
  BY <1>1, <1>2 DEF Peripheral, FrameArrives, FrameSent, BusError
<1>3. CASE HandleInterrupt
  BY <1>1, <1>3 DEF HandleInterrupt
<1>4. CASE Execute
  <2>1. CASE GetMessage
    BY <2>1, GetMessagePool DEF PoolStep
  <2>2. CASE Notify
    BY <2>2, NotifyPool DEF PoolStep
  <2>3. CASE ReturnUndelivered
    BY <2>3, ReturnUndeliveredPool DEF PoolStep
  <2>4. CASE \/ ReceiveSwMob \/ LockObservers \/ SkipSlot \/ EnterGetMessage
             \/ UnlockObservers \/ GiveBackSwMob \/ PeekAndCheckStatus
             \/ ReinitController \/ RestartController
    BY <1>1, <2>4 DEF ReceiveSwMob, LockObservers, SkipSlot, EnterGetMessage,
       UnlockObservers, GiveBackSwMob, PeekAndCheckStatus, ReinitController,
       RestartController
  <2> QED
    BY <1>4, <2>1, <2>2, <2>3, <2>4 DEF Execute
<1>5. ASSUME NEW o \in Observers, NEW filter \in Filters,
             RegisterObserver(o, filter) \/ UnregisterFilter(o, filter)
      PROVE  PoolStep
  BY <1>1, <1>5 DEF RegisterObserver, UnregisterFilter
<1>6. ASSUME NEW o \in Observers, UnregisterObserver(o) PROVE PoolStep
  BY <1>1, <1>6 DEF UnregisterObserver
<1>7. CASE Enable
  BY <1>1, <1>7 DEF Enable
<1>8. CASE Disable
  BY <1>8, DisablePool DEF PoolStep
<1>9. ASSUME NEW o \in Observers, Read(o) PROVE PoolStep
  BY <1>9, TakeMessagePool, AssignMessagePool, ReturnMessagePool DEF Read, PoolStep
<1>10. CASE UNCHANGED vars
  BY <1>1, <1>10 DEF vars
<1> QED
  BY <1>2, <1>3, <1>4, <1>5, <1>6, <1>7, <1>8, <1>9, <1>10
     DEF Next, Application, PoolStep

(* The CAN task and the readers never share a pooled message, whatever the *)
(* number of observers, the size of the pool and of the queues: a message  *)
(* that somebody may still read is not lent to anybody else.               *)
THEOREM PoolSafe == Spec => []PoolOwnership
<1>1. Init => PoolInv
  BY InitPool
<1>2. PoolInv /\ [Next]_vars => PoolInv'
  BY NextTyped, NextPool DEF PoolInv, PoolStep
<1> QED
  BY <1>1, <1>2, PoolInvImplies, PTL DEF Spec
=============================================================================
