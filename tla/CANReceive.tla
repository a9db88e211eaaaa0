----------------------------- MODULE CANReceive -----------------------------
(***************************************************************************)
(* The receive path of one CANController (CAN/CANController.cpp): the      *)
(* hardware mailboxes, the interrupt handler that copies them into the     *)
(* software message objects (swmobs), the CAN task that dispatches these   *)
(* to the registered observers through pooled CANMessage objects, the      *)
(* application tasks that read their CANObserver queue, register and       *)
(* unregister filters, and disable() and enable() of the controller.       *)
(*                                                                         *)
(* The interrupt handler preempts every task, so it is one step.  A task   *)
(* can be preempted, and the CAN task deleted by disable(), between any    *)
(* two of its steps.  A critical section of an application task is one     *)
(* step, as nothing else reads what it protects; the CAN task's critical   *)
(* sections are explicit, since disable() can delete it inside one.        *)
(***************************************************************************)
EXTENDS CANMessagePool, CANObserverList, SequencesExt

CONSTANTS
  RxMobs,         \* number of receive mailboxes, numbered from 1 (16)
  TxMobs,         \* number of transmit mailboxes, numbered after them (16)
  SwMobs,         \* the software message objects (16)
  SwQueueSize,    \* OPENSTELLA_CANCONTROLLER_QUEUESIZE (32)
  ObserverQueue,  \* queueSize of a CANObserver (10)
  Frames,         \* the frames other bus nodes send
  Id,             \* [Frames -> SUBSET Bits]: the CAN id of a frame
  Filters,        \* the (can_id, mask) pairs the application listens to
  MaxStops        \* bound: how often the application calls disable()

ASSUME CANReceiveAssumption ==
  /\ RxMobs \in Nat \ {0} /\ TxMobs \in Nat
  /\ IsFiniteSet(SwMobs) /\ Null \notin SwMobs
  /\ SwQueueSize \in Nat /\ Cardinality(SwMobs) <= SwQueueSize
  /\ ObserverQueue \in Nat \ {0}
  /\ Null \notin Frames /\ Id \in [Frames -> SUBSET Bits]
  /\ Filters \subseteq Filter
  /\ MaxStops \in Nat

VARIABLES
  \* the CAN peripheral
  mailbox,        \* contents of the receive mailboxes (NEWDAT), Null: none
  intPending,     \* the mailboxes whose interrupt is pending
  onBus,          \* the controller takes part in bus traffic
  mobsSet,        \* the receive mailboxes are configured
  busError,       \* the status register shows bus off or error passive
  \* CANController
  swmobs,         \* _swmobs: the frame held by each software object
  freeSwMobs, usedSwMobs,      \* the two index queues
  observers,      \* _observers
  observerMutex,  \* _observerMutex is taken
  pool, poolLock, \* _pool's entries, and its _lock is taken
  \* the CAN task: program counter and the locals of execute() and
  \* notifyObservers()
  pc, num, slot, msg,
  \* each observer: its _queue, and getCANMessage() in progress
  queue, taken, got,
  stops           \* calls of disable() so far

hardware == <<mailbox, intPending, onBus, mobsSet, busError>>
swQueues == <<swmobs, freeSwMobs, usedSwMobs>>
registry == <<observers, observerMutex>>
poolVars == <<pool, poolLock>>
task     == <<pc, num, slot, msg>>
readers  == <<queue, taken, got>>
vars == <<hardware, swQueues, registry, poolVars, task, readers, stops>>

RxMob == 1..RxMobs
TxMob == (RxMobs + 1)..(RxMobs + TxMobs)

Contents  == Frames \cup {Null}   \* of a mailbox, a swmob or a CANMessage
PoolEntry == [inUse : BOOLEAN, frame : Contents]

PC == {"stopped", "receive", "lock", "walk", "getMessage", "notify",
       "returnMessage", "giveBack", "peek", "recover", "reinit"}

-----------------------------------------------------------------------------
(* After the constructor and setup(): every swmob is free, the mailboxes   *)
(* are configured and the controller is on the bus, but enable() has not   *)
(* started the CAN task yet.                                               *)
Init ==
  /\ mailbox = [m \in RxMob |-> Null]
  /\ intPending = {}
  /\ onBus = TRUE /\ mobsSet = TRUE /\ busError = FALSE
  /\ swmobs = [s \in SwMobs |-> Null]
  /\ freeSwMobs \in SetToSeqs(SwMobs)
  /\ usedSwMobs = <<>>
  /\ observers = Fragment
  /\ observerMutex = FALSE
  /\ pool = <<>>
  /\ poolLock = FALSE
  /\ pc = "stopped" /\ num = Null /\ slot = 0 /\ msg = NoMessage
  /\ queue = [o \in Observers |-> <<>>]
  /\ taken = [o \in Observers |-> NoMessage]
  /\ got = [o \in Observers |-> Null]
  /\ stops = 0

-----------------------------------------------------------------------------
(* The CAN peripheral (external).  Mailboxes 1..RxMobs form one FIFO: a    *)
(* frame goes to the first mailbox without new data, and to the last one,  *)
(* the end of the FIFO, when all have new data.                            *)
FrameArrives(f) ==
  LET empty  == {m \in RxMob : mailbox[m] = Null}
      target == IF empty = {} THEN RxMobs ELSE Min(empty)
  IN  /\ onBus /\ mobsSet
      /\ mailbox' = [mailbox EXCEPT ![target] = f]
      /\ intPending' = intPending \cup {target}
      /\ UNCHANGED <<onBus, mobsSet, busError, swQueues, registry, poolVars,
                     task, readers, stops>>

(* A frame whose message object has the transmit interrupt enabled is out. *)
FrameSent(m) ==
  /\ onBus
  /\ intPending' = intPending \cup {m}
  /\ UNCHANGED <<mailbox, onBus, mobsSet, busError, swQueues, registry,
                 poolVars, task, readers, stops>>

BusError ==
  /\ onBus /\ ~busError
  /\ busError' = TRUE
  /\ UNCHANGED <<mailbox, intPending, onBus, mobsSet, swQueues, registry,
                 poolVars, task, readers, stops>>

-----------------------------------------------------------------------------
(* handleInterrupt() for a mailbox.  The cause register shows the lowest   *)
(* pending mailbox.  With a free swmob, CANMessageGet copies the mailbox   *)
(* into it, which clears new data and interrupt; the index then goes to    *)
(* the used queue for a receive mailbox and back to the free queue for a   *)
(* transmit one.  With no free swmob only the interrupt is cleared.        *)
(* sendToBackFromISR() to a full queue loses the index.                    *)
Cause == Min(intPending)

Push(q, x) == IF Len(q) < SwQueueSize THEN Append(q, x) ELSE q

FetchRx ==
  LET mobId == Head(freeSwMobs)
  IN  /\ Cause \in RxMob
      /\ swmobs' = [swmobs EXCEPT ![mobId] = mailbox[Cause]]
      /\ mailbox' = [mailbox EXCEPT ![Cause] = Null]
      /\ freeSwMobs' = Tail(freeSwMobs)
      /\ usedSwMobs' = Push(usedSwMobs, mobId)

(* Fault: the index used for a transmit mailbox is not put back.           *)
FetchTxKeeps ==
  LET mobId == Head(freeSwMobs)
  IN  /\ Cause \in TxMob
      /\ swmobs' = [swmobs EXCEPT ![mobId] = Null]
      /\ freeSwMobs' = Tail(freeSwMobs)
      /\ UNCHANGED <<mailbox, usedSwMobs>>

FetchTx ==
  LET mobId == Head(freeSwMobs)
  IN  /\ Cause \in TxMob
      /\ swmobs' = [swmobs EXCEPT ![mobId] = Null]
      /\ freeSwMobs' = Push(Tail(freeSwMobs), mobId)
      /\ UNCHANGED <<mailbox, usedSwMobs>>

HandleInterrupt ==
  /\ intPending # {}
  /\ \/ freeSwMobs # <<>> /\ FetchRx
     \/ freeSwMobs # <<>> /\ FetchTx
     \/ freeSwMobs = <<>> /\ UNCHANGED <<mailbox, swQueues>>
  /\ intPending' = intPending \ {Cause}
  /\ UNCHANGED <<onBus, mobsSet, busError, registry, poolVars, task, readers,
                 stops>>

-----------------------------------------------------------------------------
(* The CAN task: execute().                                                *)

(* _usedSwMobs.receive(&num, 0): take the next swmob or, if there is none, *)
(* send the cyclic messages (which changes nothing here) and block in      *)
(* peek().                                                                 *)
ReceiveSwMob ==
  /\ pc = "receive"
  /\ \/ /\ usedSwMobs # <<>>
        /\ num' = Head(usedSwMobs)
        /\ usedSwMobs' = Tail(usedSwMobs)
        /\ pc' = "lock"
     \/ /\ usedSwMobs = <<>>
        /\ pc' = "peek"
        /\ UNCHANGED <<num, usedSwMobs>>
  /\ UNCHANGED <<hardware, swmobs, freeSwMobs, registry, poolVars, slot, msg,
                 readers, stops>>

(* notifyObservers() takes _observerMutex and starts at the first slot.    *)
LockObservers ==
  /\ pc = "lock"
  /\ ~observerMutex
  /\ observerMutex' = TRUE
  /\ slot' = 1
  /\ pc' = "walk"
  /\ UNCHANGED <<hardware, swQueues, observers, poolVars, num, msg, readers,
                 stops>>

AtSlot == pc = "walk" /\ slot \in 1..Len(observers)

Matching(entry, f) == entry.observer # Null /\ Accepts(entry.filter, Id[f])

(* An empty or non-matching slot is passed over.                           *)
SkipSlot ==
  /\ AtSlot
  /\ ~Matching(observers[slot], swmobs[num])
  /\ slot' = slot + 1
  /\ UNCHANGED <<hardware, swQueues, registry, poolVars, pc, num, msg,
                 readers, stops>>

(* A match: _pool.getMessage() takes the pool's lock ...                   *)
EnterGetMessage ==
  /\ AtSlot
  /\ Matching(observers[slot], swmobs[num])
  /\ ~poolLock
  /\ poolLock' = TRUE
  /\ pc' = "getMessage"
  /\ UNCHANGED <<hardware, swQueues, registry, pool, num, slot, msg, readers,
                 stops>>

(* ... and returns a message, or null when the pool is exhausted: then the *)
(* frame is dropped for this slot.                                         *)
GetMessage ==
  /\ pc = "getMessage"
  /\ pool' = AfterGet(pool, Null)
  /\ poolLock' = FALSE
  /\ msg' = Lent(pool)
  /\ IF Lent(pool) # NoMessage
     THEN pc' = "notify" /\ UNCHANGED slot
     ELSE pc' = "walk" /\ slot' = slot + 1
  /\ UNCHANGED <<hardware, swQueues, registry, num, readers, stops>>

(* Fault: the result of notifyCANMessage() is ignored.                     *)
NotifyIgnoresFullQueue ==
  LET o == observers[slot].observer
  IN  /\ pc = "notify"
      /\ pool' = [pool EXCEPT ![msg].frame = swmobs[num]]
      /\ queue' = [queue EXCEPT ![o] =
                     IF Len(@) < ObserverQueue THEN Append(@, msg) ELSE @]
      /\ msg' = NoMessage
      /\ slot' = slot + 1
      /\ pc' = "walk"
      /\ UNCHANGED <<hardware, swQueues, registry, poolLock, num, taken, got,
                     stops>>

(* The message is filled from the swmob and put into the observer's queue  *)
(* without waiting; if the queue is full it goes back to the pool.         *)
Notify ==
  LET o == observers[slot].observer
  IN  /\ pc = "notify"
      /\ pool' = [pool EXCEPT ![msg].frame = swmobs[num]]
      /\ \/ /\ Len(queue[o]) < ObserverQueue
            /\ queue' = [queue EXCEPT ![o] = Append(@, msg)]
            /\ msg' = NoMessage
            /\ slot' = slot + 1
            /\ pc' = "walk"
            /\ UNCHANGED poolLock
         \/ /\ Len(queue[o]) >= ObserverQueue
            /\ ~poolLock
            /\ poolLock' = TRUE
            /\ pc' = "returnMessage"
            /\ UNCHANGED <<queue, msg, slot>>
      /\ UNCHANGED <<hardware, swQueues, registry, num, taken, got, stops>>

ReturnUndelivered ==
  /\ pc = "returnMessage"
  /\ pool' = AfterReturn(pool, msg, Null)
  /\ poolLock' = FALSE
  /\ msg' = NoMessage
  /\ slot' = slot + 1
  /\ pc' = "walk"
  /\ UNCHANGED <<hardware, swQueues, registry, num, readers, stops>>

(* Fault: notifyObservers() returns without giving the mutex back.         *)
LeaveObserversLocked ==
  /\ pc = "walk"
  /\ slot > Len(observers)
  /\ slot' = 0
  /\ pc' = "giveBack"
  /\ UNCHANGED <<hardware, swQueues, registry, poolVars, num, msg, readers,
                 stops>>

(* The end of the list: notifyObservers() returns, releasing the mutex.    *)
UnlockObservers ==
  /\ pc = "walk"
  /\ slot > Len(observers)
  /\ observerMutex' = FALSE
  /\ slot' = 0
  /\ pc' = "giveBack"
  /\ UNCHANGED <<hardware, swQueues, observers, poolVars, num, msg, readers,
                 stops>>

(* _freeSwMobs.sendToBack(num) waits for ever while the queue is full.     *)
(* The contents of a free swmob are of no interest and forgotten.          *)
GiveBackSwMob ==
  /\ pc = "giveBack"
  /\ Len(freeSwMobs) < SwQueueSize
  /\ freeSwMobs' = Append(freeSwMobs, num)
  /\ swmobs' = [swmobs EXCEPT ![num] = Null]
  /\ num' = Null
  /\ pc' = "receive"
  /\ UNCHANGED <<hardware, usedSwMobs, registry, poolVars, slot, msg,
                 readers, stops>>

(* peek() ends with a waiting index or by its timeout, then the status     *)
(* register is read: on a bus error the controller is taken off the bus    *)
(* for the recovery.                                                       *)
PeekAndCheckStatus ==
  /\ pc = "peek"
  /\ \/ ~busError /\ pc' = "receive" /\ UNCHANGED onBus
     \/ busError /\ pc' = "recover" /\ onBus' = FALSE
  /\ UNCHANGED <<mailbox, intPending, mobsSet, busError, swQueues, registry,
                 poolVars, num, slot, msg, readers, stops>>

(* CANInit clears every mailbox and all that is pending ...                *)
ReinitController ==
  /\ pc = "recover"
  /\ mailbox' = [m \in RxMob |-> Null]
  /\ intPending' = {}
  /\ mobsSet' = FALSE
  /\ busError' = FALSE
  /\ pc' = "reinit"
  /\ UNCHANGED <<onBus, swQueues, registry, poolVars, num, slot, msg, readers,
                 stops>>

(* ... then the receive mailboxes are set again and CANEnable follows.     *)
RestartController ==
  /\ pc = "reinit"
  /\ mobsSet' = TRUE
  /\ onBus' = TRUE
  /\ pc' = "receive"
  /\ UNCHANGED <<mailbox, intPending, busError, swQueues, registry, poolVars,
                 num, slot, msg, readers, stops>>

Execute ==
  \/ ReceiveSwMob \/ LockObservers \/ SkipSlot \/ EnterGetMessage
  \/ GetMessage \/ Notify \/ ReturnUndelivered \/ UnlockObservers
  \/ GiveBackSwMob \/ PeekAndCheckStatus \/ ReinitController
  \/ RestartController

-----------------------------------------------------------------------------
(* An application task in CANObserver::getCANMessage(): the pointer is     *)
(* received, the message assigned to the caller's, the pooled one returned.*)
TakeMessage(o) ==
  /\ taken[o] = NoMessage
  /\ queue[o] # <<>>
  /\ taken' = [taken EXCEPT ![o] = Head(queue[o])]
  /\ queue' = [queue EXCEPT ![o] = Tail(@)]
  /\ UNCHANGED <<hardware, swQueues, registry, poolVars, task, got, stops>>

AssignMessage(o) ==
  /\ taken[o] # NoMessage
  /\ got[o] = Null
  /\ got' = [got EXCEPT ![o] = pool[taken[o]].frame]
  /\ UNCHANGED <<hardware, swQueues, registry, poolVars, task, queue, taken,
                 stops>>

ReturnMessage(o) ==
  /\ got[o] # Null
  /\ ~poolLock
  /\ pool' = AfterReturn(pool, taken[o], Null)
  /\ taken' = [taken EXCEPT ![o] = NoMessage]
  /\ got' = [got EXCEPT ![o] = Null]
  /\ UNCHANGED <<hardware, swQueues, registry, poolLock, task, queue, stops>>

Read(o) == TakeMessage(o) \/ AssignMessage(o) \/ ReturnMessage(o)

-----------------------------------------------------------------------------
(* registerObserver() and unregisterObserver(), under _observerMutex.      *)
RegisterObserver(o, filter) ==
  /\ ~observerMutex
  /\ observers' = Registered(observers, o, filter)
  /\ UNCHANGED <<hardware, swQueues, observerMutex, poolVars, task, readers,
                 stops>>

(* Fault: unregisterObserver() without its MutexGuard.                     *)
UnregisterUnguarded(o) ==
  /\ observers' = Unregistered(observers, o)
  /\ UNCHANGED <<hardware, swQueues, observerMutex, poolVars, task, readers,
                 stops>>

UnregisterObserver(o) ==
  /\ ~observerMutex
  /\ observers' = Unregistered(observers, o)
  /\ UNCHANGED <<hardware, swQueues, observerMutex, poolVars, task, readers,
                 stops>>

UnregisterFilter(o, filter) ==
  /\ ~observerMutex
  /\ observers' = UnregisteredFilter(observers, o, filter)
  /\ UNCHANGED <<hardware, swQueues, observerMutex, poolVars, task, readers,
                 stops>>

(* enable(): CANEnable, then run() starts the task at execute().           *)
Enable ==
  /\ pc = "stopped"
  /\ onBus' = TRUE
  /\ pc' = "receive"
  /\ UNCHANGED <<mailbox, intPending, mobsSet, busError, swQueues, registry,
                 poolVars, num, slot, msg, readers, stops>>

(* disable(): the task is deleted wherever it is, its locals are gone and  *)
(* what it has locked stays locked; then CANDisable.                       *)
Disable ==
  /\ pc # "stopped"
  /\ stops < MaxStops
  /\ stops' = stops + 1
  /\ onBus' = FALSE
  /\ pc' = "stopped" /\ num' = Null /\ slot' = 0 /\ msg' = NoMessage
  /\ UNCHANGED <<mailbox, intPending, mobsSet, busError, swQueues, registry,
                 poolVars, readers>>

-----------------------------------------------------------------------------
Peripheral ==
  \/ \E f \in Frames : FrameArrives(f)
  \/ \E m \in TxMob : FrameSent(m)
  \/ BusError

Application ==
  \/ \E o \in Observers, filter \in Filters :
        RegisterObserver(o, filter) \/ UnregisterFilter(o, filter)
  \/ \E o \in Observers : UnregisterObserver(o)
  \/ Enable \/ Disable

Next ==
  \/ Peripheral \/ HandleInterrupt \/ Execute \/ Application
  \/ \E o \in Observers : Read(o)

Spec == Init /\ [][Next]_vars

(* The interrupt controller delivers what is pending, and the scheduler    *)
(* gives every ready task time: the CAN task and the reading tasks.        *)
Fairness ==
  /\ WF_vars(HandleInterrupt)
  /\ WF_vars(Execute)
  /\ \A o \in Observers : WF_vars(Read(o))

FairSpec == Spec /\ Fairness

-----------------------------------------------------------------------------
TypeOK ==
  /\ mailbox \in [RxMob -> Contents]
  /\ intPending \subseteq RxMob \cup TxMob
  /\ onBus \in BOOLEAN /\ mobsSet \in BOOLEAN /\ busError \in BOOLEAN
  /\ swmobs \in [SwMobs -> Contents]
  /\ freeSwMobs \in Seq(SwMobs) /\ usedSwMobs \in Seq(SwMobs)
  /\ observers \in Seq(Slot)
  /\ observerMutex \in BOOLEAN
  /\ pool \in Seq(PoolEntry)
  /\ Len(pool) <= PoolSize
  /\ poolLock \in BOOLEAN
  /\ pc \in PC /\ num \in SwMobs \cup {Null}
  /\ slot \in Nat /\ msg \in 0..Len(pool)
  /\ queue \in [Observers -> Seq(1..Len(pool))]
  /\ taken \in [Observers -> 0..Len(pool)]
  /\ got \in [Observers -> Contents]
  /\ stops \in 0..MaxStops

(* What the CAN task's locals and locks are at each point of execute(): a  *)
(* swmob from receive() to sendToBack(), _observerMutex inside             *)
(* notifyObservers(), a message from getMessage() until it is in a queue   *)
(* or returned, the pool's lock inside getMessage() and returnMessage().   *)
TaskState ==
  /\ num # Null <=> pc \in {"lock", "walk", "getMessage", "notify",
                            "returnMessage", "giveBack"}
  /\ pc \in {"walk", "getMessage", "notify", "returnMessage"} => observerMutex
  /\ msg # NoMessage <=> pc \in {"notify", "returnMessage"}
  /\ pc \in {"getMessage", "notify", "returnMessage"} =>
       /\ slot \in 1..Len(observers)
       /\ observers[slot].observer \in Observers
  /\ pc \in {"getMessage", "returnMessage"} => poolLock

(* The index the CAN task holds between receive() and sendToBack().        *)
InHand == {num} \ {Null}

LostSwMobs == SwMobs \ (ToSet(freeSwMobs) \cup ToSet(usedSwMobs) \cup InHand)

(* No software message object is ever in two places: the interrupt handler *)
(* must not fetch into one that waits or is being dispatched, and none is  *)
(* lost but the ones a disable() took away, one at most each time.         *)
SwMobsConserved ==
  /\ IsInjective(freeSwMobs) /\ IsInjective(usedSwMobs)
  /\ ToSet(freeSwMobs) \cap ToSet(usedSwMobs) = {}
  /\ InHand \cap (ToSet(freeSwMobs) \cup ToSet(usedSwMobs)) = {}
  /\ Cardinality(LostSwMobs) <= stops

(* Who refers to a pooled message: a position of an observer's queue, a    *)
(* reader (position 0), the CAN task.                                      *)
Owners(p) ==
  {w \in Observers \X (1..ObserverQueue) :
      w[2] <= Len(queue[w[1]]) /\ queue[w[1]][w[2]] = p}
  \cup {w \in Observers \X {0} : taken[w[1]] = p}
  \cup (IF msg = p THEN {<<Null, 0>>} ELSE {})

LostMessages == {p \in 1..Len(pool) : pool[p].inUse /\ Owners(p) = {}}

(* A pooled message has one owner at most, an owned one is in use, so it   *)
(* is not lent again while somebody may read it, and a message in use that *)
(* nobody owns was lost to a disable().                                    *)
PoolOwnership ==
  /\ \A p \in 1..Len(pool) : \A x, y \in Owners(p) : x = y
  /\ \A p \in 1..Len(pool) : Owners(p) # {} => pool[p].inUse
  /\ Cardinality(LostMessages) <= stops

(* A reader that has assigned a message still refers to the pooled one,    *)
(* and no queue is longer than it was created.                             *)
ReaderState ==
  \A o \in Observers :
    /\ Len(queue[o]) <= ObserverQueue
    /\ got[o] # Null => taken[o] # NoMessage

(* A frame fetched for a CAN task that runs is dispatched, so that its     *)
(* object is free for the interrupt handler again, unless the application  *)
(* calls disable().                                                        *)
FetchedIsDispatched ==
  \A s \in SwMobs :
    (pc # "stopped" /\ s \in ToSet(usedSwMobs))
       ~> (s \in ToSet(freeSwMobs) \/ stops > 0)

(* CANController.h: enable() enables the controller and starts its task.   *)
(* So a fetched frame is dispatched while the task is not stopped, also    *)
(* when it has been stopped and started before.                            *)
EnabledTaskDispatches ==
  \A s \in SwMobs :
    (pc # "stopped" /\ s \in ToSet(usedSwMobs))
       ~> (s \in ToSet(freeSwMobs) \/ pc = "stopped")

(* CANObserver.h: an observer can listen to all CAN messages of a channel. *)
(* So a mailbox with unread data still has its interrupt pending: nothing  *)
(* else makes the controller read it, and a mailbox of the FIFO takes no   *)
(* new frame before it is read.                                            *)
NoForgottenMailbox == \A m \in RxMob : mailbox[m] # Null => m \in intPending
=============================================================================
