------------------------------- MODULE CANSend -------------------------------
(***************************************************************************)
(* The transmit side of one CANController (CAN/CANController.cpp): tasks   *)
(* in sendMessage(), which share the transmit mailboxes under              *)
(* _sendMessageMutex; the CAN task, which sends the due cyclic messages    *)
(* and takes the controller through the recovery from a bus error; the     *)
(* application, which registers, changes and enables cyclic messages,      *)
(* silences the controller, and disables and enables it.                   *)
(*                                                                         *)
(* Receiving (CANReceive) shares only the CAN task with this, and changes  *)
(* nothing here.  A task can be preempted between any two of its steps,    *)
(* and the CAN task deleted by disable().  A critical section of an        *)
(* application task that nothing can see half done is one step.  Of a      *)
(* frame, only the sender is modelled.                                     *)
(***************************************************************************)
EXTENDS FragmentedList, Integers

CONSTANTS
  Senders,        \* the application tasks that call sendMessage()
  Can,            \* the CAN task
  TxMobs,         \* number of transmit mailboxes (16)
  WaitTimes,      \* what the application gives setTimeToWaitForFreeMob()
  DefaultWait,    \* 100
  TryWrap,        \* 2^8, the range of findFreeSendingMOB()'s counter
  Items,          \* the CANCyclicMessage objects
  Offset,         \* [Items -> Nat]
  Intervals,      \* the intervals the application uses
  TimeWrap,       \* getTime() is below 2^30: a quarter of the tick count
  WordWrap,       \* 2^32, the range of _timestamp_next_send
  LastTime,       \* bound: time stops here (TimeWrap: never)
  MaxSlots,       \* bound on the length of the list of cyclic messages
  CountCap,       \* bound: sends are counted up to this number
  MaxStops        \* bound: how often the application calls disable()

ASSUME CANSendAssumption ==
  /\ Can \notin Senders /\ NoItem \notin Items \cup Senders \cup {Can}
  /\ Items \cap (Senders \cup {Can}) = {}
  /\ TxMobs \in Nat \ {0}
  /\ WaitTimes \subseteq Nat /\ DefaultWait \in Nat /\ TryWrap \in Nat \ {0}
  /\ TimeWrap \in Nat \ {0} /\ WordWrap \in Nat /\ WordWrap >= TimeWrap
  /\ Offset \in [Items -> 0..(WordWrap - 1)]
  /\ Intervals \subseteq Nat \ {0}
  /\ LastTime \in Nat /\ MaxSlots \in Nat /\ CountCap \in Nat
  /\ MaxStops \in Nat

VARIABLES
  \* the CAN peripheral and the clock
  txRequest,      \* the transmit mailboxes: whose frame is requested, or NoItem
  onBus, busError,
  now,            \* getTime()
  \* CANController
  silent,         \* _silent
  timeToWait,     \* _timeToWaitForFreeMob
  sendMutex,      \* the task that holds _sendMessageMutex, or NoItem
  cyclic,         \* _cyclicMessages
  cyclicLock,     \* the CAN task holds the list's lock
  \* each task in sendMessage(): program counter, counter, mailbox
  spc, tries, mob,
  \* the CAN task: program counter and locals
  cpc, passTime, at, saved,
  \* the cyclic messages: _enabled, _interval, _timestamp_next_send
  enabled, interval, next,
  \* history: what the application last asked of setSilent(), how often each
  \* cyclic message was put into a mailbox, calls of disable()
  wish, sends, stops

hardware == <<txRequest, onBus, busError>>
sending  == <<sendMutex, spc, tries, mob>>
canTask  == <<cpc, passTime, at, saved>>
items    == <<enabled, interval, next>>
list     == <<cyclic, cyclicLock>>
history  == <<wish, sends, stops>>
vars == <<hardware, now, timeToWait, silent, sending, canTask, items, list, history>>

Tasks == Senders \cup {Can}
TxMob == 1..TxMobs

(* The steps of sendMessage() and of execute() a task can be preempted at. *)
SPC == {"idle", "poll", "set"}
CPC == {"stopped", "peek", "walk", "send", "sending", "advance", "status",
        "reinit", "restart", "settle"}
InItem == {"send", "sending", "advance"}
InPass == InItem \cup {"walk"}
InRecovery == {"reinit", "restart", "settle"}

TypeOK ==
  /\ txRequest \in [TxMob -> Senders \cup Items \cup {NoItem}]
  /\ onBus \in BOOLEAN /\ busError \in BOOLEAN
  /\ now \in 0..(TimeWrap - 1)
  /\ silent \in BOOLEAN
  /\ timeToWait \in WaitTimes \cup {DefaultWait}
  /\ sendMutex \in Tasks \cup {NoItem}
  /\ cyclic \in Seq(Items \cup {NoItem}) /\ cyclicLock \in BOOLEAN
  /\ spc \in [Tasks -> SPC]
  /\ tries \in [Tasks -> 0..(TryWrap - 1)]
  /\ mob \in [Tasks -> 0..TxMobs]
  /\ cpc \in CPC
  /\ passTime \in 0..(TimeWrap - 1)
  /\ at \in 0..(Len(cyclic) + 1)
  /\ saved \in BOOLEAN
  /\ enabled \in [Items -> BOOLEAN]
  /\ interval \in [Items -> Intervals]
  /\ next \in [Items -> 0..(WordWrap - 1)]
  /\ wish \in BOOLEAN /\ sends \in [Items -> 0..CountCap]
  /\ stops \in 0..MaxStops

-----------------------------------------------------------------------------
(* After setup() and the construction of the cyclic messages at time 0.    *)
Init ==
  /\ txRequest = [m \in TxMob |-> NoItem]
  /\ onBus = TRUE /\ busError = FALSE
  /\ now = 0
  /\ silent = FALSE
  /\ timeToWait = DefaultWait
  /\ sendMutex = NoItem
  /\ cyclic = <<>> /\ cyclicLock = FALSE
  /\ spc = [t \in Tasks |-> "idle"]
  /\ tries = [t \in Tasks |-> 0]
  /\ mob = [t \in Tasks |-> 0]
  /\ cpc = "stopped" /\ passTime = 0 /\ at = 0 /\ saved = FALSE
  /\ enabled = [c \in Items |-> TRUE]
  /\ interval \in [Items -> Intervals]
  /\ next = Offset
  /\ wish = FALSE /\ sends = [c \in Items |-> 0] /\ stops = 0

-----------------------------------------------------------------------------
(* The peripheral (external): of the requested mailboxes the one with the  *)
(* lowest number is sent first.  A frame on the bus needs an acknowledge,  *)
(* so a mailbox may stay requested for any time.                           *)
Transmit ==
  LET requested == {m \in TxMob : txRequest[m] # NoItem}
  IN  /\ onBus
      /\ requested # {}
      /\ txRequest' = [txRequest EXCEPT ![Min(requested)] = NoItem]
      /\ UNCHANGED <<onBus, busError, now, timeToWait, silent, sending, canTask, items,
                     list, history>>

BusError ==
  /\ onBus /\ ~busError
  /\ busError' = TRUE
  /\ UNCHANGED <<txRequest, onBus, now, timeToWait, silent, sending, canTask, items,
                 list, history>>

Tick ==
  /\ now # LastTime
  /\ now' = (now + 1) % TimeWrap
  /\ UNCHANGED <<hardware, timeToWait, silent, sending, canTask, items, list, history>>

-----------------------------------------------------------------------------
(* sendMessage() by task t.                                                *)

(* The mutex is taken and _silent read: a silent controller drops the      *)
(* message and reports success, which changes nothing.                     *)
EnterSend(t) ==
  /\ spc[t] = "idle"
  /\ sendMutex = NoItem
  /\ ~silent
  /\ sendMutex' = t
  /\ spc' = [spc EXCEPT ![t] = "poll"]
  /\ UNCHANGED <<tries, mob>>

(* The requested mailboxes are read, and the highest one that is free is   *)
(* taken.                                                                  *)
ChooseFree(t) ==
  LET free == {m \in TxMob : txRequest[m] = NoItem}
  IN  /\ spc[t] = "poll"
      /\ free # {}
      /\ mob' = [mob EXCEPT ![t] = Max(free)]
      /\ spc' = [spc EXCEPT ![t] = "set"]
      /\ UNCHANGED tries

(* Fault: the mutex covers only the search.                                *)
FindFreeThenUnlock(t) == ChooseFree(t) /\ sendMutex' = NoItem

FindFree(t) == ChooseFree(t) /\ UNCHANGED sendMutex

AllRequested == \A m \in TxMob : txRequest[m] # NoItem
NextTry(t) == (tries[t] + 1) % TryWrap

(* Fault: the number of tries is not limited.                              *)
TryAgainForever(t) ==
  /\ spc[t] = "poll" /\ AllRequested
  /\ tries' = [tries EXCEPT ![t] = @ + 1]
  /\ UNCHANGED <<sendMutex, spc, mob>>

(* There is none: after a delay the next try, by a counter of 8 bits ...   *)
TryAgain(t) ==
  /\ spc[t] = "poll" /\ AllRequested
  /\ NextTry(t) <= timeToWait
  /\ tries' = [tries EXCEPT ![t] = NextTry(t)]
  /\ UNCHANGED <<sendMutex, spc, mob>>

Leave(t) ==
  /\ sendMutex' = NoItem
  /\ spc' = [spc EXCEPT ![t] = "idle"]
  /\ tries' = [tries EXCEPT ![t] = 0]
  /\ mob' = [mob EXCEPT ![t] = 0]

(* ... or, after the last one, sendMessage() returns false.                *)
GiveUp(t) ==
  /\ spc[t] = "poll" /\ AllRequested
  /\ NextTry(t) > timeToWait
  /\ Leave(t)

(* CANMessageSet requests the mailbox.                                     *)
SetMailbox(t, from) ==
  /\ spc[t] = "set"
  /\ txRequest' = [txRequest EXCEPT ![mob[t]] = from]
  /\ Leave(t)

(* An application task sends a message of its own.                         *)
AppSend(t) ==
  /\ \/ /\ EnterSend(t) \/ FindFree(t) \/ TryAgain(t) \/ GiveUp(t)
        /\ UNCHANGED txRequest
     \/ SetMailbox(t, t)
  /\ UNCHANGED <<onBus, busError, now, timeToWait, silent, canTask, items, list, history>>

-----------------------------------------------------------------------------
(* The CAN task: execute() between two drains of the receive queue.        *)

(* sendCyclicCANMessages() locks the list and reads the time.              *)
StartPass ==
  /\ cpc = "peek"
  /\ ~cyclicLock
  /\ cyclicLock' = TRUE
  /\ passTime' = now
  /\ at' = 1
  /\ cpc' = "walk"
  /\ UNCHANGED <<hardware, now, timeToWait, silent, sending, saved, items, cyclic, history>>

Item == cyclic[at]
Due(c) == next[c] <= passTime

NextSlot == at + 1

(* An empty slot or a disabled message is skipped, one that is due sent.   *)
VisitSlot ==
  /\ cpc = "walk" /\ at <= Len(cyclic)
  /\ \/ /\ IF Item = NoItem THEN TRUE ELSE ~enabled[Item]
        /\ at' = NextSlot
        /\ UNCHANGED cpc
     \/ /\ IF Item = NoItem THEN FALSE ELSE enabled[Item]
        /\ cpc' = IF Due(Item) THEN "send" ELSE "advance"
        /\ UNCHANGED at
  /\ UNCHANGED <<hardware, now, timeToWait, silent, sending, passTime, saved, items, list,
                 history>>

(* send() looks at _enabled again, and sendMessage() at _silent.           *)
StartItem ==
  /\ cpc = "send"
  /\ \/ /\ enabled[Item]
        /\ EnterSend(Can)
        /\ cpc' = "sending"
     \/ /\ ~enabled[Item] \/ (sendMutex = NoItem /\ silent)
        /\ cpc' = "advance"
        /\ UNCHANGED sending
  /\ UNCHANGED <<hardware, now, timeToWait, silent, passTime, at, saved, items, list,
                 history>>

SendItem ==
  /\ cpc = "sending"
  /\ \/ /\ FindFree(Can) \/ TryAgain(Can)
        /\ UNCHANGED <<txRequest, sends, cpc>>
     \/ /\ GiveUp(Can)
        /\ cpc' = "advance"
        /\ UNCHANGED <<txRequest, sends>>
     \/ /\ SetMailbox(Can, Item)
        /\ cpc' = "advance"
        /\ sends' = [sends EXCEPT ![Item] = IF @ < CountCap THEN @ + 1 ELSE @]
  /\ UNCHANGED <<onBus, busError, now, timeToWait, silent, passTime, at, saved, items, list,
                 wish, stops>>

(* Fault: the next time is taken from the time of the pass.                *)
AdvancedFromPass(c) == (passTime + 1) % WordWrap

Advanced(c) == (next[c] + interval[c]) % WordWrap

(* while (next <= now) next += interval, in 32 bits, one round a step; a   *)
(* message that is not due is passed.                                      *)
AdvanceItem ==
  /\ cpc = "advance"
  /\ \/ /\ Due(Item)
        /\ next' = [next EXCEPT ![Item] = Advanced(Item)]
        /\ UNCHANGED <<cpc, at>>
     \/ /\ ~Due(Item)
        /\ cpc' = "walk"
        /\ at' = NextSlot
        /\ UNCHANGED next
  /\ UNCHANGED <<hardware, now, timeToWait, silent, sending, passTime, saved, enabled,
                 interval, list, history>>

(* The end of the list; peek() ends with a received message or a timeout.  *)
EndPass ==
  /\ cpc = "walk" /\ at > Len(cyclic)
  /\ cyclicLock' = FALSE
  /\ at' = 0
  /\ passTime' = 0
  /\ cpc' = "status"
  /\ UNCHANGED <<hardware, now, timeToWait, silent, sending, saved, items, cyclic, history>>

(* On a bus error the controller is silenced and taken off the bus.        *)
CheckStatus ==
  /\ cpc = "status"
  /\ \/ ~busError /\ cpc' = "peek" /\ UNCHANGED <<silent, saved, onBus>>
     \/ /\ busError
        /\ saved' = silent
        /\ silent' = TRUE
        /\ onBus' = FALSE
        /\ cpc' = "reinit"
  /\ UNCHANGED <<txRequest, busError, now, timeToWait, sending, passTime, at, items, list,
                 history>>

(* CANInit clears every mailbox, ...                                       *)
ReinitController ==
  /\ cpc = "reinit"
  /\ txRequest' = [m \in TxMob |-> NoItem]
  /\ busError' = FALSE
  /\ cpc' = "restart"
  /\ UNCHANGED <<onBus, now, timeToWait, silent, sending, passTime, at, saved, items, list,
                 history>>

(* ... CANEnable takes it back to the bus, ...                             *)
RestartController ==
  /\ cpc = "restart"
  /\ onBus' = TRUE
  /\ cpc' = "settle"
  /\ UNCHANGED <<txRequest, busError, now, timeToWait, silent, sending, passTime, at,
                 saved, items, list, history>>

(* ... and after a delay _silent is what it was before.                    *)
Settle ==
  /\ cpc = "settle"
  /\ silent' = saved
  /\ saved' = FALSE
  /\ cpc' = "peek"
  /\ UNCHANGED <<hardware, now, timeToWait, sending, passTime, at, items, list, history>>

Execute ==
  \/ StartPass \/ VisitSlot \/ StartItem \/ SendItem \/ AdvanceItem \/ EndPass
  \/ CheckStatus \/ ReinitController \/ RestartController \/ Settle

-----------------------------------------------------------------------------
(* The application.                                                        *)
SetSilent(b) ==
  /\ silent' = b /\ wish' = b
  /\ UNCHANGED <<hardware, now, timeToWait, sending, canTask, items, list, sends, stops>>

SetTimeToWaitForFreeMob(ms) ==
  /\ timeToWait' = ms
  /\ UNCHANGED <<hardware, now, silent, sending, canTask, items, list, history>>

RegisterCyclic(c) ==
  /\ ~cyclicLock
  /\ Len(Added(cyclic, c)) <= MaxSlots
  /\ cyclic' = Added(cyclic, c)
  /\ UNCHANGED <<hardware, now, timeToWait, silent, sending, canTask, items, cyclicLock,
                 history>>

(* Fault: the list is changed without its lock.                            *)
UnregisterUnlocked(c) ==
  /\ cyclic' = Removed(cyclic, c)
  /\ UNCHANGED <<hardware, now, timeToWait, silent, sending, canTask, items, cyclicLock,
                 history>>

UnregisterCyclic(c) ==
  /\ ~cyclicLock
  /\ cyclic' = Removed(cyclic, c)
  /\ UNCHANGED <<hardware, now, timeToWait, silent, sending, canTask, items, cyclicLock,
                 history>>

EnableCyclic(c, b) ==
  /\ enabled' = [enabled EXCEPT ![c] = b]
  /\ UNCHANGED <<hardware, now, timeToWait, silent, sending, canTask, interval, next, list,
                 history>>

(* setInterval() runs under the message's own _lock, which the CAN task    *)
(* does not take.                                                          *)
SetInterval(c, i) ==
  /\ interval' = [interval EXCEPT ![c] = i]
  /\ UNCHANGED <<hardware, now, timeToWait, silent, sending, canTask, enabled, next, list,
                 history>>

Enable ==
  /\ cpc = "stopped"
  /\ onBus' = TRUE
  /\ cpc' = "peek"
  /\ UNCHANGED <<txRequest, busError, now, timeToWait, silent, sending, passTime, at,
                 saved, items, list, history>>

(* disable() deletes the CAN task wherever it is; what it holds stays      *)
(* taken, and _silent as it is.                                            *)
Disable ==
  /\ cpc # "stopped"
  /\ stops < MaxStops
  /\ stops' = stops + 1
  /\ onBus' = FALSE
  /\ cpc' = "stopped" /\ passTime' = 0 /\ at' = 0 /\ saved' = FALSE
  /\ spc' = [spc EXCEPT ![Can] = "idle"]
  /\ tries' = [tries EXCEPT ![Can] = 0]
  /\ mob' = [mob EXCEPT ![Can] = 0]
  /\ UNCHANGED <<txRequest, busError, now, timeToWait, silent, sendMutex, items, list,
                 wish, sends>>

Application ==
  \/ \E b \in BOOLEAN : SetSilent(b)
  \/ \E ms \in WaitTimes : SetTimeToWaitForFreeMob(ms)
  \/ \E c \in Items :
       \/ RegisterCyclic(c) \/ UnregisterCyclic(c)
       \/ \E b \in BOOLEAN : EnableCyclic(c, b)
       \/ \E i \in Intervals : SetInterval(c, i)
  \/ Enable \/ Disable

Next ==
  \/ Transmit \/ BusError \/ Tick
  \/ \E t \in Senders : AppSend(t)
  \/ Execute
  \/ Application

Spec == Init /\ [][Next]_vars

(* Time passes, and the scheduler gives every ready task time.             *)
Fairness ==
  /\ WF_vars(Tick)
  /\ WF_vars(Execute)
  /\ \A t \in Senders : WF_vars(AppSend(t))

FairSpec == Spec /\ Fairness

-----------------------------------------------------------------------------
(* The mailbox a task has found free is still free when it is set, and no  *)
(* other task is choosing one: findFreeSendingMOB() and CANMessageSet are  *)
(* one critical section, also across the deletion of the CAN task and the  *)
(* re-initialisation of the controller.                                    *)
MobExclusive ==
  \A t \in Tasks :
    /\ spc[t] = "set" => mob[t] \in TxMob /\ txRequest[mob[t]] = NoItem
    /\ spc[t] # "idle" => \A u \in Tasks \ {t} : spc[u] = "idle"

(* While the CAN task works on a cyclic message, whose pointer it holds,   *)
(* the message stays registered: once unregisterCyclicMessage() has        *)
(* returned, the application may destroy it.                               *)
ItemStaysRegistered == cpc \in InItem => at \in 1..Len(cyclic) /\ Item \in Items

(* A cyclic message never goes out faster than its interval allows,        *)
(* however late a pass is, however often the message is registered and     *)
(* whenever its interval is changed: the k-th frame is not requested       *)
(* before offset + (k-1) times the shortest interval.                      *)
CyclicRate ==
  \A c \in Items :
    sends[c] > 0 => now >= Offset[c] + (sends[c] - 1) * Min(Intervals)

(* "set time to wait for a free MOB in sendMessage() if message buffers    *)
(* are full" (CANController.h:157): sendMessage() does not wait for ever,  *)
(* whatever time is set.                                                   *)
SendReturns == \A t \in Tasks : spc[t] = "poll" ~> spc[t] = "idle"

(* Outside of the recovery _silent is what the application last asked for. *)
SilentAsSet == cpc \notin InRecovery => silent = wish

(* A message that stays registered and enabled is sent again and again.    *)
Served(c) ==
  cpc # "stopped" /\ enabled[c] /\ \E i \in 1..Len(cyclic) : cyclic[i] = c
CyclicKeepsSending ==
  \A c \in Items : <>[]Served(c) => []<>(cpc = "send" /\ Item = c)
=============================================================================
