--------------------------- MODULE CANSendProofs ----------------------------
(***************************************************************************)
(* Proofs about CANSend, for any number of tasks, mailboxes and cyclic     *)
(* messages.  The inductive invariant has two parts that do not need each  *)
(* other: SendInv, about sendMessage() and its mutex, and PassInv, about   *)
(* the walk over the cyclic messages and the list's lock.                  *)
(***************************************************************************)
EXTENDS CANSend, QueueLemmas

(* Who is inside sendMessage() holds its mutex.                            *)
MutexHeld == \A t \in Tasks : spc[t] # "idle" => sendMutex = t

SendTyped ==
  /\ txRequest \in [TxMob -> Senders \cup Items \cup {NoItem}]
  /\ sendMutex \in Tasks \cup {NoItem}
  /\ spc \in [Tasks -> SPC]
  /\ tries \in [Tasks -> 0..(TryWrap - 1)]
  /\ mob \in [Tasks -> 0..TxMobs]

SendInv == SendTyped /\ MutexHeld /\ MobExclusive

PassTyped ==
  /\ cyclic \in Seq(Items \cup {NoItem}) /\ cyclicLock \in BOOLEAN
  /\ cpc \in CPC
  /\ at \in 0..(Len(cyclic) + 1)

(* The CAN task in a pass holds the list's lock, with a slot number.       *)
PassLocked == cpc \in InPass => cyclicLock /\ at >= 1

PassInv == PassTyped /\ PassLocked /\ ItemStaysRegistered

(* The remaining variables.                                                *)
RestTyped ==
  /\ onBus \in BOOLEAN /\ busError \in BOOLEAN
  /\ now \in 0..(TimeWrap - 1)
  /\ silent \in BOOLEAN
  /\ timeToWait \in WaitTimes \cup {DefaultWait}
  /\ passTime \in 0..(TimeWrap - 1)
  /\ saved \in BOOLEAN
  /\ enabled \in [Items -> BOOLEAN]
  /\ interval \in [Items -> Intervals]
  /\ next \in [Items -> 0..(WordWrap - 1)]
  /\ wish \in BOOLEAN /\ sends \in [Items -> 0..CountCap]
  /\ stops \in 0..MaxStops

-----------------------------------------------------------------------------
(* The maximum of a non-empty set of mailboxes belongs to it.              *)
LEMMA MaxInSet ==
  ASSUME NEW S \in SUBSET TxMob, S # {}
  PROVE  Max(S) \in S
<1>1. TxMobs \in Nat
  BY CANSendAssumption
<1> DEFINE below == {TxMobs - x : x \in S}
<1>2. below \in SUBSET Nat /\ below # {}
  <2>1. \A x \in S : TxMobs - x \in Nat
    BY <1>1 DEF TxMob
  <2>2. PICK x \in S : TRUE
    OBVIOUS
  <2>3. TxMobs - x \in below
    BY <2>2
  <2> QED
    BY <2>1, <2>3
<1>3. PICK d \in below : \A y \in below : d <= y
  <2> HIDE DEF below
  <2> QED
    BY <1>2, MinInSet
<1>4. PICK x \in S : d = TxMobs - x
  BY <1>3
<1>5. ASSUME NEW y \in S PROVE y <= x
  <2>1. TxMobs - y \in below /\ y \in Nat /\ x \in Nat
    BY <1>1 DEF TxMob
  <2> QED
    BY <1>1, <1>3, <1>4, <2>1
<1>6. \E m \in S : \A y \in S : m >= y
  BY <1>5 DEF TxMob
<1> QED
  BY <1>6 DEF Max

(* addItem() keeps a list a list, at least as long.                        *)
LEMMA AddedIsList ==
  ASSUME NEW l \in Seq(Items \cup {NoItem}), NEW c \in Items
  PROVE  Added(l, c) \in Seq(Items \cup {NoItem}) /\ Len(Added(l, c)) >= Len(l)
<1> DEFINE T == Items \cup {NoItem}
           fragment == [i \in 1..FragmentSize |-> NoItem]
           room == IF EmptySlots(l) = {} THEN l \o fragment ELSE l
<1>1. Len(l) \in Nat /\ FragmentSize \in Nat \ {0}
  BY LenProperties, FragmentSizeAssumption
<1>2. fragment \in Seq(T) /\ Len(fragment) = FragmentSize /\ fragment[1] = NoItem
  <2>1. fragment \in [1..FragmentSize -> T]
    OBVIOUS
  <2>2. fragment \in Seq(T)
    BY <1>1, <2>1, SeqDef
  <2>3. DOMAIN fragment = 1..FragmentSize
    OBVIOUS
  <2>4. DOMAIN fragment = 1..Len(fragment) /\ Len(fragment) \in Nat
    BY <2>2, LenProperties
  <2> HIDE DEF fragment
  <2>5. Len(fragment) = FragmentSize
    BY <1>1, <2>3, <2>4
  <2> QED
    BY <1>1, <2>2, <2>5 DEF fragment
<1> HIDE DEF fragment
<1>3. /\ room \in Seq(T) /\ Len(room) \in Nat /\ DOMAIN room = 1..Len(room)
      /\ Len(room) >= Len(l)
  <2>1. CASE EmptySlots(l) = {}
    BY <1>1, <1>2, <2>1, ConcatProperties, LenProperties
  <2>2. CASE EmptySlots(l) # {}
    BY <1>1, <2>2, LenProperties
  <2> QED
    BY <2>1, <2>2
<1>4. EmptySlots(room) # {}
  <2>1. CASE EmptySlots(l) # {}
    BY <2>1
  <2>2. CASE EmptySlots(l) = {}
    <3>1. Len(room) = Len(l) + FragmentSize /\ room[Len(l) + 1] = fragment[1]
      <4>1. room = l \o fragment /\ l \in Seq(T) /\ fragment \in Seq(T)
        BY <1>2, <2>2 DEF room
      <4> HIDE DEF room, T
      <4>2. /\ Len(room) = Len(l) + Len(fragment)
            /\ \A i \in 1..Len(l) + Len(fragment) :
                  room[i] = IF i <= Len(l) THEN l[i] ELSE fragment[i - Len(l)]
        BY <4>1, ConcatProperties
      <4>3. (Len(l) + 1) - Len(l) = 1 /\ Len(l) + 1 \in 1..Len(l) + Len(fragment)
        BY <1>1, <1>2
      <4>4. ~(Len(l) + 1 <= Len(l))
        BY <1>1
      <4> QED
        BY <1>2, <4>2, <4>3, <4>4
    <3> QED
      BY <1>1, <1>2, <3>1 DEF EmptySlots
  <2> QED
    BY <2>1, <2>2
<1> HIDE DEF room
<1>5. Min(EmptySlots(room)) \in 1..Len(room)
  <2>1. EmptySlots(room) \in SUBSET Nat
    BY <1>3 DEF EmptySlots
  <2>2. Min(EmptySlots(room)) \in EmptySlots(room)
    BY <1>4, <2>1, MinInSet
  <2> QED
    BY <2>2 DEF EmptySlots
<1>6. Added(l, c) = [room EXCEPT ![Min(EmptySlots(room))] = c]
  BY DEF Added, room, fragment
<1> QED
  BY <1>1, <1>3, <1>5, <1>6, ExceptSeq

(* removeItem() keeps a list a list of the same length.                    *)
LEMMA RemovedIsList ==
  ASSUME NEW l \in Seq(Items \cup {NoItem}), NEW c \in Items
  PROVE  Removed(l, c) \in Seq(Items \cup {NoItem}) /\ Len(Removed(l, c)) = Len(l)
<1>1. Len(l) \in Nat /\ \A i \in 1..Len(l) : l[i] \in Items \cup {NoItem}
  BY LenProperties, ElementOfSeq
<1>2. Removed(l, c) \in [1..Len(l) -> Items \cup {NoItem}]
  BY <1>1 DEF Removed
<1>3. Removed(l, c) \in Seq(Items \cup {NoItem})
  BY <1>1, <1>2, SeqDef
<1>4. DOMAIN Removed(l, c) = 1..Len(l)
  BY DEF Removed
<1>5. /\ DOMAIN Removed(l, c) = 1..Len(Removed(l, c))
      /\ Len(Removed(l, c)) \in Nat
  BY <1>3, LenProperties
<1> QED
  BY <1>1, <1>3, <1>4, <1>5

-----------------------------------------------------------------------------
(* At first nobody is in sendMessage() and every mailbox is free.          *)
LEMMA InitSend == Init => SendInv
<1> SUFFICES ASSUME Init PROVE SendInv
  OBVIOUS
<1>1. TryWrap \in Nat \ {0} /\ TxMobs \in Nat
  BY CANSendAssumption
<1>2. SendTyped
  BY <1>1 DEF Init, SendTyped, SPC
<1> QED
  BY <1>2 DEF Init, SendInv, MutexHeld, MobExclusive

(* What a step of the task t in sendMessage() does keeps SendInv.          *)
LEMMA EnterSendKeeps ==
  ASSUME SendInv, NEW t \in Tasks, EnterSend(t), UNCHANGED txRequest
  PROVE  SendInv'
<1>1. NoItem \notin Tasks
  BY CANSendAssumption DEF Tasks
<1>2. \A u \in Tasks : spc[u] = "idle"
  BY <1>1 DEF SendInv, MutexHeld, EnterSend
<1>3. SendTyped'
  BY DEF SendInv, SendTyped, EnterSend, SPC
<1>4. \A u \in Tasks \ {t} : spc'[u] = "idle"
  BY <1>2 DEF SendInv, SendTyped, EnterSend
<1>5. spc'[t] = "poll" /\ sendMutex' = t
  BY DEF SendInv, SendTyped, EnterSend
<1> QED
  BY <1>3, <1>4, <1>5 DEF SendInv, MutexHeld, MobExclusive

(* Finding a free mailbox, or trying again, keeps SendInv.                 *)
LEMMA SearchKeeps ==
  ASSUME SendInv, NEW t \in Tasks, FindFree(t) \/ TryAgain(t),
         UNCHANGED txRequest
  PROVE  SendInv'
<1>1. CASE FindFree(t)
  <2> DEFINE free == {m \in TxMob : txRequest[m] = NoItem}
  <2>1. Max(free) \in free
    <3>1. free \in SUBSET TxMob /\ free # {}
      BY <1>1 DEF FindFree, ChooseFree
    <3> HIDE DEF free
    <3> QED
      BY <3>1, MaxInSet
  <2>2. /\ mob' = [mob EXCEPT ![t] = Max(free)]
        /\ spc' = [spc EXCEPT ![t] = "set"]
        /\ UNCHANGED <<sendMutex, tries, txRequest>> /\ spc[t] = "poll"
    BY <1>1 DEF FindFree, ChooseFree
  <2>3. Max(free) \in TxMob /\ txRequest[Max(free)] = NoItem
    BY <2>1
  <2> HIDE DEF free
  <2>4. SendTyped'
    BY <2>2, <2>3, CANSendAssumption DEF SendInv, SendTyped, SPC, TxMob
  <2>5. \A u \in Tasks \ {t} : spc'[u] = "idle"
    BY <2>2 DEF SendInv, SendTyped, MobExclusive
  <2>6. sendMutex' = t /\ mob'[t] = Max(free)
    BY <2>2 DEF SendInv, SendTyped, MutexHeld
  <2> QED
    BY <2>2, <2>3, <2>4, <2>5, <2>6 DEF SendInv, MutexHeld, MobExclusive
<1>2. CASE TryAgain(t)
  <2>1. NextTry(t) \in 0..(TryWrap - 1)
    BY CANSendAssumption DEF NextTry, SendInv, SendTyped
  <2>2. SendTyped'
    BY <1>2, <2>1 DEF TryAgain, SendInv, SendTyped
  <2> QED
    BY <1>2, <2>2 DEF TryAgain, SendInv, MutexHeld, MobExclusive
<1> QED
  BY <1>1, <1>2

(* Leaving sendMessage() keeps SendInv, whatever it did to the mailboxes.  *)
LEMMA LeaveKeeps ==
  ASSUME SendInv, NEW t \in Tasks, spc[t] # "idle", Leave(t),
         txRequest' \in [TxMob -> Senders \cup Items \cup {NoItem}]
  PROVE  SendInv'
<1>1. SendTyped'
  BY CANSendAssumption DEF SendInv, SendTyped, Leave, SPC
<1>2. \A u \in Tasks : spc'[u] = "idle"
  BY DEF SendInv, SendTyped, MobExclusive, Leave
<1> QED
  BY <1>1, <1>2 DEF SendInv, MutexHeld, MobExclusive

(* Setting the mailbox and leaving keeps SendInv.                          *)
LEMMA SetMailboxKeeps ==
  ASSUME SendInv, NEW t \in Tasks, NEW from \in Senders \cup Items \cup {NoItem},
         SetMailbox(t, from)
  PROVE  SendInv'
<1>1. txRequest' \in [TxMob -> Senders \cup Items \cup {NoItem}]
  BY DEF SetMailbox, SendInv, SendTyped
<1> QED
  BY <1>1, LeaveKeeps DEF SetMailbox

(* Emptying mailboxes keeps SendInv: the peripheral after a transmission,  *)
(* and the re-initialisation after a bus error.                            *)
LEMMA EmptyingKeeps ==
  ASSUME SendInv, UNCHANGED sending,
         txRequest' \in [TxMob -> Senders \cup Items \cup {NoItem}],
         \A m \in TxMob : txRequest'[m] \in {txRequest[m], NoItem}
  PROVE  SendInv'
<1>1. SendTyped' /\ MutexHeld'
  BY DEF SendInv, SendTyped, MutexHeld, sending
<1>2. MobExclusive'
  BY DEF SendInv, MobExclusive, sending
<1> QED
  BY <1>1, <1>2 DEF SendInv

(* Every step keeps SendInv, as long as the message the CAN task sends is  *)
(* a registered one.                                                       *)
LEMMA NextSend ==
  ASSUME SendInv, ItemStaysRegistered, [Next]_vars
  PROVE  SendInv'
<1> Can \in Tasks /\ Senders \subseteq Tasks
  BY DEF Tasks
<1>1. ASSUME UNCHANGED <<txRequest, sending>> PROVE SendInv'
  BY <1>1 DEF SendInv, SendTyped, MutexHeld, MobExclusive, sending
<1>2. CASE Transmit
  <2> DEFINE m == Min({x \in TxMob : txRequest[x] # NoItem})
  <2>1. txRequest' = [txRequest EXCEPT ![m] = NoItem] /\ UNCHANGED sending
    BY <1>2 DEF Transmit
  <2> HIDE DEF m
  <2> QED
    BY <2>1, EmptyingKeeps DEF SendInv, SendTyped
<1>3. CASE ReinitController
  BY <1>3, EmptyingKeeps DEF ReinitController
<1>4. ASSUME NEW t \in Senders, AppSend(t) PROVE SendInv'
  <2>1. t \in Tasks
    BY <1>4
  <2>2. GiveUp(t) /\ UNCHANGED txRequest => SendInv'
    BY <2>1, LeaveKeeps DEF GiveUp, SendInv, SendTyped
  <2> QED
    BY <1>4, <2>1, <2>2, EnterSendKeeps, SearchKeeps, SetMailboxKeeps DEF AppSend
<1>5. CASE StartItem
  BY <1>1, <1>5, EnterSendKeeps DEF StartItem, hardware, sending
<1>6. CASE SendItem
  <2>1. Item \in Items
    BY <1>6 DEF SendItem, ItemStaysRegistered, InItem
  <2>2. GiveUp(Can) /\ UNCHANGED txRequest => SendInv'
    BY LeaveKeeps DEF GiveUp, SendInv, SendTyped
  <2>3. SetMailbox(Can, Item) => SendInv'
    BY <2>1, SetMailboxKeeps
  <2> QED
    BY <1>6, <2>2, <2>3, SearchKeeps DEF SendItem
<1>7. CASE Disable
  <2>1. SendTyped'
    BY <1>7, CANSendAssumption DEF Disable, SendInv, SendTyped, SPC
  <2>2. \A t \in Tasks : /\ spc'[t] = spc[t] \/ spc'[t] = "idle"
                         /\ spc'[t] # "idle" => mob'[t] = mob[t]
    BY <1>7 DEF Disable, SendInv, SendTyped
  <2>3. txRequest' = txRequest /\ sendMutex' = sendMutex
    BY <1>7 DEF Disable
  <2>4. MutexHeld'
    BY <2>2, <2>3 DEF SendInv, MutexHeld
  <2>5. MobExclusive'
    BY <2>2, <2>3 DEF SendInv, MobExclusive
  <2> QED
    BY <2>1, <2>4, <2>5 DEF SendInv
<1>8. CASE BusError \/ Tick \/ UNCHANGED vars
  BY <1>1, <1>8 DEF BusError, Tick, vars, hardware
<1>9. CASE \/ StartPass \/ VisitSlot \/ AdvanceItem \/ EndPass
           \/ CheckStatus \/ RestartController \/ Settle
  BY <1>1, <1>9 DEF StartPass, VisitSlot, AdvanceItem, EndPass, CheckStatus,
     RestartController, Settle, hardware
<1>10. CASE Application /\ ~Disable
  BY <1>1, <1>10 DEF Application, SetSilent, SetTimeToWaitForFreeMob, RegisterCyclic,
     UnregisterCyclic, EnableCyclic, SetInterval, Enable, hardware
<1> QED
  BY <1>2, <1>3, <1>4, <1>5, <1>6, <1>7, <1>8, <1>9, <1>10
     DEF Next, Execute, Application

-----------------------------------------------------------------------------
(* At first there is no pass, and the list is empty.                       *)
LEMMA InitPass == Init => PassInv
<1> SUFFICES ASSUME Init PROVE PassInv
  OBVIOUS
<1>1. cyclic \in Seq(Items \cup {NoItem}) /\ Len(cyclic) = 0
  BY EmptySeq DEF Init
<1>2. cyclicLock \in BOOLEAN
  BY Zenon DEF Init
<1>3. cpc = "stopped" /\ at = 0
  BY DEF Init
<1> QED
  BY <1>1, <1>2, <1>3 DEF PassInv, PassTyped, PassLocked, ItemStaysRegistered,
     CPC, InPass, InItem

(* Every step keeps PassInv.                                               *)
LEMMA NextPass ==
  ASSUME PassInv, [Next]_vars
  PROVE  PassInv'
<1> USE DEF CPC, InPass, InItem
<1>0. Len(cyclic) \in Nat /\ \A i \in 1..Len(cyclic) : cyclic[i] \in Items \cup {NoItem}
  BY LenProperties, ElementOfSeq DEF PassInv, PassTyped
<1>1. ASSUME UNCHANGED <<list, cpc, at>> PROVE PassInv'
  BY <1>1 DEF PassInv, PassTyped, PassLocked, ItemStaysRegistered, Item, list
<1>2. ASSUME UNCHANGED <<list, at>>, cpc \notin InPass, cpc' \in CPC \ InPass
      PROVE  PassInv'
  BY <1>2 DEF PassInv, PassTyped, PassLocked, ItemStaysRegistered, Item, list
<1>3. ASSUME UNCHANGED <<list, at>>, cpc \in InItem, cpc' \in InItem
      PROVE  PassInv'
  BY <1>3 DEF PassInv, PassTyped, PassLocked, ItemStaysRegistered, Item, list
<1>4. CASE StartPass
  BY <1>0, <1>4 DEF StartPass, PassInv, PassTyped, PassLocked,
     ItemStaysRegistered
<1>5. CASE VisitSlot
  BY <1>0, <1>5 DEF VisitSlot, PassInv, PassTyped, PassLocked,
     ItemStaysRegistered, Item, NextSlot, list
<1>6. CASE AdvanceItem
  BY <1>0, <1>6 DEF AdvanceItem, PassInv, PassTyped, PassLocked,
     ItemStaysRegistered, Item, NextSlot, list
<1>7. CASE EndPass
  <2>1. cyclicLock' \in BOOLEAN
    BY <1>7, Zenon DEF EndPass
  <2>2. /\ UNCHANGED cyclic /\ at' = 0 /\ cpc' = "status"
    BY <1>7 DEF EndPass
  <2> QED
    BY <1>0, <2>1, <2>2 DEF PassInv, PassTyped, PassLocked,
       ItemStaysRegistered
<1>8. ASSUME NEW c \in Items, RegisterCyclic(c) \/ UnregisterCyclic(c)
      PROVE  PassInv'
  <2>1. /\ cyclic' \in Seq(Items \cup {NoItem}) /\ Len(cyclic') >= Len(cyclic)
        /\ ~cyclicLock /\ UNCHANGED <<cyclicLock, cpc, at>>
    BY <1>0, <1>8, AddedIsList, RemovedIsList
       DEF RegisterCyclic, UnregisterCyclic, PassInv, PassTyped, canTask
  <2>2. Len(cyclic') \in Nat
    BY <2>1, LenProperties
  <2> QED
    BY <1>0, <2>1, <2>2 DEF PassInv, PassTyped, PassLocked, ItemStaysRegistered
<1>9. CASE Disable
  BY <1>0, <1>9 DEF Disable, PassInv, PassTyped, PassLocked,
     ItemStaysRegistered, list
<1>10. CASE StartItem \/ SendItem
  BY <1>1, <1>3, <1>10 DEF StartItem, SendItem
<1>11. CASE CheckStatus \/ ReinitController \/ RestartController \/ Settle \/ Enable
  BY <1>2, <1>11 DEF CheckStatus, ReinitController, RestartController, Settle,
     Enable
<1>12. CASE Transmit \/ BusError \/ Tick \/ UNCHANGED vars
  BY <1>1, <1>12 DEF Transmit, BusError, Tick, vars, canTask
<1>13. ASSUME NEW t \in Senders, AppSend(t) PROVE PassInv'
  BY <1>1, <1>13 DEF AppSend, canTask
<1>14. ASSUME NEW ms \in WaitTimes, SetTimeToWaitForFreeMob(ms) PROVE PassInv'
  BY <1>1, <1>14 DEF SetTimeToWaitForFreeMob, canTask
<1>15. ASSUME NEW b \in BOOLEAN, SetSilent(b) PROVE PassInv'
  BY <1>1, <1>15 DEF SetSilent, canTask
<1>16. ASSUME NEW c \in Items, NEW b \in BOOLEAN, EnableCyclic(c, b) PROVE PassInv'
  BY <1>1, <1>16 DEF EnableCyclic, canTask
<1>17. ASSUME NEW c \in Items, NEW i \in Intervals, SetInterval(c, i) PROVE PassInv'
  BY <1>1, <1>17 DEF SetInterval, canTask
<1> QED
  BY <1>4, <1>5, <1>6, <1>7, <1>8, <1>9, <1>10, <1>11, <1>12, <1>13, <1>14,
     <1>15, <1>16, <1>17 DEF Next, Execute, Application

-----------------------------------------------------------------------------
(* The remaining variables have the right types at first.                  *)
LEMMA InitRest == Init => RestTyped
<1> SUFFICES ASSUME Init PROVE RestTyped
  OBVIOUS
<1>1. /\ onBus \in BOOLEAN /\ busError \in BOOLEAN /\ silent \in BOOLEAN
      /\ saved \in BOOLEAN /\ wish \in BOOLEAN
      /\ enabled \in [Items -> BOOLEAN]
  BY Zenon DEF Init
<1>2. /\ now \in 0..(TimeWrap - 1) /\ passTime \in 0..(TimeWrap - 1)
      /\ next \in [Items -> 0..(WordWrap - 1)]
      /\ sends \in [Items -> 0..CountCap] /\ stops \in 0..MaxStops
  BY CANSendAssumption DEF Init
<1>3. interval \in [Items -> Intervals]
  BY DEF Init
<1>4. timeToWait \in WaitTimes \cup {DefaultWait}
  BY DEF Init
<1> QED
  BY <1>1, <1>2, <1>3, <1>4 DEF RestTyped

(* Every step keeps the types of the remaining variables.                  *)
LEMMA NextRest ==
  ASSUME RestTyped, ItemStaysRegistered, [Next]_vars
  PROVE  RestTyped'
<1> USE DEF InItem
<1>1. ASSUME UNCHANGED <<now, timeToWait, passTime, items, sends, stops>>,
             onBus' \in BOOLEAN, busError' \in BOOLEAN, silent' \in BOOLEAN,
             saved' \in BOOLEAN, wish' \in BOOLEAN
      PROVE  RestTyped'
  BY <1>1 DEF RestTyped, items
<1>2. ASSUME UNCHANGED <<onBus, busError, timeToWait, silent, saved, wish>>,
             now' \in 0..(TimeWrap - 1), passTime' \in 0..(TimeWrap - 1),
             enabled' \in [Items -> BOOLEAN], interval' \in [Items -> Intervals],
             next' \in [Items -> 0..(WordWrap - 1)],
             sends' \in [Items -> 0..CountCap], stops' \in 0..MaxStops
      PROVE  RestTyped'
  BY <1>2 DEF RestTyped
<1>3. CASE Transmit \/ UNCHANGED vars
  BY <1>3 DEF Transmit, vars, hardware, canTask, items, history, RestTyped
<1>4. CASE BusError
  <2>1. busError' \in BOOLEAN
    BY <1>4, Zenon DEF BusError
  <2> QED
    BY <1>1, <1>4, <2>1 DEF BusError, canTask, history, RestTyped
<1>5. CASE Tick
  <2>1. now' \in 0..(TimeWrap - 1)
    BY <1>5, CANSendAssumption DEF Tick, RestTyped
  <2> QED
    BY <1>2, <1>5, <2>1 DEF Tick, RestTyped, hardware, canTask, items, history
<1>6. ASSUME NEW t \in Senders, AppSend(t) PROVE RestTyped'
  BY <1>6 DEF AppSend, RestTyped, canTask, items, history
<1>7. CASE StartPass \/ VisitSlot \/ StartItem
  BY <1>2, <1>7 DEF StartPass, VisitSlot, StartItem, RestTyped, hardware, items,
     history
<1>8. CASE SendItem
  <2>1. Item \in Items
    BY <1>8 DEF SendItem, ItemStaysRegistered
  <2>2. sends' \in [Items -> 0..CountCap]
    BY <1>8, <2>1, CANSendAssumption DEF SendItem, RestTyped
  <2> QED
    BY <1>2, <1>8, <2>2 DEF SendItem, RestTyped, items
<1>9. CASE AdvanceItem
  <2>1. Item \in Items
    BY <1>9 DEF AdvanceItem, ItemStaysRegistered
  <2>2. WordWrap \in Nat \ {0} /\ Intervals \subseteq Nat
    BY CANSendAssumption
  <2>3. next[Item] \in 0..(WordWrap - 1) /\ interval[Item] \in Intervals
    BY <2>1 DEF RestTyped
  <2>4. Advanced(Item) \in 0..(WordWrap - 1)
    <3> DEFINE n == next[Item]  i == interval[Item]
    <3>1. n + i \in Nat
      <4>1. n \in 0..(WordWrap - 1) /\ i \in Nat
        BY <2>2, <2>3
      <4> HIDE DEF n, i
      <4> QED
        BY <2>2, <4>1
    <3>2. \A k \in Nat : k % WordWrap \in 0..(WordWrap - 1)
      BY <2>2
    <3> QED
      BY <3>1, <3>2 DEF Advanced
  <2>5. next' \in [Items -> 0..(WordWrap - 1)]
    BY <1>9, <2>1, <2>4 DEF AdvanceItem, RestTyped
  <2> QED
    BY <1>2, <1>9, <2>5 DEF AdvanceItem, RestTyped, hardware, history
<1>10. CASE EndPass
  <2>1. passTime' \in 0..(TimeWrap - 1)
    BY <1>10, CANSendAssumption DEF EndPass
  <2> QED
    BY <1>2, <1>10, <2>1 DEF EndPass, RestTyped, hardware, items, history
<1>11. CASE CheckStatus
  <2>1. /\ saved' \in BOOLEAN /\ silent' \in BOOLEAN /\ onBus' \in BOOLEAN
        /\ busError' \in BOOLEAN /\ wish' \in BOOLEAN
    BY <1>11, Zenon DEF CheckStatus, RestTyped, history
  <2> QED
    BY <1>1, <1>11, <2>1 DEF CheckStatus, history
<1>12. CASE ReinitController \/ RestartController \/ Settle \/ Enable
  <2>1. /\ saved' \in BOOLEAN /\ silent' \in BOOLEAN /\ onBus' \in BOOLEAN
        /\ busError' \in BOOLEAN /\ wish' \in BOOLEAN
    BY <1>12, Zenon DEF ReinitController, RestartController, Settle, Enable,
       RestTyped, history, hardware
  <2> QED
    BY <1>1, <1>12, <2>1 DEF ReinitController, RestartController, Settle,
       Enable, history
<1>13. CASE Disable
  <2>1. /\ saved' \in BOOLEAN /\ silent' \in BOOLEAN /\ onBus' \in BOOLEAN
        /\ busError' \in BOOLEAN /\ wish' \in BOOLEAN
    BY <1>13, Zenon DEF Disable, RestTyped
  <2>2. stops' \in 0..MaxStops /\ passTime' \in 0..(TimeWrap - 1)
    BY <1>13, CANSendAssumption DEF Disable, RestTyped
  <2> QED
    BY <1>13, <2>1, <2>2 DEF Disable, RestTyped, items
<1>14. ASSUME NEW b \in BOOLEAN, SetSilent(b) PROVE RestTyped'
  BY <1>1, <1>14 DEF SetSilent, RestTyped, hardware, canTask
<1>15. ASSUME NEW c \in Items, RegisterCyclic(c) \/ UnregisterCyclic(c)
       PROVE  RestTyped'
  BY <1>15 DEF RegisterCyclic, UnregisterCyclic, RestTyped, hardware, canTask,
     items, history
<1>16. ASSUME NEW c \in Items, NEW b \in BOOLEAN, EnableCyclic(c, b)
       PROVE  RestTyped'
  <2>1. enabled' \in [Items -> BOOLEAN]
    BY <1>16 DEF EnableCyclic, RestTyped
  <2> QED
    BY <1>2, <1>16, <2>1 DEF EnableCyclic, RestTyped, hardware, canTask, history
<1>17. ASSUME NEW c \in Items, NEW i \in Intervals, SetInterval(c, i)
       PROVE  RestTyped'
  <2>1. interval' \in [Items -> Intervals]
    BY <1>17 DEF SetInterval, RestTyped
  <2> QED
    BY <1>2, <1>17, <2>1 DEF SetInterval, RestTyped, hardware, canTask, history
<1>18. ASSUME NEW ms \in WaitTimes, SetTimeToWaitForFreeMob(ms) PROVE RestTyped'
  BY <1>18 DEF SetTimeToWaitForFreeMob, RestTyped, hardware, canTask, items, history
<1> QED
  BY <1>3, <1>4, <1>5, <1>6, <1>7, <1>8, <1>9, <1>10, <1>11, <1>12, <1>13,
     <1>14, <1>15, <1>16, <1>17, <1>18 DEF Next, Execute, Application

-----------------------------------------------------------------------------
(* The types of the variables, for all values of the constants: counters   *)
(* stay in their ranges, and slot and mailbox numbers point at something.  *)
THEOREM SendTypeCorrect == Spec => []TypeOK
<1> DEFINE IInv == SendInv /\ PassInv /\ RestTyped
<1>1. Init => IInv
  BY InitSend, InitPass, InitRest
<1>2. IInv /\ [Next]_vars => IInv'
  BY NextSend, NextPass, NextRest DEF PassInv
<1>3. IInv => TypeOK
  BY DEF SendInv, SendTyped, PassInv, PassTyped, RestTyped, TypeOK
<1> QED
  BY <1>1, <1>2, <1>3, PTL DEF Spec

(* findFreeSendingMOB() and the setting of the mailbox it found are one    *)
(* critical section, for any number of tasks and mailboxes: no frame that  *)
(* waits to be transmitted is overwritten.                                 *)
THEOREM MailboxesExclusive == Spec => []MobExclusive
<1> DEFINE IInv == SendInv /\ PassInv
<1>1. Init => IInv
  BY InitSend, InitPass
<1>2. IInv /\ [Next]_vars => IInv'
  BY NextSend, NextPass DEF PassInv
<1>3. IInv => MobExclusive
  BY DEF SendInv
<1> QED
  BY <1>1, <1>2, <1>3, PTL DEF Spec

(* A cyclic message the CAN task works on stays registered, for any list.  *)
THEOREM RegisteredWhileInUse == Spec => []ItemStaysRegistered
<1>1. PassInv /\ [Next]_vars => PassInv'
  BY NextPass
<1>2. PassInv => ItemStaysRegistered
  BY DEF PassInv
<1> QED
  BY <1>1, <1>2, InitPass, PTL DEF Spec

-----------------------------------------------------------------------------
(* The k-th frame of c (from 0) is not requested before this time.         *)
Earliest(c, k) == Offset[c] + k * Min(Intervals)

(* Until the clock wraps, the next time of a message is at least that of   *)
(* the frame after the last one; it is behind by one frame from the moment *)
(* the frame is in a mailbox until AdvanceItem catches up, and for good    *)
(* when disable() comes between the two.  Then the list stays locked, and  *)
(* no pass begins any more.                                                *)
Behind(c) ==
  /\ sends[c] > 0 /\ next[c] >= Earliest(c, sends[c] - 1)
  /\ cyclicLock
  /\ cpc \notin InPass \/ (cpc = "advance" /\ Item = c /\ Due(c))

Paced(c) == next[c] >= Earliest(c, sends[c]) \/ Behind(c)

ClockInv == now <= LastTime /\ passTime <= now
DueWhenSent == cpc \in {"send", "sending"} => Due(Item)
RateInv == ClockInv /\ DueWhenSent /\ CyclicRate /\ \A c \in Items : Paced(c)

(* Each further frame is due the shortest interval later.                  *)
LEMMA EarliestStep ==
  ASSUME RestTyped, NEW c \in Items, NEW k \in Nat
  PROVE  /\ Min(Intervals) \in Nat
         /\ \A i \in Intervals : i \in Nat /\ Min(Intervals) <= i
         /\ Earliest(c, k) \in Int
         /\ Earliest(c, k + 1) = Earliest(c, k) + Min(Intervals)
<1> DEFINE m == Min(Intervals)
<1>1. Intervals \in SUBSET Nat /\ Intervals # {} /\ Offset[c] \in Nat
  BY CANSendAssumption DEF RestTyped
<1>2. m \in Nat /\ \A i \in Intervals : i \in Nat /\ m <= i
  BY <1>1, MinInSet
<1> HIDE DEF m
<1>3. \A d \in Nat : d + k * m \in Int /\ d + (k + 1) * m = (d + k * m) + m
  <2>1. \A d \in Nat, p \in Nat : (d + p) + m = d + (p + m)
    BY <1>2
  <2>2. k * m \in Nat /\ (k + 1) * m = k * m + m
    BY <1>2
  <2> QED
    BY <1>2, <2>1, <2>2
<1> QED
  BY <1>1, <1>2, <1>3 DEF Earliest, m

LEMMA InitRate == RestTyped /\ Init => RateInv
<1> SUFFICES ASSUME RestTyped, Init PROVE RateInv
  OBVIOUS
<1>1. ClockInv
  BY CANSendAssumption DEF Init, ClockInv
<1>2. DueWhenSent /\ CyclicRate
  BY DEF Init, DueWhenSent, CyclicRate
<1>3. ASSUME NEW c \in Items PROVE Paced(c)
  <2>1. next[c] = Offset[c] /\ sends[c] = 0 /\ Offset[c] \in Nat
    BY CANSendAssumption DEF Init
  <2>2. Min(Intervals) \in Nat
    BY EarliestStep
  <2>3. Earliest(c, 0) = Offset[c]
    BY <2>1, <2>2 DEF Earliest
  <2> QED
    BY <2>1, <2>3 DEF Paced
<1> QED
  BY <1>1, <1>2, <1>3 DEF RateInv

(* Every step keeps RateInv: for every value of the constants for which    *)
(* neither the clock nor the next time of a message wraps.                 *)
LEMMA NextRate ==
  ASSUME LastTime < TimeWrap, \A i \in Intervals : LastTime + i < WordWrap,
         RestTyped, RestTyped', PassInv, RateInv, [Next]_vars
  PROVE  RateInv'
<1> USE DEF InPass, InItem
<1>0. /\ now \in Nat /\ now' \in Nat /\ passTime \in Nat /\ passTime' \in Nat
      /\ LastTime \in Nat /\ TimeWrap \in Nat /\ WordWrap \in Nat
      /\ \A c \in Items : /\ next[c] \in Nat /\ next'[c] \in Nat
                          /\ sends[c] \in Nat /\ sends'[c] \in Nat
                          /\ interval[c] \in Intervals
  BY CANSendAssumption DEF RestTyped
<1>1. ASSUME ClockInv', UNCHANGED <<list, cpc, passTime, at, next, sends>>,
             now <= now'
      PROVE  RateInv'
  <2>1. Item' = Item /\ \A c \in Items : Due(c)' = Due(c)
    BY <1>1 DEF Item, Due, list
  <2>2. CyclicRate' /\ DueWhenSent'
    <3>1. CyclicRate'
      <4> SUFFICES ASSUME NEW c \in Items, sends[c] > 0
                   PROVE  now' >= Earliest(c, sends[c] - 1)
        BY <1>1 DEF CyclicRate, Earliest
      <4>1. now >= Earliest(c, sends[c] - 1)
        BY DEF RateInv, CyclicRate, Earliest
      <4>2. sends[c] - 1 \in Nat
        BY <1>0
      <4>3. Earliest(c, sends[c] - 1) \in Int
        BY <4>2, EarliestStep
      <4> QED
        BY <1>0, <1>1, <4>1, <4>3
    <3>2. DueWhenSent'
      BY <1>1, <2>1 DEF RateInv, DueWhenSent, Due, list
    <3> QED
      BY <3>1, <3>2
  <2>3. ASSUME NEW c \in Items PROVE Paced(c)'
    BY <1>1, <2>1 DEF RateInv, Paced, Behind, Earliest, list
  <2> QED
    BY <1>1, <2>2, <2>3 DEF RateInv
<1>2. CASE Tick
  <2>1. now + 1 \in Nat /\ now + 1 < TimeWrap /\ now + 1 <= LastTime
    BY <1>0, <1>2 DEF Tick, RateInv, ClockInv
  <2>2. now' = now + 1
    BY <1>0, <1>2, <2>1 DEF Tick
  <2>3. ClockInv'
    BY <1>0, <1>2, <2>1, <2>2 DEF Tick, RateInv, ClockInv, canTask
  <2> QED
    BY <1>0, <1>1, <1>2, <2>2, <2>3 DEF Tick, canTask, items, history
<1>3. ASSUME UNCHANGED <<list, cpc, passTime, at, next, sends, now>>
      PROVE  RateInv'
  <2>1. ClockInv'
    BY <1>3 DEF RateInv, ClockInv
  <2> QED
    BY <1>0, <1>1, <1>3, <2>1
(* Steps of the CAN task that leave the messages alone: those that are     *)
(* behind must stay so.                                                    *)
<1>4. ASSUME UNCHANGED <<next, sends, now>>, ClockInv', DueWhenSent',
             \A c \in Items : Behind(c) => Behind(c)'
      PROVE  RateInv'
  <2>1. CyclicRate'
    BY <1>4 DEF RateInv, CyclicRate
  <2>2. \A c \in Items : Paced(c)'
    BY <1>4 DEF RateInv, Paced, Earliest
  <2> QED
    BY <1>4, <2>1, <2>2 DEF RateInv
<1>5. CASE StartPass
  <2>1. ClockInv' /\ DueWhenSent'
    BY <1>0, <1>5 DEF StartPass, RateInv, ClockInv, DueWhenSent
  <2>2. \A c \in Items : ~Behind(c)
    BY <1>5 DEF StartPass, Behind
  <2> QED
    BY <1>4, <1>5, <2>1, <2>2 DEF StartPass, items, history
<1>6. CASE VisitSlot
  <2>1. ClockInv'
    BY <1>6 DEF VisitSlot, RateInv, ClockInv
  <2>2. DueWhenSent'
    <3>1. CASE cpc' = "send"
      BY <1>6, <3>1 DEF VisitSlot, DueWhenSent, Due, Item, items, list
    <3>2. CASE cpc' # "send"
      BY <1>6, <3>2 DEF VisitSlot, DueWhenSent
    <3> QED
      BY <3>1, <3>2
  <2>3. \A c \in Items : ~Behind(c)
    BY <1>6 DEF VisitSlot, Behind
  <2> QED
    BY <1>4, <1>6, <2>1, <2>2, <2>3 DEF VisitSlot, items, history
<1>7. CASE StartItem
  <2>1. ClockInv'
    BY <1>7 DEF StartItem, RateInv, ClockInv
  <2>2. DueWhenSent'
    BY <1>7 DEF StartItem, RateInv, DueWhenSent, Due, Item, items, list
  <2>3. \A c \in Items : ~Behind(c)
    BY <1>7 DEF StartItem, Behind
  <2> QED
    BY <1>4, <1>7, <2>1, <2>2, <2>3 DEF StartItem, items, history
<1>8. CASE SendItem
  <2>1. /\ cpc = "sending" /\ Item \in Items /\ Due(Item) /\ cyclicLock
        /\ UNCHANGED <<now, passTime, at, list, next>>
    BY <1>8 DEF SendItem, PassInv, PassLocked, ItemStaysRegistered, RateInv,
       DueWhenSent, items
  <2>2. ClockInv' /\ Item' = Item /\ Due(Item)'
    BY <2>1 DEF RateInv, ClockInv, Item, Due, list
  <2>3. CASE UNCHANGED sends
    <3>1. cpc' \in {"sending", "advance"}
      BY <1>8 DEF SendItem
    <3>2. DueWhenSent'
      BY <2>2, <3>1 DEF DueWhenSent, Due, Item
    <3>3. \A c \in Items : ~Behind(c)
      BY <2>1 DEF Behind
    <3> QED
      BY <1>4, <2>1, <2>2, <2>3, <3>2, <3>3
  <2>4. CASE sends' # sends
    <3> DEFINE c == Item
    <3>1. /\ cpc' = "advance" /\ sends[c] < CountCap
          /\ sends' = [sends EXCEPT ![c] = sends[c] + 1]
      <4>1. /\ cpc' = "advance"
            /\ sends' = [sends EXCEPT ![c] = IF @ < CountCap THEN @ + 1 ELSE @]
        BY <1>8, <2>4 DEF SendItem
      <4>2. sends[c] < CountCap
        BY <2>1, <2>4, <4>1 DEF RestTyped
      <4> QED
        BY <4>1, <4>2
    <3>2. sends'[c] = sends[c] + 1 /\ \A d \in Items : d # c => sends'[d] = sends[d]
      BY <2>1, <3>1 DEF RestTyped
    <3>3. \A d \in Items : next[d] >= Earliest(d, sends[d])
      BY <2>1 DEF RateInv, Paced, Behind
    <3>4. Earliest(c, sends[c]) \in Int
      BY <1>0, <2>1, EarliestStep
    <3>5. now >= Earliest(c, sends[c])
      BY <1>0, <2>1, <3>3, <3>4 DEF RateInv, ClockInv, Due
    <3>6. (sends[c] + 1) - 1 = sends[c] /\ sends[c] + 1 > 0
      BY <1>0, <2>1
    <3>7. CyclicRate'
      <4> SUFFICES ASSUME NEW d \in Items, sends'[d] > 0
                   PROVE  now >= Earliest(d, sends'[d] - 1)
        BY <2>1 DEF CyclicRate, Earliest
      <4>1. CASE d = c
        BY <3>2, <3>5, <3>6, <4>1
      <4>2. CASE d # c
        BY <3>2, <4>2 DEF RateInv, CyclicRate, Earliest
      <4> QED
        BY <4>1, <4>2
    <3>8. ASSUME NEW d \in Items PROVE Paced(d)'
      <4>1. CASE d = c
        <5>1. Behind(d)'
          BY <2>1, <2>2, <3>1, <3>2, <3>3, <3>6, <4>1
             DEF Behind, Earliest, list
        <5> QED
          BY <5>1 DEF Paced
      <4>2. CASE d # c
        BY <2>1, <3>2, <3>3, <4>2 DEF Paced, Earliest
      <4> QED
        BY <4>1, <4>2
    <3>9. DueWhenSent'
      BY <3>1 DEF DueWhenSent
    <3> QED
      BY <2>2, <3>7, <3>8, <3>9 DEF RateInv
  <2> QED
    BY <2>3, <2>4
<1>9. CASE AdvanceItem
  <2>1. /\ cpc = "advance" /\ Item \in Items
        /\ UNCHANGED <<now, passTime, list, sends>>
    BY <1>9 DEF AdvanceItem, PassInv, ItemStaysRegistered, history
  <2>2. ClockInv'
    BY <2>1 DEF RateInv, ClockInv
  <2>3. DueWhenSent'
    BY <1>9 DEF AdvanceItem, DueWhenSent
  <2>4. CASE ~Due(Item)
    <3>1. UNCHANGED next
      BY <1>9, <2>4 DEF AdvanceItem
    <3>2. \A c \in Items : ~Behind(c)
      BY <2>1, <2>4 DEF Behind
    <3> QED
      BY <1>4, <2>1, <2>2, <2>3, <3>1, <3>2
  <2>5. CASE Due(Item)
    <3> DEFINE c == Item
    <3>1. next' = [next EXCEPT ![c] = Advanced(c)]
      BY <1>9, <2>5 DEF AdvanceItem
    <3>2. /\ interval[c] \in Nat /\ Min(Intervals) \in Nat
          /\ Min(Intervals) <= interval[c] /\ LastTime + interval[c] < WordWrap
      BY <1>0, <2>1, EarliestStep
    <3>3. next[c] <= LastTime
      BY <1>0, <2>1, <2>5 DEF Due, RateInv, ClockInv
    <3>4. Advanced(c) = next[c] + interval[c]
      <4> DEFINE n == next[c]  i == interval[c]
      <4>1. n \in Nat /\ i \in Nat /\ n + i < WordWrap
        BY <1>0, <2>1, <3>2, <3>3
      <4> HIDE DEF n, i
      <4>2. (n + i) % WordWrap = n + i
        BY <1>0, <4>1
      <4> QED
        BY <4>2 DEF Advanced, n, i
    <3>5. /\ next'[c] = next[c] + interval[c]
          /\ \A d \in Items : d # c => next'[d] = next[d]
      BY <2>1, <3>1, <3>4 DEF RestTyped
    <3>6. CyclicRate'
      BY <2>1 DEF RateInv, CyclicRate
    <3>7. next'[c] >= Earliest(c, sends[c])
      <4>1. CASE next[c] >= Earliest(c, sends[c])
        <5>1. Earliest(c, sends[c]) \in Int
          BY <1>0, <2>1, EarliestStep
        <5> QED
          BY <1>0, <2>1, <3>2, <3>5, <4>1, <5>1
      <4>2. CASE ~(next[c] >= Earliest(c, sends[c]))
        <5> DEFINE k == sends[c] - 1
        <5>1. k \in Nat /\ k + 1 = sends[c] /\ next[c] >= Earliest(c, k)
          BY <1>0, <2>1, <4>2 DEF RateInv, Paced, Behind
        <5>2. /\ Earliest(c, k) \in Int
              /\ Earliest(c, sends[c]) = Earliest(c, k) + Min(Intervals)
          <6> HIDE DEF k
          <6>1. /\ Earliest(c, k) \in Int
                /\ Earliest(c, k + 1) = Earliest(c, k) + Min(Intervals)
            BY <2>1, <5>1, EarliestStep
          <6> QED
            BY <5>1, <6>1
        <5> QED
          BY <1>0, <2>1, <3>2, <3>5, <5>1, <5>2
      <4> QED
        BY <4>1, <4>2
    <3>8. ASSUME NEW d \in Items PROVE Paced(d)'
      <4>1. CASE d = c
        BY <2>1, <3>7, <4>1 DEF Paced, Earliest
      <4>2. CASE d # c
        BY <2>1, <3>5, <4>2 DEF RateInv, Paced, Behind, Earliest
      <4> QED
        BY <4>1, <4>2
    <3> QED
      BY <2>2, <2>3, <3>6, <3>8 DEF RateInv
  <2> QED
    BY <2>4, <2>5
<1>10. CASE EndPass
  <2>1. ClockInv' /\ DueWhenSent'
    BY <1>0, <1>10 DEF EndPass, RateInv, ClockInv, DueWhenSent
  <2>2. \A c \in Items : ~Behind(c)
    BY <1>10 DEF EndPass, Behind
  <2> QED
    BY <1>4, <1>10, <2>1, <2>2 DEF EndPass, items, history
(* Elsewhere the CAN task stays outside of a pass, or is deleted.          *)
<1>11. ASSUME UNCHANGED <<next, sends, now, cyclicLock>>, cpc' \notin InPass,
              passTime' \in {passTime, 0}
       PROVE  RateInv'
  <2>1. ClockInv' /\ DueWhenSent'
    BY <1>0, <1>11 DEF RateInv, ClockInv, DueWhenSent
  <2>2. \A c \in Items : Behind(c) => Behind(c)'
    BY <1>11 DEF Behind, Earliest
  <2> QED
    BY <1>4, <1>11, <2>1, <2>2
<1>12. CASE CheckStatus \/ ReinitController \/ RestartController \/ Settle
            \/ Enable \/ Disable
  BY <1>11, <1>12 DEF CheckStatus, ReinitController, RestartController, Settle,
     Enable, Disable, items, list, history
<1>13. ASSUME NEW c \in Items, RegisterCyclic(c) \/ UnregisterCyclic(c)
       PROVE  RateInv'
  <2>1. /\ cpc \notin InPass /\ ~cyclicLock
        /\ UNCHANGED <<cyclicLock, cpc, passTime, next, sends, now>>
    BY <1>13 DEF RegisterCyclic, UnregisterCyclic, PassInv, PassLocked, canTask,
       items, history
  <2>2. ClockInv' /\ DueWhenSent'
    BY <2>1 DEF RateInv, ClockInv, DueWhenSent
  <2>3. \A d \in Items : ~Behind(d)
    BY <2>1 DEF Behind
  <2> QED
    BY <1>4, <2>1, <2>2, <2>3
<1>14. CASE Transmit \/ BusError \/ UNCHANGED vars
  BY <1>3, <1>14 DEF Transmit, BusError, vars, canTask, items, history
<1>15. ASSUME NEW t \in Senders, AppSend(t) PROVE RateInv'
  BY <1>3, <1>15 DEF AppSend, canTask, items, history
<1>16. ASSUME NEW b \in BOOLEAN, SetSilent(b) PROVE RateInv'
  BY <1>3, <1>16 DEF SetSilent, canTask, items
<1>17. ASSUME NEW c \in Items, NEW b \in BOOLEAN, EnableCyclic(c, b) PROVE RateInv'
  BY <1>3, <1>17 DEF EnableCyclic, canTask, history
<1>18. ASSUME NEW c \in Items, NEW i \in Intervals, SetInterval(c, i) PROVE RateInv'
  BY <1>3, <1>18 DEF SetInterval, canTask, history
<1>19. ASSUME NEW ms \in WaitTimes, SetTimeToWaitForFreeMob(ms) PROVE RateInv'
  BY <1>3, <1>19 DEF SetTimeToWaitForFreeMob, canTask, items, history
<1> QED
  BY <1>2, <1>5, <1>6, <1>7, <1>8, <1>9, <1>10, <1>12, <1>13, <1>14, <1>15,
     <1>16, <1>17, <1>18, <1>19 DEF Next, Execute, Application

(* A cyclic message never goes out faster than the shortest interval,      *)
(* whatever is registered, changed or disabled meanwhile, until the clock  *)
(* wraps: getTime() after 12 days, at LastTime + 1.  An interval must not  *)
(* reach from there beyond the 32 bits of _timestamp_next_send.            *)
THEOREM CyclicRateKept ==
  ASSUME LastTime < TimeWrap, \A i \in Intervals : LastTime + i < WordWrap
  PROVE  Spec => []CyclicRate
<1> DEFINE IInv == SendInv /\ PassInv /\ RestTyped /\ RateInv
<1>1. Init => IInv
  BY InitSend, InitPass, InitRest, InitRate
<1>2. IInv /\ [Next]_vars => IInv'
  <2> SUFFICES ASSUME IInv, [Next]_vars PROVE IInv'
    OBVIOUS
  <2>1. SendInv' /\ PassInv' /\ RestTyped'
    BY NextSend, NextPass, NextRest DEF PassInv
  <2> QED
    BY <2>1, NextRate
<1>3. IInv => CyclicRate
  BY DEF RateInv
<1> QED
  BY <1>1, <1>2, <1>3, PTL DEF Spec
=============================================================================
