------------------------- MODULE CANDeliveryProofs -------------------------
(***************************************************************************)
(* The receive path implements CANDelivery: each of its steps is a step of *)
(* the delivery service or changes nothing of it, for any number of        *)
(* mailboxes, swmobs, observers, frames and registrations, and any sizes   *)
(* of the queues and of the pool.                                          *)
(***************************************************************************)
EXTENDS CANReceiveDelivery, CANReceiveProofs

-----------------------------------------------------------------------------
(* Facts about sequences.                                                  *)

(* One element before a sequence is its head, the sequence its tail.       *)
LEMMA FrontIsHead ==
  ASSUME NEW S, NEW s \in Seq(S), NEW x \in S
  PROVE  LET t == <<x>> \o s
         IN  /\ t \in Seq(S) /\ t # <<>> /\ Len(t) = Len(s) + 1
             /\ Head(t) = x /\ Tail(t) = s
             /\ t[1] = x /\ \A i \in 1..Len(s) : t[i + 1] = s[i]
<1> DEFINE f == <<x>>
           t == f \o s
<1>1. f \in Seq(S) /\ Len(f) = 1 /\ f[1] = x /\ Len(s) \in Nat
  BY LenProperties
<1> HIDE DEF f
<1>2. /\ t \in Seq(S) /\ Len(t) = Len(s) + 1
      /\ \A i \in 1..(Len(s) + 1) : t[i] = IF i <= 1 THEN f[i] ELSE s[i - 1]
  <2>1. /\ t \in Seq(S) /\ Len(t) = Len(f) + Len(s)
        /\ \A i \in 1..(Len(f) + Len(s)) :
             t[i] = IF i <= Len(f) THEN f[i] ELSE s[i - Len(f)]
    BY <1>1, ConcatProperties
  <2>2. PICK n \in Nat : n = Len(s)
    BY <1>1
  <2>3. Len(f) + Len(s) = n + 1 /\ Len(s) + 1 = n + 1
    BY <1>1, <2>2
  <2> HIDE DEF t
  <2> QED
    BY <1>1, <2>1, <2>3
<1> HIDE DEF t
<1>3. t[1] = x /\ \A i \in 1..Len(s) : t[i + 1] = s[i]
  BY <1>1, <1>2
<1>4. t # <<>>
  BY <1>1, <1>2, EmptySeq
<1>5. /\ Tail(t) \in Seq(S) /\ Len(Tail(t)) = Len(s)
      /\ \A i \in 1..Len(s) : Tail(t)[i] = s[i]
  BY <1>1, <1>2, <1>3, <1>4, HeadTailProperties
<1>6. Tail(t) = s
  BY <1>5, SeqEqual
<1>7. Head(t) = x
  BY <1>2, <1>3
<1> QED
  BY <1>2, <1>3, <1>4, <1>6, <1>7 DEF t, f

(* A sequence that is another after one element.                           *)
LEMMA Fronted ==
  ASSUME NEW S, NEW s \in Seq(S), NEW t \in Seq(S), NEW x \in S,
         Len(t) = Len(s) + 1, t[1] = x, \A i \in 1..Len(s) : t[i + 1] = s[i]
  PROVE  t = <<x>> \o s
<1> DEFINE u == <<x>> \o s
<1>1. /\ u \in Seq(S) /\ Len(u) = Len(s) + 1 /\ Len(s) \in Nat
      /\ u[1] = x /\ \A i \in 1..Len(s) : u[i + 1] = s[i]
  BY FrontIsHead, LenProperties
<1> HIDE DEF u
<1>2. ASSUME NEW i \in 1..Len(t) PROVE t[i] = u[i]
  <2>1. CASE i = 1
    BY <1>1, <2>1
  <2>2. CASE i # 1
    <3>1. i - 1 \in 1..Len(s) /\ (i - 1) + 1 = i
      BY <1>1, <2>2
    <3>2. t[(i - 1) + 1] = s[i - 1] /\ u[(i - 1) + 1] = s[i - 1]
      BY <1>1, <3>1
    <3> QED
      BY <3>1, <3>2
  <2> QED
    BY <2>1, <2>2
<1>3. t = u
  BY <1>1, <1>2, SeqEqual
<1> QED
  BY <1>3 DEF u

(* A sequence that is another with one element more at its end.            *)
LEMMA Appended ==
  ASSUME NEW S, NEW s \in Seq(S), NEW t \in Seq(S), NEW x \in S,
         Len(t) = Len(s) + 1, t[Len(s) + 1] = x, \A i \in 1..Len(s) : t[i] = s[i]
  PROVE  t = Append(s, x)
<1> DEFINE u == Append(s, x)
<1>1. /\ u \in Seq(S) /\ Len(u) = Len(s) + 1 /\ Len(s) \in Nat
      /\ \A i \in 1..Len(s) : u[i] = s[i]
      /\ u[Len(s) + 1] = x
  BY AppendProperties, LenProperties
<1> HIDE DEF u
<1>2. ASSUME NEW i \in 1..Len(t) PROVE t[i] = u[i]
  BY <1>1
<1>3. t = u
  BY <1>1, <1>2, SeqEqual
<1> QED
  BY <1>3 DEF u

(* Appending after an element put before, and the other way round.         *)
LEMMA FrontAndBack ==
  ASSUME NEW S, NEW s \in Seq(S), NEW x \in S, NEW y \in S
  PROVE  <<x>> \o Append(s, y) = Append(<<x>> \o s, y)
<1> DEFINE a == Append(s, y)
           t == <<x>> \o s
           u == <<x>> \o a
<1>1. /\ a \in Seq(S) /\ Len(a) = Len(s) + 1 /\ Len(s) \in Nat
      /\ \A i \in 1..Len(s) : a[i] = s[i]
      /\ a[Len(s) + 1] = y
  BY AppendProperties, LenProperties
<1> HIDE DEF a
<1>2. /\ t \in Seq(S) /\ Len(t) = Len(s) + 1
      /\ t[1] = x /\ \A i \in 1..Len(s) : t[i + 1] = s[i]
  BY FrontIsHead
<1>3. /\ u \in Seq(S) /\ Len(u) = Len(a) + 1
      /\ u[1] = x /\ \A i \in 1..Len(a) : u[i + 1] = a[i]
  BY <1>1, FrontIsHead
<1> HIDE DEF t, u
<1>4. ASSUME NEW i \in 1..Len(t) PROVE u[i] = t[i]
  <2>1. CASE i = 1
    BY <1>2, <1>3, <2>1
  <2>2. CASE i # 1
    <3>1. i - 1 \in 1..Len(s) /\ i - 1 \in 1..Len(a) /\ (i - 1) + 1 = i
      BY <1>1, <1>2, <2>2
    <3>2. u[(i - 1) + 1] = a[i - 1] /\ t[(i - 1) + 1] = s[i - 1]
      BY <1>2, <1>3, <3>1
    <3> QED
      BY <1>1, <3>1, <3>2
  <2> QED
    BY <2>1, <2>2
<1>5. u[Len(t) + 1] = y /\ Len(u) = Len(t) + 1
  BY <1>1, <1>2, <1>3
<1>6. u = Append(t, y)
  BY <1>2, <1>3, <1>4, <1>5, Appended
<1> QED
  BY <1>6 DEF u, t, a

-----------------------------------------------------------------------------
(* Facts about the observer list.                                          *)

(* The registrations a list holds: its slots that are not empty.           *)
Entries(list) ==
  {list[i] : i \in {j \in 1..Len(list) : list[j].observer # Null}}

(* No registration is entered twice.                                       *)
OnceEach(list) ==
  \A i, j \in 1..Len(list) :
    list[i] = list[j] /\ list[i].observer # Null => i = j

(* registerObserver() adds one registration, once.                         *)
LEMMA RegisteredEnters ==
  ASSUME NEW list \in Seq(Slot), NEW o \in Observers, NEW filter \in Filter
  PROVE  LET after == Registered(list, o, filter)
         IN  /\ OnceEach(list) => OnceEach(after)
             /\ Entries(after) =
                  Entries(list) \cup {[observer |-> o, filter |-> filter]}
<1> DEFINE room == IF FreeSlots(list) = {} THEN list \o Fragment ELSE list
           e    == [observer |-> o, filter |-> filter]
           free == Min(FreeSlots(room))
<1>1. CASE IsRegistered(list, o, filter)
  <2>1. Registered(list, o, filter) = list
    BY <1>1 DEF Registered
  <2>2. PICK i \in 1..Len(list) : list[i].observer = o /\ list[i].filter = filter
    BY <1>1 DEF IsRegistered
  <2>3. list[i] = e
    <3>1. list[i] \in Slot
      BY ElementOfSeq
    <3> QED
      BY <2>2, <3>1 DEF Slot
  <2>4. e \in Entries(list)
    BY <2>2, <2>3, ObserverListAssumption DEF Entries
  <2> QED
    BY <2>1, <2>4
<1>2. CASE ~IsRegistered(list, o, filter)
  <2>1. /\ Len(list) \in Nat /\ room \in Seq(Slot) /\ Len(room) \in Nat
        /\ Len(list) <= Len(room)
        /\ \A i \in 1..Len(list) : room[i] = list[i]
        /\ \A i \in 1..Len(room) : i \in 1..Len(list) \/ room[i].observer = Null
    <3>1. CASE FreeSlots(list) # {}
      BY <3>1, LenProperties
    <3>2. CASE FreeSlots(list) = {}
      <4>1. /\ Fragment \in Seq(Slot) /\ Len(Fragment) = FragmentLength
            /\ FragmentLength \in Nat /\ Len(list) \in Nat
            /\ \A i \in 1..FragmentLength : Fragment[i].observer = Null
        BY FragmentIsList, LenProperties, ObserverListAssumption DEF Fragment, EmptySlot
      <4>2. /\ room \in Seq(Slot) /\ Len(room) = Len(list) + FragmentLength
            /\ \A i \in 1..Len(list) + FragmentLength :
                 room[i] = IF i <= Len(list) THEN list[i] ELSE Fragment[i - Len(list)]
        BY <3>2, <4>1, ConcatProperties
      <4> HIDE DEF room
      <4>3. ASSUME NEW i \in 1..Len(room), i \notin 1..Len(list)
            PROVE  room[i].observer = Null
        <5>1. i - Len(list) \in 1..FragmentLength /\ ~(i <= Len(list))
          BY <4>1, <4>2, <4>3
        <5> QED
          BY <4>1, <4>2, <5>1
      <4> QED
        BY <4>1, <4>2, <4>3
    <3> QED
      BY <3>1, <3>2
  <2>2. FreeSlots(room) # {}
    <3>1. CASE FreeSlots(list) # {}
      BY <3>1
    <3>2. CASE FreeSlots(list) = {}
      <4>1. Len(room) = Len(list) + FragmentLength /\ FragmentLength \in Nat \ {0}
        BY <3>2, FragmentIsList, ConcatProperties, ObserverListAssumption
      <4>2. Len(room) \in 1..Len(room) /\ Len(room) \notin 1..Len(list)
        BY <2>1, <4>1
      <4>3. Len(room) \in FreeSlots(room)
        BY <2>1, <4>2 DEF FreeSlots
      <4> QED
        BY <4>3
    <3> QED
      BY <3>1, <3>2
  <2>3. free \in 1..Len(room) /\ room[free].observer = Null
    <3>1. FreeSlots(room) \in SUBSET Nat
      BY <2>1 DEF FreeSlots
    <3>2. free \in FreeSlots(room)
      BY <2>2, <3>1, MinInSet
    <3> QED
      BY <3>2 DEF FreeSlots
  <2>4. e \in Slot /\ e.observer = o /\ o # Null
    BY ObserverListAssumption DEF Slot
  <2>5. Registered(list, o, filter) = [room EXCEPT ![free] = e]
    BY <1>2 DEF Registered
  <2>6. ASSUME NEW i \in 1..Len(list) PROVE list[i] # e
    BY <1>2 DEF IsRegistered
  <2> DEFINE after == Registered(list, o, filter)
  <2> HIDE DEF room, e, free
  <2>7. /\ Len(after) = Len(room)
        /\ \A i \in 1..Len(room) : after[i] = IF i = free THEN e ELSE room[i]
    BY <2>1, <2>3, <2>4, <2>5, ExceptSeq
  <2> HIDE DEF after
  <2>8. ASSUME NEW i \in 1..Len(after), after[i].observer # Null
        PROVE  \/ i = free /\ after[i] = e
               \/ i # free /\ i \in 1..Len(list) /\ after[i] = list[i]
    BY <2>1, <2>7, <2>8
  <2>9. ASSUME NEW i \in 1..Len(list), list[i].observer # Null
        PROVE  i \in 1..Len(after) /\ after[i] = list[i]
    BY <2>1, <2>3, <2>7, <2>9
  <2>10. OnceEach(list) => OnceEach(after)
    <3> SUFFICES ASSUME OnceEach(list), NEW i \in 1..Len(after), NEW j \in 1..Len(after),
                        after[i] = after[j], after[i].observer # Null
                 PROVE  i = j
      BY DEF OnceEach
    <3> QED
      BY <2>6, <2>8 DEF OnceEach
  <2>11. Entries(after) = Entries(list) \cup {e}
    <3>1. ASSUME NEW r \in Entries(after) PROVE r \in Entries(list) \cup {e}
      BY <2>8, <3>1 DEF Entries
    <3>2. ASSUME NEW r \in Entries(list) PROVE r \in Entries(after)
      BY <2>9, <3>2 DEF Entries
    <3>3. e \in Entries(after)
      BY <2>3, <2>4, <2>7 DEF Entries
    <3> QED
      BY <3>1, <3>2, <3>3
  <2> QED
    BY <2>10, <2>11 DEF after, e
<1> QED
  BY <1>1, <1>2

(* Emptying slots removes registrations and enters none.                   *)
LEMMA EmptiedRemoves ==
  ASSUME NEW list \in Seq(Slot), NEW after, Len(after) = Len(list),
         \A i \in 1..Len(list) : after[i] = list[i] \/ after[i] = EmptySlot
  PROVE  /\ OnceEach(list) => OnceEach(after)
         /\ Entries(after) \subseteq Entries(list)
<1>1. EmptySlot.observer = Null
  BY DEF EmptySlot
<1> QED
  BY <1>1 DEF OnceEach, Entries

-----------------------------------------------------------------------------
(* What the refinement rests on, besides the ownership of swmobs and       *)
(* pooled messages.                                                        *)

InPass == pc \in {"walk", "getMessage", "notify", "returnMessage"}

(* What is fetched is a frame: a mailbox whose interrupt is pending has    *)
(* one, and a swmob that waits or is dispatched has one.                   *)
FetchedFrames ==
  /\ \A m \in RxMob : m \in intPending => mailbox[m] # Null
  /\ \A i \in 1..Len(usedSwMobs) : swmobs[usedSwMobs[i]] # Null
  /\ Dispatching => swmobs[num] # Null

(* The walk is over the list, and only in a pass; the slot a message is    *)
(* taken for matches.                                                      *)
PassState ==
  /\ InPass => slot \in 1..(Len(observers) + 1)
  /\ ~InPass => slot = 0
  /\ pc \in {"getMessage", "notify", "returnMessage"} =>
       Matching(observers[slot], swmobs[num])

(* What an observer may read is a frame.                                   *)
HeldFrames ==
  \A o \in Observers :
    /\ \A i \in 1..Len(queue[o]) : pool[queue[o][i]].frame # Null
    /\ taken[o] # NoMessage => pool[taken[o]].frame # Null

DeliveryInv ==
  /\ SwMobsInv /\ PoolInv
  /\ FetchedFrames /\ PassState /\ OnceEach(observers) /\ HeldFrames

(* A step that moves no frame between mailboxes and swmobs.                *)
LEMMA FramesStay ==
  ASSUME FetchedFrames, UNCHANGED <<mailbox, swmobs, usedSwMobs, num>>,
         intPending' = intPending, Dispatching' => Dispatching
  PROVE  FetchedFrames'
BY DEF FetchedFrames

(* The peripheral puts frames into mailboxes.                              *)
LEMMA PeripheralFrames ==
  ASSUME TypedState, FetchedFrames, Peripheral
  PROVE  FetchedFrames'
<1>1. UNCHANGED <<swmobs, usedSwMobs, num, pc>>
  BY DEF Peripheral, FrameArrives, FrameSent, BusError, swQueues, task
<1>2. ASSUME NEW m \in RxMob, m \in intPending' PROVE mailbox'[m] # Null
  <2>1. ASSUME NEW f \in Frames, FrameArrives(f) PROVE mailbox'[m] # Null
    <3> DEFINE empty  == {n \in RxMob : mailbox[n] = Null}
               target == IF empty = {} THEN RxMobs ELSE Min(empty)
    <3>1. /\ mailbox' = [mailbox EXCEPT ![target] = f]
          /\ intPending' = intPending \cup {target}
      BY <2>1 DEF FrameArrives
    <3> HIDE DEF target
    <3>2. f # Null /\ DOMAIN mailbox = RxMob
      BY CANReceiveAssumption DEF TypedState, TypeOK
    <3>3. CASE m = target
      BY <3>1, <3>2, <3>3
    <3>4. CASE m # target
      BY <1>2, <3>1, <3>2, <3>4 DEF FetchedFrames
    <3> QED
      BY <3>3, <3>4
  <2>2. ASSUME NEW n \in TxMob, FrameSent(n) PROVE mailbox'[m] # Null
    <3>1. n # m
      BY CANReceiveAssumption DEF RxMob, TxMob
    <3> QED
      BY <1>2, <2>2, <3>1 DEF FrameSent, FetchedFrames
  <2>3. ASSUME BusError PROVE mailbox'[m] # Null
    BY <1>2, <2>3 DEF BusError, FetchedFrames
  <2> QED
    BY <2>1, <2>2, <2>3 DEF Peripheral
<1>3. Dispatching' <=> Dispatching
  BY <1>1 DEF Dispatching
<1> QED
  BY <1>1, <1>2, <1>3 DEF FetchedFrames

(* What the interrupt handler does to the frames: it moves one from a      *)
(* mailbox to the end of the used queue, or leaves that queue alone.       *)
LEMMA HandlerFetches ==
  ASSUME SwMobsInv, FetchedFrames, HandleInterrupt
  PROVE  \/ \E s \in SwMobs : \E f \in Frames :
              /\ usedSwMobs' = Append(usedSwMobs, s)
              /\ swmobs' = [swmobs EXCEPT ![s] = f]
              /\ s \notin ToSet(usedSwMobs) /\ s # num
         \/ \E s \in SwMobs :
              /\ usedSwMobs' = usedSwMobs
              /\ swmobs' = [swmobs EXCEPT ![s] = Null]
              /\ s \notin ToSet(usedSwMobs) /\ s # num
         \/ UNCHANGED <<usedSwMobs, swmobs>>
<1>1. /\ freeSwMobs \in Seq(SwMobs) /\ usedSwMobs \in Seq(SwMobs)
      /\ mailbox \in [RxMob -> Contents] /\ intPending \subseteq RxMob \cup TxMob
  BY DEF SwMobsInv, TypedState, TypeOK
<1>2. CASE freeSwMobs = <<>>
  BY <1>2 DEF HandleInterrupt, swQueues
<1>3. CASE freeSwMobs # <<>>
  <2> DEFINE s == Head(freeSwMobs)
  <2>1. s \in SwMobs /\ s \in ToSet(freeSwMobs)
    BY <1>1, <1>3, TailElements
  <2>2. s \notin ToSet(usedSwMobs) /\ s # num /\ IsInjective(usedSwMobs)
    BY <2>1, CANReceiveAssumption DEF SwMobsInv, SwMobsConserved, InHand
  <2>3. CASE FetchRx
    <3>1. /\ usedSwMobs' = Push(usedSwMobs, s)
          /\ swmobs' = [swmobs EXCEPT ![s] = mailbox[Cause]]
          /\ Cause \in RxMob
      BY <2>3 DEF FetchRx
    <3>2. Push(usedSwMobs, s) = Append(usedSwMobs, s)
      BY <1>1, <2>1, <2>2, PushAppends
    <3>3. Cause \in intPending
      <4>1. intPending \in SUBSET Nat
        BY <1>1, CANReceiveAssumption DEF RxMob, TxMob
      <4> QED
        BY <4>1, MinInSet DEF Cause, HandleInterrupt
    <3>4. mailbox[Cause] \in Frames
      BY <1>1, <3>1, <3>3 DEF FetchedFrames, Contents
    <3> QED
      BY <2>1, <2>2, <3>1, <3>2, <3>4
  <2>4. CASE FetchTx
    BY <2>1, <2>2, <2>4 DEF FetchTx
  <2> QED
    BY <1>3, <2>3, <2>4 DEF HandleInterrupt
<1> QED
  BY <1>2, <1>3

(* The interrupt handler leaves an interrupt only with its frame.          *)
LEMMA HandlerFrames ==
  ASSUME SwMobsInv, FetchedFrames, HandleInterrupt
  PROVE  FetchedFrames'
<1>1. /\ usedSwMobs \in Seq(SwMobs) /\ swmobs \in [SwMobs -> Contents]
      /\ mailbox \in [RxMob -> Contents]
      /\ Len(usedSwMobs) \in Nat
      /\ num \in SwMobs \cup {Null}
  BY LenProperties DEF SwMobsInv, TypedState, TypeOK
<1>2. /\ intPending' = intPending \ {Cause} /\ num' = num /\ pc' = pc
      /\ \/ UNCHANGED mailbox
         \/ mailbox' = [mailbox EXCEPT ![Cause] = Null]
  BY DEF HandleInterrupt, FetchRx, FetchTx, task
<1>3. ASSUME NEW m \in RxMob, m \in intPending' PROVE mailbox'[m] # Null
  BY <1>1, <1>2, <1>3 DEF FetchedFrames
<1>4. Dispatching' <=> Dispatching
  BY <1>2 DEF Dispatching
<1>5. ASSUME NEW s \in SwMobs, NEW c, swmobs' = [swmobs EXCEPT ![s] = c],
             s \notin ToSet(usedSwMobs), s # num
      PROVE  /\ \A i \in 1..Len(usedSwMobs) : swmobs'[usedSwMobs[i]] # Null
             /\ Dispatching => swmobs'[num] # Null
  <2>1. ASSUME NEW i \in 1..Len(usedSwMobs) PROVE swmobs'[usedSwMobs[i]] # Null
    <3>1. usedSwMobs[i] \in SwMobs /\ usedSwMobs[i] # s
      BY <1>1, <1>5, ElementOfSeq, LenProperties DEF ToSet
    <3> QED
      BY <1>1, <1>5, <3>1 DEF FetchedFrames
  <2>2. ASSUME Dispatching PROVE swmobs'[num] # Null
    <3>1. num \in SwMobs
      BY <1>1, <2>2 DEF Dispatching, SwMobsInv, TypedState, TaskState
    <3> QED
      BY <1>1, <1>5, <2>2, <3>1 DEF FetchedFrames
  <2> QED
    BY <2>1, <2>2
<1>6. /\ \A i \in 1..Len(usedSwMobs') : swmobs'[usedSwMobs'[i]] # Null
      /\ Dispatching => swmobs'[num] # Null
  <2>1. ASSUME NEW s \in SwMobs, NEW f \in Frames,
               usedSwMobs' = Append(usedSwMobs, s),
               swmobs' = [swmobs EXCEPT ![s] = f],
               s \notin ToSet(usedSwMobs), s # num
        PROVE  /\ \A i \in 1..Len(usedSwMobs') : swmobs'[usedSwMobs'[i]] # Null
               /\ Dispatching => swmobs'[num] # Null
    <3>1. /\ Len(usedSwMobs') = Len(usedSwMobs) + 1
          /\ \A i \in 1..Len(usedSwMobs) : usedSwMobs'[i] = usedSwMobs[i]
          /\ usedSwMobs'[Len(usedSwMobs) + 1] = s
      BY <1>1, <2>1, AppendProperties
    <3>2. /\ \A i \in 1..Len(usedSwMobs) : swmobs'[usedSwMobs[i]] # Null
          /\ Dispatching => swmobs'[num] # Null
      BY <1>5, <2>1
    <3>3. swmobs'[s] # Null
      BY <1>1, <2>1, CANReceiveAssumption
    <3> QED
      BY <1>1, <3>1, <3>2, <3>3
  <2>2. ASSUME NEW s \in SwMobs, usedSwMobs' = usedSwMobs,
               swmobs' = [swmobs EXCEPT ![s] = Null],
               s \notin ToSet(usedSwMobs), s # num
        PROVE  /\ \A i \in 1..Len(usedSwMobs') : swmobs'[usedSwMobs'[i]] # Null
               /\ Dispatching => swmobs'[num] # Null
    BY <1>5, <2>2
  <2>3. ASSUME UNCHANGED <<usedSwMobs, swmobs>>
        PROVE  /\ \A i \in 1..Len(usedSwMobs') : swmobs'[usedSwMobs'[i]] # Null
               /\ Dispatching => swmobs'[num] # Null
    BY <2>3 DEF FetchedFrames
  <2> QED
    BY <2>1, <2>2, <2>3, HandlerFetches
<1> QED
  BY <1>2, <1>3, <1>4, <1>6 DEF FetchedFrames

(* The CAN task takes a waiting swmob and gives back what it dispatched.   *)
LEMMA ExecuteFrames ==
  ASSUME SwMobsInv, FetchedFrames, Execute
  PROVE  FetchedFrames'
<1> USE DEF hardware, swQueues, registry, poolVars, task, readers
<1>1. usedSwMobs \in Seq(SwMobs) /\ swmobs \in [SwMobs -> Contents]
  BY DEF SwMobsInv, TypedState, TypeOK
<1>2. CASE ReceiveSwMob
  <2>1. CASE usedSwMobs # <<>>
    <3>1. /\ num' = Head(usedSwMobs) /\ usedSwMobs' = Tail(usedSwMobs)
          /\ UNCHANGED <<mailbox, intPending, swmobs>>
      BY <1>2, <2>1 DEF ReceiveSwMob
    <3>2. /\ Len(Tail(usedSwMobs)) = Len(usedSwMobs) - 1 /\ Len(usedSwMobs) \in Nat \ {0}
          /\ \A i \in 1..Len(Tail(usedSwMobs)) : Tail(usedSwMobs)[i] = usedSwMobs[i + 1]
          /\ Head(usedSwMobs) = usedSwMobs[1]
      BY <1>1, <2>1, HeadTailProperties, EmptySeq
    <3> QED
      BY <3>1, <3>2 DEF FetchedFrames
  <2>2. CASE usedSwMobs = <<>>
    BY <1>2, <2>2 DEF ReceiveSwMob, FetchedFrames, Dispatching
  <2> QED
    BY <2>1, <2>2
<1>3. CASE GiveBackSwMob
  <2>1. /\ swmobs' = [swmobs EXCEPT ![num] = Null] /\ pc' = "receive"
        /\ UNCHANGED <<mailbox, intPending, usedSwMobs>>
    BY <1>3 DEF GiveBackSwMob
  <2>2. num \notin ToSet(usedSwMobs)
    BY <1>3 DEF GiveBackSwMob, SwMobsInv, TypedState, TaskState, SwMobsConserved, InHand
  <2>3. ASSUME NEW i \in 1..Len(usedSwMobs) PROVE swmobs'[usedSwMobs[i]] # Null
    <3>1. usedSwMobs[i] \in SwMobs /\ usedSwMobs[i] # num
      BY <1>1, <2>2, ElementOfSeq, LenProperties DEF ToSet
    <3> QED
      BY <1>1, <2>1, <3>1 DEF FetchedFrames
  <2> QED
    BY <2>1, <2>3 DEF FetchedFrames, Dispatching
<1>4. CASE ReinitController
  BY <1>4 DEF ReinitController, FetchedFrames, Dispatching
<1>5. CASE \/ LockObservers \/ SkipSlot \/ EnterGetMessage
           \/ GetMessage \/ Notify \/ ReturnUndelivered \/ UnlockObservers
           \/ PeekAndCheckStatus \/ RestartController
  <2>1. /\ UNCHANGED <<mailbox, intPending, swmobs, usedSwMobs, num>>
        /\ Dispatching' => Dispatching
    BY <1>5 DEF LockObservers, SkipSlot, EnterGetMessage, GetMessage, Notify,
       ReturnUndelivered, UnlockObservers, PeekAndCheckStatus, RestartController,
       AtSlot, Dispatching
  <2> QED
    BY <2>1, FramesStay
<1> QED
  BY <1>2, <1>3, <1>4, <1>5 DEF Execute

(* Every step keeps what is fetched a frame.                               *)
LEMMA NextFrames ==
  ASSUME SwMobsInv, FetchedFrames, [Next]_vars
  PROVE  FetchedFrames'
<1>1. ASSUME UNCHANGED <<mailbox, swmobs, usedSwMobs, num>>,
             intPending' = intPending, Dispatching' => Dispatching
      PROVE  FetchedFrames'
  BY <1>1, FramesStay
<1> USE DEF hardware, swQueues, registry, poolVars, task, readers
<1>2. CASE Peripheral
  BY <1>2, PeripheralFrames DEF SwMobsInv
<1>3. CASE HandleInterrupt
  BY <1>3, HandlerFrames
<1>4. CASE Execute
  BY <1>4, ExecuteFrames
<1>5. ASSUME NEW o \in Observers, NEW filter \in Filters,
             RegisterObserver(o, filter) \/ UnregisterFilter(o, filter)
      PROVE  FetchedFrames'
  BY <1>1, <1>5 DEF RegisterObserver, UnregisterFilter, Dispatching
<1>6. ASSUME NEW o \in Observers, UnregisterObserver(o) PROVE FetchedFrames'
  BY <1>1, <1>6 DEF UnregisterObserver, Dispatching
<1>7. CASE Enable
  BY <1>1, <1>7 DEF Enable, Dispatching
<1>8. CASE Disable
  BY <1>8 DEF Disable, FetchedFrames, Dispatching
<1>9. ASSUME NEW o \in Observers, Read(o) PROVE FetchedFrames'
  BY <1>1, <1>9 DEF Read, TakeMessage, AssignMessage, ReturnMessage, Dispatching
<1>10. CASE UNCHANGED vars
  BY <1>1, <1>10 DEF vars, Dispatching
<1> QED
  BY <1>2, <1>3, <1>4, <1>5, <1>6, <1>7, <1>8, <1>9, <1>10 DEF Next, Application

(* What the CAN task is dispatching stays in its swmob.                    *)
LEMMA HandlerKeepsInHand ==
  ASSUME SwMobsInv, FetchedFrames, HandleInterrupt, num # Null
  PROVE  swmobs'[num] = swmobs[num]
<1>1. num \in SwMobs /\ DOMAIN swmobs = SwMobs
  BY DEF SwMobsInv, TypedState, TypeOK
<1> QED
  BY <1>1, HandlerFetches

(* Every step keeps the walk within the list, outside a pass there is      *)
(* none, and the slot it has stopped at matches.                           *)
LEMMA NextPass ==
  ASSUME SwMobsInv, FetchedFrames, PassState, [Next]_vars
  PROVE  PassState'
<1> USE DEF hardware, swQueues, registry, poolVars, task, readers
<1>1. /\ observers \in Seq(Slot) /\ Len(observers) \in Nat /\ slot \in Nat
      /\ TaskState
  BY LenProperties DEF SwMobsInv, TypedState, TypeOK
<1>2. ASSUME UNCHANGED <<pc, slot, num, observers>>, num # Null => swmobs'[num] = swmobs[num]
      PROVE  PassState'
  BY <1>1, <1>2 DEF PassState, InPass, TaskState
<1>3. CASE Peripheral
  BY <1>2, <1>3 DEF Peripheral, FrameArrives, FrameSent, BusError
<1>4. CASE HandleInterrupt
  BY <1>2, <1>4, HandlerKeepsInHand DEF HandleInterrupt
<1>5. CASE Execute
  <2>1. CASE ReceiveSwMob \/ GiveBackSwMob \/ PeekAndCheckStatus \/ ReinitController
             \/ RestartController
    BY <2>1 DEF ReceiveSwMob, GiveBackSwMob, PeekAndCheckStatus, ReinitController,
       RestartController, PassState, InPass
  <2>2. CASE LockObservers \/ UnlockObservers
    BY <1>1, <2>2 DEF LockObservers, UnlockObservers, PassState, InPass
  <2>3. CASE SkipSlot
    BY <1>1, <2>3 DEF SkipSlot, AtSlot, PassState, InPass
  <2>4. CASE EnterGetMessage
    BY <1>1, <2>4 DEF EnterGetMessage, AtSlot, PassState, InPass
  <2>5. CASE GetMessage
    BY <1>1, <2>5 DEF GetMessage, PassState, InPass, TaskState
  <2>6. CASE Notify
    BY <1>1, <2>6 DEF Notify, PassState, InPass, TaskState
  <2>7. CASE ReturnUndelivered
    BY <1>1, <2>7 DEF ReturnUndelivered, PassState, InPass, TaskState
  <2> QED
    BY <1>5, <2>1, <2>2, <2>3, <2>4, <2>5, <2>6, <2>7 DEF Execute
<1>6. ASSUME NEW o \in Observers, NEW filter \in Filters,
             RegisterObserver(o, filter) \/ UnregisterFilter(o, filter)
      PROVE  PassState'
  BY <1>1, <1>6 DEF RegisterObserver, UnregisterFilter, PassState, InPass, TaskState
<1>7. ASSUME NEW o \in Observers, UnregisterObserver(o) PROVE PassState'
  BY <1>1, <1>7 DEF UnregisterObserver, PassState, InPass, TaskState
<1>8. CASE Enable
  BY <1>8 DEF Enable, PassState, InPass
<1>9. CASE Disable
  BY <1>9 DEF Disable, PassState, InPass
<1>10. ASSUME NEW o \in Observers, Read(o) PROVE PassState'
  BY <1>2, <1>10 DEF Read, TakeMessage, AssignMessage, ReturnMessage
<1>11. CASE UNCHANGED vars
  BY <1>2, <1>11 DEF vars
<1> QED
  BY <1>3, <1>4, <1>5, <1>6, <1>7, <1>8, <1>9, <1>10, <1>11 DEF Next, Application

(* What unregistering does to the list.                                    *)
LEMMA UnregisterEmpties ==
  ASSUME NEW list \in Seq(Slot), NEW o, NEW filter,
         NEW after, after = Unregistered(list, o) \/ after = UnregisteredFilter(list, o, filter)
  PROVE  /\ Len(after) = Len(list)
         /\ \A i \in 1..Len(list) : after[i] = list[i] \/ after[i] = EmptySlot
<1>1. Len(list) \in Nat
  BY LenProperties
<1>2. DOMAIN after = 1..Len(list) /\ after = [i \in 1..Len(list) |-> after[i]]
  BY DEF Unregistered, UnregisteredFilter
<1>3. Len(after) = Len(list)
  <2>1. after \in Seq({after[i] : i \in 1..Len(list)})
    BY <1>1, <1>2
  <2>2. DOMAIN after = 1..Len(after) /\ Len(after) \in Nat
    BY <2>1, LenProperties
  <2> QED
    BY <1>1, <1>2, <2>2
<1> QED
  BY <1>1, <1>3 DEF Unregistered, UnregisteredFilter

(* Every step keeps the registrations distinct.                            *)
LEMMA NextOnce ==
  ASSUME TypedState, OnceEach(observers), [Next]_vars
  PROVE  OnceEach(observers)'
<1> USE DEF hardware, swQueues, registry, poolVars, task, readers
<1>1. observers \in Seq(Slot)
  BY DEF TypedState, TypeOK
<1>2. ASSUME observers' = observers PROVE OnceEach(observers)'
  BY <1>2 DEF OnceEach
<1>3. ASSUME NEW o \in Observers, NEW filter \in Filters, RegisterObserver(o, filter)
      PROVE  OnceEach(observers)'
  <2>1. filter \in Filter
    BY CANReceiveAssumption
  <2>2. OnceEach(Registered(observers, o, filter))
    BY <1>1, <2>1, RegisteredEnters
  <2> QED
    BY <1>3, <2>2 DEF RegisterObserver, OnceEach
<1>4. ASSUME NEW o \in Observers, NEW filter \in Filters, UnregisterFilter(o, filter)
      PROVE  OnceEach(observers)'
  <2>1. OnceEach(UnregisteredFilter(observers, o, filter))
    BY <1>1, UnregisterEmpties, EmptiedRemoves
  <2> QED
    BY <1>4, <2>1 DEF UnregisterFilter, OnceEach
<1>5. ASSUME NEW o \in Observers, UnregisterObserver(o) PROVE OnceEach(observers)'
  <2>1. OnceEach(Unregistered(observers, o))
    BY <1>1, UnregisterEmpties, EmptiedRemoves
  <2> QED
    BY <1>5, <2>1 DEF UnregisterObserver, OnceEach
<1>6. ASSUME \/ Peripheral \/ HandleInterrupt \/ Execute \/ Enable \/ Disable
             \/ \E o \in Observers : Read(o)
             \/ UNCHANGED vars
      PROVE  observers' = observers
  BY <1>6 DEF Peripheral, FrameArrives, FrameSent, BusError, HandleInterrupt, Execute,
     ReceiveSwMob, LockObservers, SkipSlot, EnterGetMessage, GetMessage, Notify,
     ReturnUndelivered, UnlockObservers, GiveBackSwMob, PeekAndCheckStatus,
     ReinitController, RestartController, Enable, Disable, Read, TakeMessage,
     AssignMessage, ReturnMessage, vars
<1> QED
  BY <1>2, <1>3, <1>4, <1>5, <1>6 DEF Next, Application

(* A message that an observer has before and after a step keeps its frame: *)
(* only the CAN task writes into messages, and into the one in its hand.   *)
LEMMA FramesKept ==
  ASSUME PoolInv, [Next]_vars, NEW p \in 1..Len(pool), Held(p), Held(p)', p # msg
  PROVE  pool'[p] = pool[p]
<1> USE DEF hardware, swQueues, registry, poolVars, task, readers
<1>1. /\ TypedState /\ pool \in Seq(PoolEntry) /\ Len(pool) <= PoolSize
      /\ Len(pool) \in Nat /\ DOMAIN pool = 1..Len(pool)
  BY PoolTypes, LenProperties DEF PoolInv, TypedState, TypeOK
<1>2. CASE GetMessage
  <2>1. pool' = AfterGet(pool, Null)
    BY <1>2 DEF GetMessage
  <2>2. Lent(pool) # p
    <3>1. pool[p].inUse
      BY DEF PoolInv, HeldInUse
    <3> QED
      BY <1>1, <3>1, GetLends
  <2> QED
    BY <1>1, <2>1, <2>2, GetLends
<1>3. CASE Notify
  BY <1>1, <1>3 DEF Notify
<1>4. CASE ReturnUndelivered
  <2>1. pool' = AfterReturn(pool, msg, Null)
    BY <1>4 DEF ReturnUndelivered
  <2> QED
    BY <1>1, <2>1, PoolTypes, ReturnFrees
<1>5. ASSUME NEW o \in Observers, ReturnMessage(o) PROVE pool'[p] = pool[p]
  <2>1. /\ pool' = AfterReturn(pool, taken[o], Null) /\ taken[o] \in 0..Len(pool)
        /\ taken' = [taken EXCEPT ![o] = NoMessage] /\ queue' = queue /\ msg' = msg
        /\ DOMAIN taken = Observers
    BY <1>1, <1>5, PoolTypes DEF ReturnMessage, TypedState, TypeOK
  <2>2. p # taken[o]
    <3> SUFFICES ASSUME p = taken[o] PROVE FALSE
      OBVIOUS
    <3>1. \E x \in Observers : taken'[x] = p
      BY <2>1 DEF PoolInv, NoSharing, Held, NoMessage
    <3> QED
      BY <2>1, <3>1 DEF PoolInv, NoSharing, NoMessage
  <2> QED
    BY <1>1, <2>1, <2>2, ReturnFrees
<1>6. ASSUME \/ Peripheral \/ HandleInterrupt \/ ReceiveSwMob \/ LockObservers \/ SkipSlot
             \/ EnterGetMessage \/ UnlockObservers \/ GiveBackSwMob \/ PeekAndCheckStatus
             \/ ReinitController \/ RestartController \/ Application
             \/ \E o \in Observers : TakeMessage(o) \/ AssignMessage(o)
             \/ UNCHANGED vars
      PROVE  pool' = pool
  BY <1>6 DEF Peripheral, FrameArrives, FrameSent, BusError, HandleInterrupt,
     ReceiveSwMob, LockObservers, SkipSlot, EnterGetMessage, UnlockObservers,
     GiveBackSwMob, PeekAndCheckStatus, ReinitController, RestartController,
     Application, RegisterObserver, UnregisterFilter, UnregisterObserver, Enable, Disable,
     TakeMessage, AssignMessage, vars
<1> QED
  BY <1>2, <1>3, <1>4, <1>5, <1>6 DEF Next, Execute, Read

(* What a reader or a queue refers to before and after a step keeps its    *)
(* frame.                                                                  *)
LEMMA ReadersFramesKept ==
  ASSUME PoolInv, [Next]_vars, NEW o \in Observers
  PROVE  /\ \A i \in 1..Len(queue[o]) : \A j \in 1..Len(queue'[o]) :
              queue'[o][j] = queue[o][i] => pool'[queue[o][i]] = pool[queue[o][i]]
         /\ \A i \in 1..Len(queue[o]) :
              taken'[o] = queue[o][i] => pool'[queue[o][i]] = pool[queue[o][i]]
         /\ taken[o] # NoMessage /\ taken'[o] = taken[o] => pool'[taken[o]] = pool[taken[o]]
<1>1. /\ \A i \in 1..Len(queue[o]) : queue[o][i] \in 1..Len(pool) /\ queue[o][i] # msg
      /\ taken[o] \in 0..Len(pool) /\ Len(pool) \in Nat
      /\ taken[o] # NoMessage => taken[o] \in 1..Len(pool) /\ taken[o] # msg
  BY PoolTypes DEF PoolInv, NoSharing, NoMessage
<1>2. ASSUME NEW i \in 1..Len(queue[o]), NEW j \in 1..Len(queue'[o]),
             queue'[o][j] = queue[o][i]
      PROVE  pool'[queue[o][i]] = pool[queue[o][i]]
  <2>1. PICK p \in 1..Len(pool) : p = queue[o][i]
    BY <1>1, <1>2
  <2>2. Held(p) /\ Held(p)' /\ p # msg
    BY <1>1, <1>2, <2>1 DEF Held
  <2> QED
    BY <2>1, <2>2, FramesKept
<1>3. ASSUME NEW i \in 1..Len(queue[o]), taken'[o] = queue[o][i]
      PROVE  pool'[queue[o][i]] = pool[queue[o][i]]
  <2>1. PICK p \in 1..Len(pool) : p = queue[o][i]
    BY <1>1, <1>3
  <2>2. Held(p) /\ Held(p)' /\ p # msg
    BY <1>1, <1>3, <2>1 DEF Held
  <2> QED
    BY <2>1, <2>2, FramesKept
<1>4. ASSUME taken[o] # NoMessage, taken'[o] = taken[o]
      PROVE  pool'[taken[o]] = pool[taken[o]]
  <2>1. PICK p \in 1..Len(pool) : p = taken[o]
    BY <1>1, <1>4
  <2>2. Held(p) /\ Held(p)' /\ p # msg
    BY <1>1, <1>4, <2>1 DEF Held
  <2> QED
    BY <2>1, <2>2, FramesKept
<1> QED
  BY <1>2, <1>3, <1>4

(* notifyCANMessage() puts the frame into the message, and the message     *)
(* into the queue if there is room.                                        *)
LEMMA NotifyFills ==
  ASSUME PoolInv, Notify
  PROVE  LET o == observers[slot].observer
         IN  /\ o \in Observers /\ msg \in 1..Len(pool)
             /\ pool'[msg].frame = swmobs[num]
             /\ UNCHANGED <<taken, got>>
             /\ \A x \in Observers : x # o => queue'[x] = queue[x]
             /\ \/ /\ Len(queue[o]) < ObserverQueue
                   /\ queue'[o] = Append(queue[o], msg)
                   /\ Len(queue'[o]) = Len(queue[o]) + 1
                   /\ queue'[o][Len(queue[o]) + 1] = msg
                   /\ \A i \in 1..Len(queue[o]) : queue'[o][i] = queue[o][i]
                   /\ pc' = "walk" /\ slot' = slot + 1
                \/ /\ Len(queue[o]) >= ObserverQueue
                   /\ queue'[o] = queue[o]
                   /\ pc' = "returnMessage" /\ slot' = slot
<1> DEFINE o == observers[slot].observer
<1>1. /\ TypedState /\ o \in Observers /\ msg \in 1..Len(pool)
      /\ swmobs[num] \in Contents
      /\ pool' = [pool EXCEPT ![msg].frame = swmobs[num]]
      /\ UNCHANGED <<taken, got>>
      /\ pool \in Seq(PoolEntry) /\ DOMAIN queue = Observers
  BY DEF PoolInv, Notify, TypedState, TypeOK, TaskState, NoMessage
<1>2. pool'[msg].frame = swmobs[num]
  <2>1. pool[msg] \in PoolEntry /\ DOMAIN pool = 1..Len(pool)
    BY <1>1, ElementOfSeq, LenProperties
  <2>2. pool'[msg] = [pool[msg] EXCEPT !.frame = swmobs[num]]
    BY <1>1, <2>1
  <2> QED
    BY <2>1, <2>2 DEF PoolEntry
<1>3. /\ queue[o] \in Seq(1..Len(pool)) /\ Len(queue[o]) \in Nat /\ ObserverQueue \in Nat
  BY <1>1, PoolTypes
<1>4. CASE Len(queue[o]) < ObserverQueue
  <2>1. /\ queue' = [queue EXCEPT ![o] = Append(@, msg)]
        /\ pc' = "walk" /\ slot' = slot + 1
    BY <1>3, <1>4 DEF Notify
  <2>2. /\ queue'[o] = Append(queue[o], msg)
        /\ \A x \in Observers : x # o => queue'[x] = queue[x]
    BY <1>1, <2>1
  <2>3. /\ Len(queue'[o]) = Len(queue[o]) + 1
        /\ queue'[o][Len(queue[o]) + 1] = msg
        /\ \A i \in 1..Len(queue[o]) : queue'[o][i] = queue[o][i]
    BY <1>1, <1>3, <2>2, AppendProperties
  <2> HIDE DEF o
  <2> QED
    BY <1>1, <1>2, <1>4, <2>1, <2>2, <2>3 DEF o
<1>5. CASE Len(queue[o]) >= ObserverQueue
  <2>1. queue' = queue /\ pc' = "returnMessage" /\ slot' = slot
    BY <1>3, <1>5 DEF Notify
  <2> QED
    BY <1>1, <1>2, <1>5, <2>1
<1> QED
  BY <1>3, <1>4, <1>5

(* What every other step does to queues and readers.                       *)
LEMMA ReadersStep ==
  ASSUME PoolInv, [Next]_vars
  PROVE  \/ Notify
         \/ \E o \in Observers : TakeMessage(o) \/ AssignMessage(o) \/ ReturnMessage(o)
         \/ UNCHANGED <<queue, taken, got>>
BY DEF Next, Peripheral, FrameArrives, FrameSent, BusError, HandleInterrupt, Execute,
   ReceiveSwMob, LockObservers, SkipSlot, EnterGetMessage, GetMessage, ReturnUndelivered,
   UnlockObservers, GiveBackSwMob, PeekAndCheckStatus, ReinitController,
   RestartController, Application, RegisterObserver, UnregisterFilter,
   UnregisterObserver, Enable, Disable, Read, vars, readers

(* Taking a message makes the head of the queue the reader's.              *)
LEMMA TakeMoves ==
  ASSUME PoolInv, NEW o \in Observers, TakeMessage(o)
  PROVE  /\ 1 \in 1..Len(queue[o])
         /\ taken[o] = NoMessage /\ got[o] = Null
         /\ taken'[o] = queue[o][1] /\ taken'[o] # NoMessage
         /\ queue'[o] = Tail(queue[o])
         /\ Len(queue'[o]) = Len(queue[o]) - 1
         /\ \A i \in 1..Len(queue'[o]) : queue'[o][i] = queue[o][i + 1]
         /\ \A x \in Observers : x # o => taken'[x] = taken[x] /\ queue'[x] = queue[x]
         /\ got' = got
<1>1. /\ taken[o] = NoMessage /\ queue[o] # <<>>
      /\ taken' = [taken EXCEPT ![o] = Head(queue[o])]
      /\ queue' = [queue EXCEPT ![o] = Tail(@)]
      /\ DOMAIN taken = Observers /\ DOMAIN queue = Observers
      /\ got' = got /\ got[o] = Null
  BY DEF PoolInv, TypedState, TypeOK, TakeMessage, ReaderState
<1>2. /\ queue[o] \in Seq(1..Len(pool)) /\ Len(queue[o]) \in Nat \ {0}
      /\ \A i \in 1..Len(queue[o]) : queue[o][i] \in 1..Len(pool)
      /\ Len(pool) \in Nat
  BY <1>1, PoolTypes, EmptySeq DEF PoolInv
<1>3. queue'[o] = Tail(queue[o]) /\ taken'[o] = Head(queue[o])
  BY <1>1
<1>4. /\ Len(Tail(queue[o])) = Len(queue[o]) - 1
      /\ \A i \in 1..Len(Tail(queue[o])) : Tail(queue[o])[i] = queue[o][i + 1]
      /\ Head(queue[o]) = queue[o][1]
  BY <1>1, <1>2, HeadTailProperties
<1>5. queue[o][1] # NoMessage
  BY <1>2 DEF NoMessage
<1> QED
  BY <1>1, <1>2, <1>3, <1>4, <1>5

(* Every step keeps what observers may read frames.                        *)
LEMMA NextHeld ==
  ASSUME PoolInv, FetchedFrames, HeldFrames, [Next]_vars
  PROVE  HeldFrames'
<1> SUFFICES ASSUME NEW o \in Observers
             PROVE  /\ \A i \in 1..Len(queue'[o]) : pool'[queue'[o][i]].frame # Null
                    /\ taken'[o] # NoMessage => pool'[taken'[o]].frame # Null
  BY DEF HeldFrames
<1>1. Len(queue[o]) \in Nat
  BY PoolTypes DEF PoolInv
<1>2. ASSUME queue'[o] = queue[o] PROVE \A i \in 1..Len(queue'[o]) : pool'[queue'[o][i]].frame # Null
  BY <1>2, ReadersFramesKept DEF HeldFrames
<1>3. ASSUME taken'[o] = taken[o] PROVE taken'[o] # NoMessage => pool'[taken'[o]].frame # Null
  BY <1>3, ReadersFramesKept DEF HeldFrames
<1>4. CASE Notify
  <2>1. swmobs[num] # Null
    BY <1>4 DEF Notify, FetchedFrames, Dispatching
  <2>2. taken'[o] = taken[o]
    BY <1>4, NotifyFills
  <2>3. CASE queue'[o] = queue[o]
    BY <1>2, <1>3, <2>2, <2>3
  <2>4. CASE queue'[o] # queue[o]
    <3>1. /\ pool'[msg].frame = swmobs[num]
          /\ Len(queue'[o]) = Len(queue[o]) + 1
          /\ queue'[o][Len(queue[o]) + 1] = msg
          /\ \A i \in 1..Len(queue[o]) : queue'[o][i] = queue[o][i]
      BY <1>4, <2>4, NotifyFills
    <3>2. ASSUME NEW i \in 1..Len(queue[o]) PROVE pool'[queue'[o][i]].frame # Null
      <4>1. i \in 1..Len(queue'[o]) /\ queue'[o][i] = queue[o][i]
        BY <1>1, <3>1
      <4>2. pool'[queue[o][i]] = pool[queue[o][i]]
        BY <4>1, ReadersFramesKept
      <4> QED
        BY <4>1, <4>2 DEF HeldFrames
    <3>3. ASSUME NEW i \in 1..Len(queue'[o]) PROVE pool'[queue'[o][i]].frame # Null
      BY <1>1, <2>1, <3>1, <3>2
    <3> QED
      BY <1>3, <2>2, <3>3
  <2> QED
    BY <2>3, <2>4
<1>5. ASSUME NEW x \in Observers, TakeMessage(x)
      PROVE  /\ \A i \in 1..Len(queue'[o]) : pool'[queue'[o][i]].frame # Null
             /\ taken'[o] # NoMessage => pool'[taken'[o]].frame # Null
  <2>1. CASE x # o
    BY <1>2, <1>3, <1>5, <2>1, TakeMoves
  <2>2. CASE x = o
    <3>1. /\ 1 \in 1..Len(queue[o]) /\ taken'[o] = queue[o][1]
          /\ Len(queue'[o]) = Len(queue[o]) - 1
          /\ \A i \in 1..Len(queue'[o]) : queue'[o][i] = queue[o][i + 1]
          /\ pool' = pool
      BY <1>5, <2>2, TakeMoves DEF TakeMessage, poolVars
    <3> QED
      BY <1>1, <3>1 DEF HeldFrames
  <2> QED
    BY <2>1, <2>2
<1>6. ASSUME NEW x \in Observers, AssignMessage(x)
      PROVE  queue' = queue /\ taken' = taken
  BY <1>6 DEF AssignMessage
<1>7. ASSUME NEW x \in Observers, ReturnMessage(x)
      PROVE  /\ \A i \in 1..Len(queue'[o]) : pool'[queue'[o][i]].frame # Null
             /\ taken'[o] # NoMessage => pool'[taken'[o]].frame # Null
  <2>1. /\ queue' = queue /\ taken' = [taken EXCEPT ![x] = NoMessage]
        /\ DOMAIN taken = Observers
    BY <1>7 DEF ReturnMessage, PoolInv, TypedState, TypeOK
  <2> QED
    BY <1>2, <1>3, <2>1
<1> QED
  BY <1>2, <1>3, <1>4, <1>5, <1>6, <1>7, ReadersStep

(* The invariant holds at the start ...                                    *)
LEMMA InitDelivery == Init => DeliveryInv
<1> SUFFICES ASSUME Init PROVE DeliveryInv
  OBVIOUS
<1>1. SwMobsInv /\ PoolInv
  BY InitTyped, InitSwMobs, InitPool DEF SwMobsInv
<1>2. FetchedFrames /\ PassState /\ HeldFrames
  BY DEF Init, FetchedFrames, PassState, InPass, Dispatching, HeldFrames
<1>3. OnceEach(observers)
  <2>1. Len(observers) = FragmentLength
    BY FragmentIsList DEF Init
  <2> QED
    BY <2>1 DEF Init, OnceEach, Fragment, EmptySlot
<1> QED
  BY <1>1, <1>2, <1>3 DEF DeliveryInv

(* ... and always: what the refinement rests on.                           *)
LEMMA AlwaysDeliveryInv == Spec => []DeliveryInv
<1>1. Init => DeliveryInv
  BY InitDelivery
<1>2. DeliveryInv /\ [Next]_vars => DeliveryInv'
  <2> SUFFICES ASSUME DeliveryInv, [Next]_vars PROVE DeliveryInv'
    OBVIOUS
  <2>1. SwMobsInv' /\ PoolInv'
    BY NextTyped, NextSwMobs, NextPool DEF DeliveryInv, SwMobsInv, PoolInv, PoolStep
  <2>2. FetchedFrames' /\ PassState' /\ OnceEach(observers)' /\ HeldFrames'
    BY NextFrames, NextPass, NextOnce, NextHeld DEF DeliveryInv, SwMobsInv
  <2> QED
    BY <2>1, <2>2 DEF DeliveryInv
<1> QED
  BY <1>1, <1>2, PTL DEF Spec

-----------------------------------------------------------------------------
(* The variables of the delivery service.                                  *)

Waiting   == [i \in 1..Len(usedSwMobs) |-> swmobs[usedSwMobs[i]]]
Queued(o) == [i \in 1..Len(queue[o]) |-> pool[queue[o][i]].frame]
Unread(o) == taken[o] # NoMessage /\ got[o] = Null
Boxes     == [o \in Observers |-> Box(o)]

(* The backlog is the frame in dispatch, if any, and those that wait.      *)
LEMMA BacklogIs ==
  ASSUME DeliveryInv
  PROVE  /\ Waiting \in Seq(Frames) /\ Len(Waiting) = Len(usedSwMobs)
         /\ Dispatching => /\ swmobs[num] \in Frames /\ num \in SwMobs
                           /\ Backlog = <<swmobs[num]>> \o Waiting
         /\ ~Dispatching => Backlog = Waiting
<1>1. /\ usedSwMobs \in Seq(SwMobs) /\ swmobs \in [SwMobs -> Contents]
      /\ Len(usedSwMobs) \in Nat /\ num \in SwMobs \cup {Null}
  BY LenProperties DEF DeliveryInv, SwMobsInv, TypedState, TypeOK
<1>2. ASSUME NEW i \in 1..Len(usedSwMobs) PROVE swmobs[usedSwMobs[i]] \in Frames
  <2>1. usedSwMobs[i] \in SwMobs
    BY <1>1, ElementOfSeq
  <2> QED
    BY <1>1, <2>1 DEF DeliveryInv, FetchedFrames, Contents
<1>3. Waiting \in [1..Len(usedSwMobs) -> Frames]
  BY <1>2 DEF Waiting
<1>4. Waiting \in Seq(Frames) /\ Len(Waiting) = Len(usedSwMobs)
  BY <1>1, <1>3
<1>5. ASSUME Dispatching PROVE swmobs[num] \in Frames /\ num \in SwMobs
  <2>1. num \in SwMobs
    BY <1>1, <1>5 DEF DeliveryInv, SwMobsInv, TypedState, TaskState, Dispatching
  <2> QED
    BY <1>1, <1>5, <2>1 DEF DeliveryInv, FetchedFrames, Contents
<1>6. ~Dispatching => Backlog = Waiting
  BY <1>4, ConcatEmptySeq DEF Backlog, Waiting
<1>7. Dispatching => Backlog = <<swmobs[num]>> \o Waiting
  BY DEF Backlog, Waiting
<1> QED
  BY <1>4, <1>5, <1>6, <1>7

(* A box is the frame that is taken and not yet assigned, if any, and      *)
(* those that are queued.                                                  *)
LEMMA BoxIs ==
  ASSUME DeliveryInv, NEW o \in Observers
  PROVE  /\ Queued(o) \in Seq(Frames) /\ Len(Queued(o)) = Len(queue[o])
         /\ Unread(o) => /\ pool[taken[o]].frame \in Frames
                         /\ Box(o) = <<pool[taken[o]].frame>> \o Queued(o)
         /\ ~Unread(o) => Box(o) = Queued(o)
         /\ Boxes[o] = Box(o)
<1>1. /\ Len(queue[o]) \in Nat /\ pool \in Seq(PoolEntry)
      /\ \A i \in 1..Len(queue[o]) : queue[o][i] \in 1..Len(pool)
      /\ taken[o] \in 0..Len(pool) /\ Len(pool) \in Nat
  BY PoolTypes DEF DeliveryInv, PoolInv
<1>2. ASSUME NEW p \in 1..Len(pool), pool[p].frame # Null PROVE pool[p].frame \in Frames
  <2>1. pool[p] \in PoolEntry
    BY <1>1, ElementOfSeq
  <2> QED
    BY <1>2, <2>1 DEF PoolEntry, Contents
<1>3. ASSUME NEW i \in 1..Len(queue[o]) PROVE pool[queue[o][i]].frame \in Frames
  BY <1>1, <1>2 DEF DeliveryInv, HeldFrames
<1>4. Queued(o) \in [1..Len(queue[o]) -> Frames]
  BY <1>3 DEF Queued
<1>5. Queued(o) \in Seq(Frames) /\ Len(Queued(o)) = Len(queue[o])
  BY <1>1, <1>4
<1>6. ASSUME Unread(o) PROVE pool[taken[o]].frame \in Frames
  <2>1. taken[o] \in 1..Len(pool)
    BY <1>1, <1>6 DEF Unread, NoMessage
  <2> QED
    BY <1>2, <1>6, <2>1 DEF DeliveryInv, HeldFrames, Unread
<1>7. ~Unread(o) => Box(o) = Queued(o)
  BY <1>5, ConcatEmptySeq DEF Box, Queued, Unread
<1>8. Unread(o) => Box(o) = <<pool[taken[o]].frame>> \o Queued(o)
  BY DEF Box, Queued, Unread
<1> QED
  BY <1>5, <1>6, <1>7, <1>8 DEF Boxes

(* How long a box is.                                                      *)
LEMMA BoxLength ==
  ASSUME DeliveryInv, NEW o \in Observers
  PROVE  /\ Box(o) \in Seq(Frames) /\ Len(queue[o]) \in Nat
         /\ Len(Box(o)) = IF Unread(o) THEN Len(queue[o]) + 1 ELSE Len(queue[o])
<1>1. Queued(o) \in Seq(Frames) /\ Len(Queued(o)) = Len(queue[o]) /\ Len(queue[o]) \in Nat
  BY BoxIs, LenProperties
<1>2. CASE Unread(o)
  <2>1. /\ pool[taken[o]].frame \in Frames
        /\ Box(o) = <<pool[taken[o]].frame>> \o Queued(o)
    BY <1>2, BoxIs
  <2> QED
    BY <1>1, <1>2, <2>1, FrontIsHead
<1>3. CASE ~Unread(o)
  BY <1>1, <1>3, BoxIs
<1> QED
  BY <1>1, <1>2, <1>3

(* Outside a pass nothing has been considered.                             *)
LEMMA NothingConsidered ==
  ASSUME DeliveryInv, ~InPass
  PROVE  Considered = {}
<1>1. slot = 0 /\ pc # "returnMessage"
  BY DEF DeliveryInv, PassState, InPass
<1>2. Decided = {}
  BY <1>1 DEF Decided
<1> QED
  BY <1>2 DEF Considered

(* Waiting frames and the frame in dispatch stay.                          *)
LEMMA BacklogStays ==
  ASSUME UNCHANGED <<usedSwMobs, num>>, Dispatching' <=> Dispatching,
         \A i \in 1..Len(usedSwMobs) : swmobs'[usedSwMobs[i]] = swmobs[usedSwMobs[i]],
         Dispatching => swmobs'[num] = swmobs[num]
  PROVE  Backlog' = Backlog
BY DEF Backlog

(* Readers and queues stay, and so do the boxes.                           *)
LEMMA BoxesStay ==
  ASSUME DeliveryInv, [Next]_vars, UNCHANGED <<queue, taken, got>>
  PROVE  Boxes' = Boxes
<1>1. ASSUME NEW o \in Observers PROVE Box(o)' = Box(o)
  <2>1. /\ \A i \in 1..Len(queue[o]) : pool'[queue[o][i]] = pool[queue[o][i]]
        /\ taken[o] # NoMessage => pool'[taken[o]] = pool[taken[o]]
    BY ReadersFramesKept DEF DeliveryInv
  <2> QED
    BY <2>1 DEF Box
<1> QED
  BY <1>1 DEF Boxes

(* The list and the walk stay.                                             *)
LEMMA SeenStays ==
  ASSUME UNCHANGED observers, Decided' = Decided
  PROVE  Considered' = Considered /\ Registrations' = Registrations
BY DEF Considered, Registrations

(* Nothing changes for the delivery service.                               *)
Stutter == UNCHANGED <<Backlog, Considered, Registrations, Boxes, got, stops>>

LEMMA StutterIs == Stutter => UNCHANGED Delivery!dvars
BY DEF Stutter, Delivery!dvars, Boxes

-----------------------------------------------------------------------------
(* The steps of the receive path, one after the other.                     *)

(* The interrupt handler fetches a frame, or does nothing of interest.     *)
LEMMA HandlerStep ==
  ASSUME DeliveryInv, HandleInterrupt
  PROVE  (\E f \in Frames : Delivery!Fetch(f)) \/ Stutter
<1>1. /\ usedSwMobs \in Seq(SwMobs) /\ swmobs \in [SwMobs -> Contents]
      /\ Len(usedSwMobs) \in Nat
      /\ \A i \in 1..Len(usedSwMobs) : usedSwMobs[i] \in SwMobs /\ usedSwMobs[i] \in ToSet(usedSwMobs)
  <2>1. usedSwMobs \in Seq(SwMobs) /\ swmobs \in [SwMobs -> Contents]
    BY DEF DeliveryInv, SwMobsInv, TypedState, TypeOK
  <2> QED
    BY <2>1, LenProperties, ElementOfSeq DEF ToSet
<1>2. UNCHANGED <<num, pc, slot, observers, pool, queue, taken, got, stops>>
  BY DEF HandleInterrupt, registry, poolVars, task, readers
<1>3. /\ Decided' = Decided /\ (Dispatching' <=> Dispatching)
      /\ UNCHANGED <<Considered, Registrations, Boxes, got, stops>>
  <2>1. Decided' = Decided /\ (Dispatching' <=> Dispatching)
    BY <1>2 DEF Decided, Dispatching
  <2>2. Boxes' = Boxes
    BY <1>2, BoxesStay DEF Next
  <2> QED
    BY <1>2, <2>1, <2>2, SeenStays
<1>4. Dispatching => swmobs'[num] = swmobs[num]
  BY HandlerKeepsInHand DEF DeliveryInv, SwMobsInv, TypedState, TaskState, Dispatching
<1>5. ASSUME NEW s \in SwMobs, usedSwMobs' = usedSwMobs,
             swmobs' = [swmobs EXCEPT ![s] = Null], s \notin ToSet(usedSwMobs)
      PROVE  Stutter
  <2>1. \A i \in 1..Len(usedSwMobs) : swmobs'[usedSwMobs[i]] = swmobs[usedSwMobs[i]]
    BY <1>1, <1>5
  <2>2. Backlog' = Backlog
    BY <1>2, <1>3, <1>4, <1>5, <2>1, BacklogStays
  <2> QED
    BY <1>3, <2>2 DEF Stutter
<1>6. ASSUME UNCHANGED <<usedSwMobs, swmobs>> PROVE Stutter
  <2>1. Backlog' = Backlog
    BY <1>2, <1>3, <1>6, BacklogStays
  <2> QED
    BY <1>3, <2>1 DEF Stutter
<1>7. ASSUME NEW s \in SwMobs, NEW f \in Frames, usedSwMobs' = Append(usedSwMobs, s),
             swmobs' = [swmobs EXCEPT ![s] = f], s \notin ToSet(usedSwMobs)
      PROVE  Delivery!Fetch(f)
  <2>1. /\ Len(usedSwMobs') = Len(usedSwMobs) + 1
        /\ \A i \in 1..Len(usedSwMobs) : usedSwMobs'[i] = usedSwMobs[i]
        /\ usedSwMobs'[Len(usedSwMobs) + 1] = s
    BY <1>1, <1>7, AppendProperties
  <2>2. Waiting \in Seq(Frames) /\ Len(Waiting) = Len(usedSwMobs)
    BY BacklogIs
  <2>3. Waiting' = Append(Waiting, f)
    <3> DEFINE n == Len(usedSwMobs)
               w == Waiting'
    <3>1. \A i \in 1..n : w[i] = Waiting[i]
      BY <1>1, <1>7, <2>1 DEF Waiting
    <3>2. w[n + 1] = f
      BY <1>1, <1>7, <2>1 DEF Waiting
    <3>3. w \in [1..(n + 1) -> Frames]
      <4>1. ASSUME NEW i \in 1..(n + 1) PROVE w[i] \in Frames
        <5>1. CASE i = n + 1
          BY <3>2, <5>1
        <5>2. CASE i # n + 1
          <6>1. i \in 1..n
            BY <1>1, <5>2
          <6> QED
            BY <2>2, <3>1, <6>1, ElementOfSeq
        <5> QED
          BY <5>1, <5>2
      <4> QED
        BY <2>1, <4>1 DEF Waiting
    <3>4. w \in Seq(Frames) /\ Len(w) = n + 1
      BY <1>1, <3>3
    <3> HIDE DEF w
    <3>5. w = Append(Waiting, f)
      BY <2>2, <3>1, <3>2, <3>4, Appended
    <3> QED
      BY <3>5 DEF w
  <2>4. Backlog' = Append(Backlog, f)
    <3>1. CASE Dispatching
      <4>1. /\ swmobs[num] \in Frames /\ Backlog = <<swmobs[num]>> \o Waiting
            /\ Backlog' = <<swmobs[num]>> \o Append(Waiting, f)
        BY <1>2, <1>3, <1>4, <2>3, <3>1, BacklogIs DEF Backlog, Waiting
      <4> QED
        BY <2>2, <4>1, FrontAndBack
    <3>2. CASE ~Dispatching
      <4>1. Backlog = Waiting
        BY <3>2, BacklogIs
      <4>2. Backlog' = <<>> \o Waiting'
        BY <1>3, <3>2 DEF Backlog, Waiting
      <4>3. Append(Waiting, f) \in Seq(Frames)
        BY <2>2, AppendProperties
      <4> QED
        BY <2>3, <4>1, <4>2, <4>3, ConcatEmptySeq
    <3> QED
      BY <3>1, <3>2
  <2> QED
    BY <1>3, <2>4 DEF Delivery!Fetch, Boxes
<1> QED
  BY <1>5, <1>6, <1>7, HandlerFetches DEF DeliveryInv

(* Taking a waiting swmob, or blocking, changes nothing of interest.       *)
LEMMA ReceiveStep ==
  ASSUME DeliveryInv, ReceiveSwMob
  PROVE  Stutter
<1>1. /\ UNCHANGED <<swmobs, slot, observers, pool, queue, taken, got, stops>>
      /\ pc = "receive" /\ pc' \in {"lock", "peek"}
  BY DEF ReceiveSwMob, swQueues, registry, poolVars, readers
<1>2. UNCHANGED <<Considered, Registrations, Boxes, got, stops>>
  <2>1. Decided' = Decided
    BY <1>1 DEF Decided
  <2>2. Boxes' = Boxes
    BY <1>1, BoxesStay DEF Next, Execute
  <2> QED
    BY <1>1, <2>1, <2>2, SeenStays
<1>3. CASE usedSwMobs = <<>>
  <2>1. UNCHANGED <<num, usedSwMobs>> /\ pc' = "peek"
    BY <1>3 DEF ReceiveSwMob
  <2>2. Backlog' = Backlog
    BY <1>1, <2>1, BacklogStays DEF Dispatching
  <2> QED
    BY <1>2, <2>2 DEF Stutter
<1>4. CASE usedSwMobs # <<>>
  <2>1. /\ num' = Head(usedSwMobs) /\ usedSwMobs' = Tail(usedSwMobs) /\ pc' = "lock"
        /\ usedSwMobs \in Seq(SwMobs)
    BY <1>4 DEF ReceiveSwMob, DeliveryInv, SwMobsInv, TypedState, TypeOK
  <2>2. /\ Len(usedSwMobs') = Len(usedSwMobs) - 1 /\ Len(usedSwMobs) \in Nat \ {0}
        /\ \A i \in 1..Len(usedSwMobs') : usedSwMobs'[i] = usedSwMobs[i + 1]
        /\ num' = usedSwMobs[1]
    BY <1>4, <2>1, HeadTailProperties, EmptySeq
  <2> DEFINE w == Waiting'
  <2>3. /\ Waiting \in Seq(Frames) /\ Len(Waiting) = Len(usedSwMobs) /\ Backlog = Waiting
    BY <1>1, BacklogIs DEF Dispatching
  <2>4. /\ \A i \in 1..Len(usedSwMobs') : w[i] = Waiting[i + 1]
        /\ swmobs[num'] = Waiting[1]
    BY <1>1, <2>2 DEF Waiting
  <2>5. w \in Seq(Frames) /\ Len(w) = Len(usedSwMobs')
    <3>1. ASSUME NEW i \in 1..Len(usedSwMobs') PROVE w[i] \in Frames
      <4>1. i + 1 \in 1..Len(Waiting)
        BY <2>2, <2>3
      <4> QED
        BY <2>3, <2>4, <4>1, ElementOfSeq
    <3>2. w \in [1..Len(usedSwMobs') -> Frames]
      BY <3>1 DEF Waiting
    <3>3. Len(usedSwMobs') \in Nat
      BY <2>2
    <3> QED
      BY <3>2, <3>3
  <2>6. Backlog' = <<swmobs[num']>> \o w
    BY <1>1, <2>1 DEF Backlog, Dispatching, Waiting
  <2> HIDE DEF w
  <2>7. Waiting[1] \in Frames
    BY <2>2, <2>3, ElementOfSeq
  <2>8. Waiting = <<swmobs[num']>> \o w
    BY <2>2, <2>3, <2>4, <2>5, <2>7, Fronted
  <2>9. Backlog' = Backlog
    BY <2>3, <2>6, <2>8
  <2> QED
    BY <1>2, <2>9 DEF Stutter
<1> QED
  BY <1>3, <1>4

(* In a pass the frame in dispatch heads the backlog.                      *)
LEMMA HeadInDispatch ==
  ASSUME DeliveryInv, Dispatching
  PROVE  /\ Backlog # <<>> /\ Head(Backlog) = swmobs[num]
         /\ Tail(Backlog) = Waiting /\ swmobs[num] \in Frames
<1>1. /\ swmobs[num] \in Frames /\ Waiting \in Seq(Frames)
      /\ Backlog = <<swmobs[num]>> \o Waiting
  BY BacklogIs
<1> QED
  BY <1>1, FrontIsHead

(* Steps that leave swmobs and the used queue alone.                       *)
LEMMA BacklogInPass ==
  ASSUME UNCHANGED <<swmobs, usedSwMobs, num>>, Dispatching' <=> Dispatching
  PROVE  Backlog' = Backlog
BY BacklogStays

(* Going past a slot considers its registration, for the first time in     *)
(* this pass.                                                              *)
LEMMA SlotConsidered ==
  ASSUME DeliveryInv, InPass, pc # "returnMessage", slot \in 1..Len(observers),
         UNCHANGED observers, Decided' = 1..slot, observers[slot].observer # Null
  PROVE  /\ observers[slot] \in Registrations \ Considered
         /\ Considered' = Considered \cup {observers[slot]}
         /\ Registrations' = Registrations
<1>1. /\ Decided = 1..(slot - 1) /\ Len(observers) \in Nat
      /\ OnceEach(observers)
  BY LenProperties DEF Decided, DeliveryInv, SwMobsInv, TypedState, TypeOK
<1>2. observers[slot] \in Registrations
  BY DEF Registrations
<1>3. observers[slot] \notin Considered
  <2> SUFFICES ASSUME NEW i \in 1..(slot - 1), observers[i] = observers[slot]
               PROVE  FALSE
    BY <1>1 DEF Considered
  <2>1. i \in 1..Len(observers) /\ i # slot
    BY <1>1
  <2> QED
    BY <1>1, <2>1 DEF OnceEach
<1>4. Considered' = Considered \cup {observers[slot]}
  <2>1. \A i : i \in 1..slot <=> i \in 1..(slot - 1) \/ i = slot
    BY <1>1
  <2> HIDE DEF DeliveryInv
  <2>2. Considered' = {observers[i] : i \in {j \in 1..slot : observers[j].observer # Null}}
    BY DEF Considered
  <2>3. Considered = {observers[i] : i \in {j \in 1..(slot - 1) : observers[j].observer # Null}}
    BY <1>1 DEF Considered
  <2> QED
    BY <2>1, <2>2, <2>3
<1> QED
  BY <1>2, <1>3, <1>4 DEF Registrations

(* The walk goes past an empty slot or one that does not match.            *)
LEMMA SkipStep ==
  ASSUME DeliveryInv, SkipSlot
  PROVE  (\E r \in Registrations : Delivery!PassOver(r)) \/ Stutter
<1>1. /\ pc = "walk" /\ slot \in 1..Len(observers) /\ slot' = slot + 1 /\ pc' = pc
      /\ ~Matching(observers[slot], swmobs[num])
      /\ UNCHANGED <<swmobs, usedSwMobs, num, observers, pool, queue, taken, got, stops>>
  BY DEF SkipSlot, AtSlot, swQueues, registry, poolVars, readers
<1>2. InPass /\ Dispatching /\ Dispatching'
  BY <1>1 DEF InPass, Dispatching
<1>3. Backlog' = Backlog /\ Boxes' = Boxes
  BY <1>1, <1>2, BacklogInPass, BoxesStay DEF Next, Execute
<1>4. Decided' = 1..slot /\ Decided = 1..(slot - 1) /\ slot \in Nat \ {0}
  BY <1>1 DEF Decided
<1>5. CASE observers[slot].observer = Null
  <2>1. Considered' = Considered
    <3>1. \A i : i \in 1..slot <=> i \in 1..(slot - 1) \/ i = slot
      BY <1>4
    <3>2. {j \in 1..slot : observers[j].observer # Null}
            = {j \in 1..(slot - 1) : observers[j].observer # Null}
      BY <1>5, <3>1
    <3> QED
      BY <1>1, <1>4, <3>2 DEF Considered
  <2>2. Registrations' = Registrations
    BY <1>1 DEF Registrations
  <2> QED
    BY <1>1, <1>3, <2>1, <2>2 DEF Stutter
<1>6. CASE observers[slot].observer # Null
  <2> DEFINE r == observers[slot]
  <2>1. /\ r \in Registrations \ Considered
        /\ Considered' = Considered \cup {r}
        /\ Registrations' = Registrations
    BY <1>1, <1>2, <1>4, <1>6, SlotConsidered
  <2>2. Backlog # <<>> /\ Head(Backlog) = swmobs[num]
    BY <1>2, HeadInDispatch
  <2>3. ~FrameMatches(r.filter, Head(Backlog))
    BY <1>1, <1>6, <2>2 DEF Matching, FrameMatches
  <2> HIDE DEF r
  <2>4. Delivery!PassOver(r)
    BY <1>1, <1>3, <2>1, <2>2, <2>3 DEF Delivery!PassOver, Delivery!Consider, Boxes
  <2> QED
    BY <2>1, <2>4
<1> QED
  BY <1>5, <1>6

-----------------------------------------------------------------------------
(* A frame is passed over for want of a message only when every message is *)
(* in use: one for each frame that is boxed or read, and one for each      *)
(* disable() at most.                                                      *)

Uses ==
  {w \in Observers \X (0..ObserverQueue + 1) :
     IF w[2] = 0 THEN got[w[1]] # Null ELSE w[2] <= Len(Boxes[w[1]])}

(* The message that a place in a box, or a reader, stands for.             *)
MessageAt(o, k) ==
  IF k = 0 THEN taken[o]
  ELSE IF Unread(o) THEN (IF k = 1 THEN taken[o] ELSE queue[o][k - 1])
  ELSE queue[o][k]

HeldMessages == {p \in 1..Len(pool) : Held(p)}

(* What a place stands for.                                                *)
LEMMA PlaceIs ==
  ASSUME DeliveryInv, NEW o \in Observers, NEW k \in 0..ObserverQueue + 1,
         IF k = 0 THEN got[o] # Null ELSE k <= Len(Boxes[o])
  PROVE  \/ /\ taken[o] # NoMessage /\ MessageAt(o, k) = taken[o]
            /\ k = IF got[o] # Null THEN 0 ELSE 1
         \/ \E i \in 1..Len(queue[o]) :
              /\ MessageAt(o, k) = queue[o][i]
              /\ k = IF Unread(o) THEN i + 1 ELSE i
<1>1. /\ Len(queue[o]) \in Nat /\ ObserverQueue \in Nat /\ Boxes[o] = Box(o)
      /\ Len(Box(o)) = IF Unread(o) THEN Len(queue[o]) + 1 ELSE Len(queue[o])
  BY BoxLength, BoxIs, CANReceiveAssumption
<1>2. CASE k = 0
  BY <1>2 DEF MessageAt, DeliveryInv, PoolInv, ReaderState
<1>3. CASE k # 0 /\ Unread(o) /\ k = 1
  BY <1>3 DEF MessageAt, Unread
<1>4. CASE k # 0 /\ Unread(o) /\ k # 1
  <2>1. k - 1 \in 1..Len(queue[o]) /\ k = (k - 1) + 1
    BY <1>1, <1>4
  <2> QED
    BY <1>4, <2>1 DEF MessageAt
<1>5. CASE k # 0 /\ ~Unread(o)
  <2>1. k \in 1..Len(queue[o])
    BY <1>1, <1>5
  <2> QED
    BY <1>5, <2>1 DEF MessageAt
<1> QED
  BY <1>2, <1>3, <1>4, <1>5

(* When the CAN task holds none, the held messages are no more than the    *)
(* uses.                                                                   *)
LEMMA HeldAreUses ==
  ASSUME DeliveryInv, msg = NoMessage
  PROVE  /\ IsFiniteSet(Uses) /\ IsFiniteSet(HeldMessages)
         /\ Cardinality(HeldMessages) <= Cardinality(Uses)
<1> DEFINE F == [w \in Uses |-> MessageAt(w[1], w[2])]
<1>1. /\ Len(pool) \in Nat /\ ObserverQueue \in Nat
      /\ \A o \in Observers :
           /\ Len(queue[o]) \in Nat
           /\ \A i \in 1..Len(queue[o]) : queue[o][i] \in 1..Len(pool)
           /\ taken[o] \in 0..Len(pool)
           /\ Len(queue[o]) <= ObserverQueue
           /\ got[o] # Null => taken[o] # NoMessage
  BY PoolTypes DEF DeliveryInv, PoolInv, ReaderState
<1>2. IsFiniteSet(HeldMessages)
  <2>1. IsFiniteSet(1..Len(pool)) /\ HeldMessages \in SUBSET (1..Len(pool))
    BY <1>1, FS_Interval DEF HeldMessages
  <2> QED
    BY <2>1, FS_Subset
<1>3. ASSUME NEW w \in Uses
      PROVE  /\ w[1] \in Observers /\ w[2] \in 0..ObserverQueue + 1 /\ w = <<w[1], w[2]>>
             /\ \/ /\ taken[w[1]] # NoMessage /\ MessageAt(w[1], w[2]) = taken[w[1]]
                   /\ w[2] = IF got[w[1]] # Null THEN 0 ELSE 1
                \/ \E i \in 1..Len(queue[w[1]]) :
                     /\ MessageAt(w[1], w[2]) = queue[w[1]][i]
                     /\ w[2] = IF Unread(w[1]) THEN i + 1 ELSE i
  <2>1. PICK o \in Observers, k \in 0..ObserverQueue + 1 :
          w = <<o, k>> /\ IF k = 0 THEN got[o] # Null ELSE k <= Len(Boxes[o])
    BY DEF Uses
  <2>2. w[1] = o /\ w[2] = k
    BY <2>1
  <2>3. \/ /\ taken[o] # NoMessage /\ MessageAt(o, k) = taken[o]
           /\ k = IF got[o] # Null THEN 0 ELSE 1
        \/ \E i \in 1..Len(queue[o]) :
             /\ MessageAt(o, k) = queue[o][i]
             /\ k = IF Unread(o) THEN i + 1 ELSE i
    BY <2>1, PlaceIs
  <2> QED
    BY <2>1, <2>2, <2>3
<1>4. F \in [Uses -> HeldMessages]
  <2>1. ASSUME NEW w \in Uses PROVE MessageAt(w[1], w[2]) \in HeldMessages
    BY <1>1, <1>3 DEF HeldMessages, Held, NoMessage
  <2> QED
    BY <2>1
<1>5. ASSUME NEW v \in Uses, NEW w \in Uses, MessageAt(v[1], v[2]) = MessageAt(w[1], w[2])
      PROVE  v = w
  <2>1. PICK o \in Observers, k \in 0..ObserverQueue + 1 : v = <<o, k>> /\ o = v[1] /\ k = v[2]
    BY <1>3
  <2>2. PICK x \in Observers, l \in 0..ObserverQueue + 1 : w = <<x, l>> /\ x = w[1] /\ l = w[2]
    BY <1>3
  <2>3. /\ \/ taken[o] # NoMessage /\ MessageAt(o, k) = taken[o]
              /\ k = IF got[o] # Null THEN 0 ELSE 1
           \/ \E i \in 1..Len(queue[o]) :
                /\ MessageAt(o, k) = queue[o][i]
                /\ k = IF Unread(o) THEN i + 1 ELSE i
        /\ \/ taken[x] # NoMessage /\ MessageAt(x, l) = taken[x]
              /\ l = IF got[x] # Null THEN 0 ELSE 1
           \/ \E i \in 1..Len(queue[x]) :
                /\ MessageAt(x, l) = queue[x][i]
                /\ l = IF Unread(x) THEN i + 1 ELSE i
        /\ MessageAt(o, k) = MessageAt(x, l)
    BY <1>3, <1>5, <2>1, <2>2
  <2>4. o = x /\ k = l
    BY <2>3 DEF DeliveryInv, PoolInv, NoSharing
  <2> QED
    BY <2>1, <2>2, <2>4
<1>6. F \in Injection(Uses, HeldMessages)
  BY <1>4, <1>5 DEF Injection, IsInjective
<1>7. IsFiniteSet(Uses)
  BY <1>2, <1>6, FS_Injection
<1>8. ASSUME NEW o \in Observers, NEW k \in Nat, k <= ObserverQueue + 1,
             IF k = 0 THEN got[o] # Null ELSE k <= Len(Box(o))
      PROVE  <<o, k>> \in Uses
  <2>1. Boxes[o] = Box(o) /\ k \in 0..ObserverQueue + 1
    <3>1. Boxes[o] = Box(o)
      BY DEF Boxes
    <3>2. k \in 0..ObserverQueue + 1
      BY <1>1, <1>8
    <3> QED
      BY <3>1, <3>2
  <2> DEFINE w == <<o, k>>
  <2>2. w \in Observers \X (0..ObserverQueue + 1) /\ w[1] = o /\ w[2] = k
    BY <2>1
  <2> HIDE DEF w
  <2>3. IF w[2] = 0 THEN got[w[1]] # Null ELSE w[2] <= Len(Boxes[w[1]])
    BY <1>8, <2>1, <2>2
  <2>4. w \in Uses
    BY <2>2, <2>3 DEF Uses
  <2> QED
    BY <2>4 DEF w
<1>9. ASSUME NEW p \in HeldMessages PROVE \E w \in Uses : MessageAt(w[1], w[2]) = p
  <2>1. p # NoMessage /\ Held(p) /\ p # msg
    BY <1>1 DEF HeldMessages, NoMessage
  <2>2. ASSUME NEW o \in Observers, taken[o] = p PROVE \E w \in Uses : MessageAt(w[1], w[2]) = p
    <3>1. Len(Box(o)) = IF Unread(o) THEN Len(queue[o]) + 1 ELSE Len(queue[o])
      BY BoxLength
    <3>2. CASE got[o] # Null
      <4>1. <<o, 0>> \in Uses
        BY <1>1, <1>8, <3>2
      <4> QED
        BY <2>2, <4>1 DEF MessageAt
    <3>3. CASE got[o] = Null
      <4>1. Unread(o)
        BY <2>1, <2>2, <3>3 DEF Unread
      <4>2. 1 <= ObserverQueue + 1 /\ 1 <= Len(Box(o))
        BY <1>1, <3>1, <4>1
      <4>3. <<o, 1>> \in Uses
        BY <1>8, <4>2
      <4> QED
        BY <2>2, <4>1, <4>3 DEF MessageAt
    <3> QED
      BY <3>2, <3>3
  <2>3. ASSUME NEW o \in Observers, NEW i \in 1..Len(queue[o]), queue[o][i] = p
        PROVE  \E w \in Uses : MessageAt(w[1], w[2]) = p
    <3>1. Len(Box(o)) = IF Unread(o) THEN Len(queue[o]) + 1 ELSE Len(queue[o])
      BY BoxLength
    <3>2. CASE Unread(o)
      <4>1. PICK k \in Nat : k = i + 1
        OBVIOUS
      <4>2. /\ k # 0 /\ k # 1 /\ k - 1 = i
            /\ k <= ObserverQueue + 1 /\ k <= Len(Box(o))
        BY <1>1, <3>1, <3>2, <4>1
      <4>3. <<o, k>> \in Uses
        BY <1>8, <4>2
      <4>4. MessageAt(o, k) = p
        BY <2>3, <3>2, <4>2 DEF MessageAt
      <4> QED
        BY <4>3, <4>4
    <3>3. CASE ~Unread(o)
      <4>1. <<o, i>> \in Uses
        BY <1>1, <1>8, <3>1, <3>3
      <4>2. MessageAt(o, i) = p
        BY <1>1, <2>3, <3>3 DEF MessageAt
      <4> QED
        BY <4>1, <4>2
    <3> QED
      BY <3>2, <3>3
  <2> QED
    BY <2>1, <2>2, <2>3 DEF Held
<1>10. F \in Surjection(Uses, HeldMessages)
  BY <1>4, <1>9 DEF Surjection
<1>11. Cardinality(HeldMessages) <= Cardinality(Uses)
  BY <1>7, <1>10, FS_Surjection
<1> QED
  BY <1>2, <1>7, <1>11

(* getMessage() returns none only when it must.                            *)
LEMMA NoMessageLeft ==
  ASSUME DeliveryInv, msg = NoMessage, Lent(pool) = NoMessage
  PROVE  Delivery!InUse >= PoolSize
<1>1. /\ Len(pool) \in Nat /\ PoolSize \in Nat /\ stops \in Nat
  BY PoolTypes, PoolSizeAssumption DEF DeliveryInv, PoolInv
<1>2. Unused(pool) = {} /\ Len(pool) >= PoolSize
  <2>1. Unused(pool) \in SUBSET Nat /\ 0 \notin Unused(pool)
    BY <1>1 DEF Unused
  <2>2. Unused(pool) # {} => Min(Unused(pool)) \in Unused(pool)
    BY <2>1, MinInSet
  <2>3. Unused(pool) = {}
    BY <2>1, <2>2 DEF Lent, NoMessage
  <2> QED
    BY <1>1, <2>3 DEF Lent, NoMessage, CanGrow
<1>3. 1..Len(pool) = HeldMessages \cup Unheld
  BY <1>2 DEF Unused, HeldMessages, Unheld
<1>4. /\ IsFiniteSet(Uses) /\ IsFiniteSet(HeldMessages)
      /\ Cardinality(HeldMessages) <= Cardinality(Uses)
  BY HeldAreUses
<1>5. IsFiniteSet(1..Len(pool)) /\ Cardinality(1..Len(pool)) = Len(pool)
  <2>1. PICK n \in Nat : n = Len(pool)
    BY <1>1
  <2>2. /\ IsFiniteSet(1..n)
        /\ Cardinality(1..n) = IF 1 > n THEN 0 ELSE n - 1 + 1
    BY FS_Interval
  <2> QED
    BY <2>1, <2>2
<1>6. IsFiniteSet(Unheld)
  <2>1. Unheld \in SUBSET (1..Len(pool))
    BY DEF Unheld
  <2> QED
    BY <1>5, <2>1, FS_Subset
<1>7. Len(pool) = Cardinality(HeldMessages) + Cardinality(Unheld)
                    - Cardinality(HeldMessages \cap Unheld)
  BY <1>3, <1>4, <1>5, <1>6, FS_Union
<1>8. HeldMessages \cap Unheld = {} /\ Cardinality(HeldMessages \cap Unheld) = 0
  <2>1. HeldMessages \cap Unheld = {}
    BY DEF HeldMessages, Unheld
  <2> QED
    BY <2>1, FS_EmptySet
<1>9. /\ Cardinality(HeldMessages) \in Nat /\ Cardinality(Unheld) \in Nat
      /\ Cardinality(Uses) \in Nat /\ Cardinality(Unheld) <= stops
  BY <1>4, <1>6, FS_CardinalityType DEF DeliveryInv, PoolInv, FewLost
<1>10. Delivery!InUse = Cardinality(Uses) + stops
  BY DEF Delivery!InUse, Uses, Boxes, Delivery!Cardinality, Cardinality
<1> QED
  BY <1>1, <1>2, <1>4, <1>7, <1>8, <1>9, <1>10

(* What the CAN task relies on in a pass.                                  *)
LEMMA InPassState ==
  ASSUME DeliveryInv, pc \in {"getMessage", "notify", "returnMessage"}
  PROVE  /\ InPass /\ Dispatching /\ slot \in 1..Len(observers)
         /\ observers[slot].observer \in Observers
         /\ observers[slot].observer # Null
         /\ FrameMatches(observers[slot].filter, swmobs[num])
<1>1. /\ slot \in 1..Len(observers) /\ observers[slot].observer \in Observers
      /\ Matching(observers[slot], swmobs[num])
  BY DEF DeliveryInv, PoolInv, TypedState, TaskState, PassState
<1>2. InPass /\ Dispatching
  BY DEF InPass, Dispatching
<1> QED
  BY <1>1, <1>2 DEF Matching, FrameMatches

(* With no message left the frame is passed over for this slot.            *)
LEMMA GetMessageStep ==
  ASSUME DeliveryInv, GetMessage
  PROVE  (\E r \in Registrations : Delivery!PassOver(r)) \/ Stutter
<1>1. /\ pc = "getMessage"
      /\ UNCHANGED <<swmobs, usedSwMobs, num, observers, queue, taken, got, stops>>
      /\ IF Lent(pool) # NoMessage THEN pc' = "notify" /\ slot' = slot
         ELSE pc' = "walk" /\ slot' = slot + 1
  BY DEF GetMessage, swQueues, registry, readers
<1>2. /\ InPass /\ Dispatching /\ slot \in 1..Len(observers)
      /\ observers[slot].observer # Null
  BY <1>1, InPassState
<1>3. Dispatching'
  BY <1>1 DEF Dispatching
<1>4. Backlog' = Backlog /\ Boxes' = Boxes
  BY <1>1, <1>2, <1>3, BacklogInPass, BoxesStay DEF Next, Execute
<1>5. msg = NoMessage
  BY <1>1 DEF DeliveryInv, PoolInv, TypedState, TaskState
<1>6. CASE Lent(pool) # NoMessage
  <2>1. Decided' = Decided
    BY <1>1, <1>6 DEF Decided
  <2> QED
    BY <1>1, <1>4, <2>1, SeenStays DEF Stutter
<1>7. CASE Lent(pool) = NoMessage
  <2> DEFINE r == observers[slot]
  <2>1. Decided' = 1..slot
    <3>1. slot \in Nat
      BY <1>2
    <3> QED
      BY <1>1, <1>7, <3>1 DEF Decided
  <2>2. /\ r \in Registrations \ Considered
        /\ Considered' = Considered \cup {r}
        /\ Registrations' = Registrations
    BY <1>1, <1>2, <2>1, SlotConsidered
  <2>3. Backlog # <<>> /\ Delivery!InUse >= PoolSize
    BY <1>2, <1>5, <1>7, HeadInDispatch, NoMessageLeft
  <2> HIDE DEF r
  <2>4. Delivery!PassOver(r)
    BY <1>1, <1>4, <2>2, <2>3 DEF Delivery!PassOver, Delivery!Consider, Boxes
  <2> QED
    BY <2>2, <2>4
<1> QED
  BY <1>6, <1>7

(* Steps that only concern the CAN task, the pool or the hardware.         *)
LEMMA QuietStep ==
  ASSUME DeliveryInv,
         \/ Peripheral \/ LockObservers \/ EnterGetMessage \/ ReturnUndelivered
         \/ GiveBackSwMob \/ PeekAndCheckStatus \/ ReinitController
         \/ RestartController \/ Enable
  PROVE  Stutter
<1> USE DEF hardware, swQueues, registry, poolVars, task, readers
<1>1. /\ Next /\ UNCHANGED <<usedSwMobs, observers, queue, taken, got, stops>>
  BY DEF Next, Execute, Application, Peripheral, FrameArrives, FrameSent, BusError,
     LockObservers, EnterGetMessage, ReturnUndelivered, GiveBackSwMob,
     PeekAndCheckStatus, ReinitController, RestartController, Enable
<1>2. Boxes' = Boxes
  BY <1>1, BoxesStay
<1>3. /\ \/ pc' = pc /\ slot' = slot
         \/ pc = "lock" /\ pc' = "walk" /\ slot' = 1
         \/ pc = "walk" /\ pc' = "getMessage" /\ slot' = slot
         \/ pc = "returnMessage" /\ pc' = "walk" /\ slot' = slot + 1
         \/ /\ pc \in {"giveBack", "peek", "recover", "reinit", "stopped"}
            /\ pc' \in {"receive", "recover", "reinit"} /\ slot' = slot
      /\ Dispatching' <=> Dispatching
  <2>1. CASE Peripheral
    BY <2>1 DEF Peripheral, FrameArrives, FrameSent, BusError, Dispatching
  <2>2. CASE ~Peripheral
    BY <2>2 DEF Dispatching, LockObservers, EnterGetMessage, AtSlot, ReturnUndelivered,
       GiveBackSwMob, PeekAndCheckStatus, ReinitController, RestartController, Enable
  <2> QED
    BY <2>1, <2>2
<1>4. Backlog' = Backlog
  <2>1. CASE GiveBackSwMob
    <3>1. /\ swmobs' = [swmobs EXCEPT ![num] = Null] /\ pc = "giveBack" /\ pc' = "receive"
      BY <2>1 DEF GiveBackSwMob
    <3>2. /\ num \notin ToSet(usedSwMobs) /\ DOMAIN swmobs = SwMobs
          /\ usedSwMobs \in Seq(SwMobs)
      BY <3>1 DEF DeliveryInv, SwMobsInv, SwMobsConserved, InHand, TypedState, TypeOK, TaskState
    <3>3. \A i \in 1..Len(usedSwMobs) :
            usedSwMobs[i] \in ToSet(usedSwMobs) /\ usedSwMobs[i] \in SwMobs
      BY <3>2, ElementOfSeq, LenProperties DEF ToSet
    <3>4. \A i \in 1..Len(usedSwMobs) : swmobs'[usedSwMobs[i]] = swmobs[usedSwMobs[i]]
      BY <3>1, <3>2, <3>3
    <3> QED
      BY <1>1, <3>1, <3>4 DEF Backlog, Dispatching
  <2>2. CASE ~GiveBackSwMob
    <3>1. UNCHANGED <<swmobs, num>>
      BY <2>2 DEF Peripheral, FrameArrives, FrameSent, BusError, LockObservers,
         EnterGetMessage, ReturnUndelivered, PeekAndCheckStatus, ReinitController,
         RestartController, Enable
    <3> QED
      BY <1>1, <1>3, <3>1, BacklogInPass
  <2> QED
    BY <2>1, <2>2
<1>5. slot \in Nat /\ (~InPass => slot = 0)
  BY DEF DeliveryInv, SwMobsInv, TypedState, TypeOK, PassState
<1>6. Decided' = Decided
  <2>1. CASE pc = "lock" /\ pc' = "walk" /\ slot' = 1
    BY <1>5, <2>1 DEF InPass, Decided
  <2>2. CASE pc = "returnMessage" /\ pc' = "walk" /\ slot' = slot + 1
    BY <1>5, <2>2 DEF Decided
  <2> QED
    BY <1>3, <2>1, <2>2 DEF Decided
<1> QED
  BY <1>1, <1>2, <1>4, <1>6, SeenStays DEF Stutter

(* The walk has seen the whole list: the frame is dispatched.              *)
LEMMA UnlockStep ==
  ASSUME DeliveryInv, UnlockObservers
  PROVE  Delivery!Finish
<1>1. /\ pc = "walk" /\ pc' = "giveBack" /\ slot > Len(observers) /\ slot' = 0
      /\ UNCHANGED <<swmobs, usedSwMobs, num, observers, queue, taken, got, stops>>
  BY DEF UnlockObservers, swQueues, readers
<1>2. InPass /\ Dispatching /\ ~Dispatching'
  BY <1>1 DEF InPass, Dispatching
<1>3. Boxes' = Boxes
  BY <1>1, BoxesStay DEF Next, Execute
<1>4. Backlog # <<>> /\ Tail(Backlog) = Waiting
  BY <1>2, HeadInDispatch
<1>5. Backlog' = Waiting
  <2>1. Waiting' = Waiting
    BY <1>1 DEF Waiting
  <2>2. Backlog' = <<>> \o Waiting'
    BY <1>2 DEF Backlog, Waiting
  <2> QED
    BY <2>1, <2>2, BacklogIs, ConcatEmptySeq
<1>6. Decided = 1..Len(observers) /\ Decided' = {}
  <2>1. slot = Len(observers) + 1 /\ Len(observers) \in Nat
    BY <1>1, <1>2, LenProperties DEF DeliveryInv, PassState, SwMobsInv, TypedState, TypeOK
  <2> QED
    BY <1>1, <2>1 DEF Decided
<1>7. Considered = Registrations /\ Considered' = {} /\ Registrations' = Registrations
  BY <1>1, <1>6 DEF Considered, Registrations
<1> QED
  BY <1>1, <1>3, <1>4, <1>5, <1>7 DEF Delivery!Finish, Boxes

(* One box changes.                                                        *)
LEMMA OneBoxChanges ==
  ASSUME NEW o \in Observers, NEW b, Box(o)' = b,
         \A x \in Observers : x # o => Box(x)' = Box(x)
  PROVE  Boxes' = [Boxes EXCEPT ![o] = b]
BY DEF Boxes

(* The filled message goes into the box, or the box is full.               *)
LEMMA NotifyStep ==
  ASSUME DeliveryInv, Notify
  PROVE  \E r \in Registrations : Delivery!Deliver(r) \/ Delivery!PassOver(r)
<1>1. /\ pc = "notify"
      /\ UNCHANGED <<swmobs, usedSwMobs, num, observers, taken, got, stops>>
      /\ pc' \in {"walk", "returnMessage"}
  BY DEF Notify, swQueues, registry
<1>2. /\ InPass /\ Dispatching /\ slot \in 1..Len(observers) /\ slot \in Nat
      /\ observers[slot].observer \in Observers
      /\ observers[slot].observer # Null
      /\ FrameMatches(observers[slot].filter, swmobs[num])
  BY <1>1, InPassState
<1>3. Dispatching'
  BY <1>1 DEF Dispatching
<1>4. Backlog' = Backlog
  BY <1>1, <1>2, <1>3, BacklogInPass
<1>5. Backlog # <<>> /\ Head(Backlog) = swmobs[num] /\ swmobs[num] \in Frames
  BY <1>2, HeadInDispatch
<1>r. PICK r : r = observers[slot]
  OBVIOUS
<1>o. PICK o \in Observers : o = r.observer
  BY <1>2, <1>r
<1>f. PICK f \in Frames : f = swmobs[num]
  BY <1>5
<1>6. [Next]_vars
  BY DEF Next, Execute
<1>7. /\ msg \in 1..Len(pool) /\ pool'[msg].frame = f
      /\ \A x \in Observers : x # o => queue'[x] = queue[x]
      /\ \/ /\ Len(queue[o]) < ObserverQueue
            /\ queue'[o] = Append(queue[o], msg)
            /\ Len(queue'[o]) = Len(queue[o]) + 1
            /\ queue'[o][Len(queue[o]) + 1] = msg
            /\ \A i \in 1..Len(queue[o]) : queue'[o][i] = queue[o][i]
            /\ pc' = "walk" /\ slot' = slot + 1
         \/ /\ Len(queue[o]) >= ObserverQueue
            /\ queue'[o] = queue[o]
            /\ pc' = "returnMessage" /\ slot' = slot
  BY <1>r, <1>o, <1>f, NotifyFills DEF DeliveryInv
<1>8. Decided' = 1..slot
  BY <1>1, <1>2, <1>7 DEF Decided
<1>9. /\ r \in Registrations \ Considered
      /\ Considered' = Considered \cup {r}
      /\ Registrations' = Registrations
  BY <1>1, <1>2, <1>8, <1>r, SlotConsidered
<1>10. ASSUME NEW x \in Observers, queue'[x] = queue[x] PROVE Box(x)' = Box(x)
  <2>1. /\ \A i \in 1..Len(queue[x]) : pool'[queue[x][i]] = pool[queue[x][i]]
        /\ taken[x] # NoMessage => pool'[taken[x]] = pool[taken[x]]
    BY <1>1, <1>6, <1>10, ReadersFramesKept DEF DeliveryInv
  <2> QED
    BY <1>1, <1>10, <2>1 DEF Box
<1>11. CASE Len(queue[o]) < ObserverQueue
  <2>1. /\ Len(queue[o]) \in Nat /\ ObserverQueue \in Nat
    BY <1>2, PoolTypes DEF DeliveryInv, PoolInv
  <2>2. /\ Len(queue'[o]) = Len(queue[o]) + 1
        /\ queue'[o][Len(queue[o]) + 1] = msg
        /\ \A i \in 1..Len(queue[o]) : queue'[o][i] = queue[o][i]
    BY <1>7, <1>11, <2>1
  <2>3. /\ \A i \in 1..Len(queue[o]) : pool'[queue[o][i]] = pool[queue[o][i]]
        /\ taken[o] # NoMessage => pool'[taken[o]] = pool[taken[o]]
    BY <1>1, <1>2, <1>6, <2>1, <2>2, ReadersFramesKept DEF DeliveryInv
  <2>4. Queued(o) \in Seq(Frames) /\ Len(Queued(o)) = Len(queue[o])
    BY <1>2, BoxIs
  <2> DEFINE q == [i \in 1..Len(queue'[o]) |-> pool'[queue'[o][i]].frame]
  <2>5. q = Append(Queued(o), f)
    <3>1. \A i \in 1..Len(queue[o]) : q[i] = Queued(o)[i]
      BY <2>1, <2>2, <2>3 DEF Queued
    <3>2. q[Len(queue[o]) + 1] = f
      BY <1>7, <2>1, <2>2
    <3>3. q \in [1..(Len(queue[o]) + 1) -> Frames]
      <4>1. ASSUME NEW i \in 1..(Len(queue[o]) + 1) PROVE q[i] \in Frames
        <5>1. CASE i = Len(queue[o]) + 1
          BY <1>5, <3>2, <5>1
        <5>2. CASE i # Len(queue[o]) + 1
          <6>1. i \in 1..Len(queue[o])
            BY <2>1, <5>2
          <6> QED
            BY <2>4, <3>1, <6>1, ElementOfSeq
        <5> QED
          BY <5>1, <5>2
      <4> QED
        BY <2>2, <4>1
    <3>4. q \in Seq(Frames) /\ Len(q) = Len(queue[o]) + 1
      BY <2>1, <3>3
    <3> HIDE DEF q
    <3> QED
      BY <1>5, <2>4, <3>1, <3>2, <3>4, Appended
  <2>6. Box(o)' = Append(Box(o), f)
    <3>1. CASE Unread(o)
      <4>1. /\ pool[taken[o]].frame \in Frames
            /\ Box(o) = <<pool[taken[o]].frame>> \o Queued(o)
        BY <3>1, BoxIs
      <4>2. Box(o)' = <<pool[taken[o]].frame>> \o q
        BY <1>1, <2>3, <3>1 DEF Box, Unread
      <4> HIDE DEF q
      <4> QED
        BY <2>4, <2>5, <4>1, <4>2, FrontAndBack
    <3>2. CASE ~Unread(o)
      <4>1. Box(o) = Queued(o)
        BY <3>2, BoxIs
      <4>2. Box(o)' = <<>> \o q
        BY <1>1, <3>2 DEF Box, Unread
      <4>3. Append(Queued(o), f) \in Seq(Frames)
        BY <2>4, AppendProperties
      <4> HIDE DEF q
      <4> QED
        BY <2>5, <4>1, <4>2, <4>3, ConcatEmptySeq
    <3> QED
      BY <3>1, <3>2
  <2>7. Boxes' = [Boxes EXCEPT ![o] = Append(Box(o), f)]
    <3>1. \A x \in Observers : x # o => Box(x)' = Box(x)
      BY <1>7, <1>10
    <3> QED
      BY <2>6, <3>1, OneBoxChanges
  <2>8. Boxes[o] = Box(o)
    BY DEF Boxes
  <2>9. Delivery!Deliver(r)
    BY <1>1, <1>2, <1>4, <1>5, <1>9, <1>r, <1>o, <1>f, <2>7, <2>8
       DEF Delivery!Deliver, Delivery!Consider, Boxes
  <2> QED
    BY <1>9, <2>9
<1>12. CASE ~(Len(queue[o]) < ObserverQueue)
  <2>1. /\ Len(queue[o]) \in Nat /\ ObserverQueue \in Nat
        /\ Len(queue[o]) >= ObserverQueue /\ queue'[o] = queue[o]
    <3>1. Len(queue[o]) \in Nat /\ ObserverQueue \in Nat
      BY PoolTypes DEF DeliveryInv, PoolInv
    <3> QED
      BY <1>7, <1>12, <3>1
  <2>2. \A x \in Observers : Box(x)' = Box(x)
    <3>1. \A x \in Observers : queue'[x] = queue[x]
      BY <1>7, <2>1
    <3> QED
      BY <1>10, <3>1
  <2>3. Boxes' = Boxes
    BY <2>2 DEF Boxes
  <2>4. Len(Boxes[o]) >= ObserverQueue
    <3>1. /\ Len(Box(o)) = IF Unread(o) THEN Len(queue[o]) + 1 ELSE Len(queue[o])
          /\ Boxes[o] = Box(o)
      BY BoxLength DEF Boxes
    <3> QED
      BY <2>1, <3>1
  <2>5. Delivery!PassOver(r)
    BY <1>1, <1>4, <1>5, <1>9, <1>o, <2>3, <2>4
       DEF Delivery!PassOver, Delivery!Consider, Boxes
  <2> QED
    BY <1>9, <2>5
<1> QED
  BY <1>11, <1>12

-----------------------------------------------------------------------------
(* The reading tasks.                                                      *)

(* The received pointer still stands for the first frame of the box.       *)
LEMMA TakeStep ==
  ASSUME DeliveryInv, NEW o \in Observers, TakeMessage(o)
  PROVE  Stutter
<1>1. UNCHANGED <<pc, num, slot, swmobs, usedSwMobs, observers, pool, got, stops>>
  BY DEF TakeMessage, swQueues, registry, poolVars, task
<1>2. Decided' = Decided /\ Backlog' = Backlog
  BY <1>1 DEF Decided, Backlog, Dispatching
<1>3. /\ 1 \in 1..Len(queue[o])
      /\ taken[o] = NoMessage /\ got[o] = Null
      /\ taken'[o] = queue[o][1] /\ taken'[o] # NoMessage
      /\ Len(queue'[o]) = Len(queue[o]) - 1
      /\ \A i \in 1..Len(queue'[o]) : queue'[o][i] = queue[o][i + 1]
      /\ \A x \in Observers : x # o => taken'[x] = taken[x] /\ queue'[x] = queue[x]
  BY TakeMoves DEF DeliveryInv
<1>4. \A x \in Observers : x # o => Box(x)' = Box(x)
  BY <1>1, <1>3 DEF Box
<1>5. Box(o)' = Box(o)
  <2>1. /\ Queued(o) \in Seq(Frames) /\ Len(Queued(o)) = Len(queue[o])
        /\ Box(o) = Queued(o) /\ Len(queue[o]) \in Nat \ {0}
    <3>1. Len(queue[o]) \in Nat
      BY PoolTypes DEF DeliveryInv, PoolInv
    <3>2. Len(queue[o]) # 0
      BY <1>3, <3>1
    <3>3. ~Unread(o)
      BY <1>3 DEF Unread
    <3>4. /\ Queued(o) \in Seq(Frames) /\ Len(Queued(o)) = Len(queue[o])
          /\ Box(o) = Queued(o)
      BY <3>3, BoxIs
    <3> QED
      BY <3>1, <3>2, <3>4
  <2> DEFINE q == [i \in 1..Len(queue'[o]) |-> pool'[queue'[o][i]].frame]
             y == pool[queue[o][1]].frame
  <2>2. Box(o)' = <<y>> \o q
    BY <1>1, <1>3 DEF Box
  <2>3. /\ \A i \in 1..Len(queue'[o]) : q[i] = Queued(o)[i + 1]
        /\ Queued(o)[1] = y
    BY <1>1, <1>3, <2>1 DEF Queued
  <2>4. q \in Seq(Frames) /\ Len(q) = Len(queue'[o])
    <3>1. ASSUME NEW i \in 1..Len(queue'[o]) PROVE q[i] \in Frames
      <4>1. i + 1 \in 1..Len(Queued(o))
        BY <1>3, <2>1
      <4> QED
        BY <2>1, <2>3, <4>1, ElementOfSeq
    <3>2. q \in [1..Len(queue'[o]) -> Frames]
      BY <3>1
    <3>3. Len(queue'[o]) \in Nat
      BY <1>3, <2>1
    <3> QED
      BY <3>2, <3>3
  <2> HIDE DEF q, y
  <2>5. y \in Frames
    BY <1>3, <2>1, <2>3, ElementOfSeq
  <2>6. Queued(o) = <<y>> \o q
    BY <1>3, <2>1, <2>3, <2>4, <2>5, Fronted
  <2> QED
    BY <2>1, <2>2, <2>6
<1>6. Boxes' = Boxes
  BY <1>4, <1>5 DEF Boxes
<1> QED
  BY <1>1, <1>2, <1>6, SeenStays DEF Stutter

(* Assigning the message is reading the first frame of the box.            *)
LEMMA AssignStep ==
  ASSUME DeliveryInv, NEW o \in Observers, AssignMessage(o)
  PROVE  Delivery!ReadFrame(o)
<1>1. /\ UNCHANGED <<pc, num, slot, swmobs, usedSwMobs, observers, pool, queue, taken, stops>>
      /\ taken[o] # NoMessage /\ got[o] = Null
      /\ got' = [got EXCEPT ![o] = pool[taken[o]].frame] /\ DOMAIN got = Observers
  BY DEF AssignMessage, swQueues, registry, poolVars, task, DeliveryInv, PoolInv, TypedState,
     TypeOK
<1>2. Decided' = Decided /\ Backlog' = Backlog
  BY <1>1 DEF Decided, Backlog, Dispatching
<1>3. /\ Queued(o) \in Seq(Frames) /\ pool[taken[o]].frame \in Frames
      /\ Box(o) = <<pool[taken[o]].frame>> \o Queued(o) /\ Boxes[o] = Box(o)
  BY <1>1, BoxIs DEF Unread
<1>4. Box(o) # <<>> /\ Head(Box(o)) = pool[taken[o]].frame /\ Tail(Box(o)) = Queued(o)
  BY <1>3, FrontIsHead
<1>5. Box(o)' = Queued(o)
  <2>1. got'[o] # Null
    BY <1>1, <1>3, CANReceiveAssumption
  <2>2. Box(o)' = <<>> \o Queued(o)
    BY <1>1, <2>1 DEF Box, Queued
  <2> QED
    BY <1>3, <2>2, ConcatEmptySeq
<1>6. \A x \in Observers : x # o => Box(x)' = Box(x)
  BY <1>1 DEF Box
<1>7. Boxes' = [Boxes EXCEPT ![o] = Tail(Box(o))]
  BY <1>4, <1>5, <1>6, OneBoxChanges
<1> QED
  BY <1>1, <1>2, <1>3, <1>4, <1>7, SeenStays DEF Delivery!ReadFrame, Boxes

(* Returning the message to the pool releases the frame that was read.     *)
LEMMA ReturnStep ==
  ASSUME DeliveryInv, NEW o \in Observers, ReturnMessage(o)
  PROVE  Delivery!Release(o)
<1>1. /\ UNCHANGED <<pc, num, slot, swmobs, usedSwMobs, observers, queue, stops>>
      /\ got[o] # Null
      /\ got' = [got EXCEPT ![o] = Null] /\ DOMAIN got = Observers
      /\ taken' = [taken EXCEPT ![o] = NoMessage] /\ DOMAIN taken = Observers
  BY DEF ReturnMessage, swQueues, registry, task, DeliveryInv, PoolInv, TypedState,
     TypeOK
<1>2. Decided' = Decided /\ Backlog' = Backlog
  BY <1>1 DEF Decided, Backlog, Dispatching
<1>3. ASSUME NEW x \in Observers PROVE Box(x)' = Box(x)
  <2>1. /\ \A i \in 1..Len(queue[x]) : pool'[queue[x][i]] = pool[queue[x][i]]
        /\ taken[x] # NoMessage /\ taken'[x] = taken[x] => pool'[taken[x]] = pool[taken[x]]
    BY <1>1, ReadersFramesKept DEF DeliveryInv, Next, Read
  <2>2. CASE x = o
    BY <1>1, <2>1, <2>2 DEF Box
  <2>3. CASE x # o
    BY <1>1, <2>1, <2>3 DEF Box
  <2> QED
    BY <2>2, <2>3
<1>4. Boxes' = Boxes
  BY <1>3 DEF Boxes
<1> QED
  BY <1>1, <1>2, <1>4, SeenStays DEF Delivery!Release, Boxes

-----------------------------------------------------------------------------
(* The application's calls.                                                *)

(* The application has the list's mutex: no pass is going on.              *)
LEMMA BetweenPasses ==
  ASSUME DeliveryInv, ~observerMutex, UNCHANGED <<pc, slot>>
  PROVE  Considered = {} /\ Considered' = {}
<1>1. ~InPass
  BY DEF DeliveryInv, PoolInv, TypedState, TaskState, InPass
<1>2. slot = 0 /\ pc # "returnMessage"
  BY <1>1 DEF DeliveryInv, PassState, InPass
<1>3. Decided' = {}
  BY <1>2 DEF Decided
<1> QED
  BY <1>1, <1>3, NothingConsidered DEF Considered

(* Registering enters one registration.                                    *)
LEMMA RegisterStep ==
  ASSUME DeliveryInv, NEW o \in Observers, NEW filter \in Filters,
         RegisterObserver(o, filter)
  PROVE  Delivery!Subscribe(o, filter)
<1>1. /\ ~observerMutex /\ observers' = Registered(observers, o, filter)
      /\ UNCHANGED <<pc, num, slot, swmobs, usedSwMobs, pool, queue, taken, got, stops>>
      /\ observers \in Seq(Slot)
  BY DEF RegisterObserver, swQueues, poolVars, task, readers, DeliveryInv, SwMobsInv,
     TypedState, TypeOK
<1>2. Considered = {} /\ Considered' = {}
  BY <1>1, BetweenPasses
<1>3. Backlog' = Backlog /\ Boxes' = Boxes
  BY <1>1 DEF Backlog, Dispatching, Boxes, Box
<1>4. Registrations = Entries(observers) /\ Registrations' = Entries(observers')
  BY DEF Registrations, Entries
<1>5. filter \in Filter
  BY CANReceiveAssumption
<1>6. Entries(observers') = Entries(observers) \cup {[observer |-> o, filter |-> filter]}
  BY <1>1, <1>5, RegisteredEnters
<1> QED
  BY <1>1, <1>2, <1>3, <1>4, <1>6 DEF Delivery!Subscribe, Boxes

(* Unregistering removes some.                                             *)
LEMMA UnregisterStep ==
  ASSUME DeliveryInv, NEW o \in Observers, NEW filter \in Filter,
         UnregisterObserver(o) \/ UnregisterFilter(o, filter)
  PROVE  \E some \in SUBSET Registrations : Delivery!Unsubscribe(some)
<1>1. /\ ~observerMutex
      /\ \/ observers' = Unregistered(observers, o)
         \/ observers' = UnregisteredFilter(observers, o, filter)
      /\ UNCHANGED <<pc, num, slot, swmobs, usedSwMobs, pool, queue, taken, got, stops>>
      /\ observers \in Seq(Slot)
  BY DEF UnregisterObserver, UnregisterFilter, swQueues, poolVars, task, readers,
     DeliveryInv, SwMobsInv, TypedState, TypeOK
<1>2. Considered = {} /\ Considered' = {}
  BY <1>1, BetweenPasses
<1>3. Backlog' = Backlog /\ Boxes' = Boxes
  BY <1>1 DEF Backlog, Dispatching, Boxes, Box
<1>4. Registrations = Entries(observers) /\ Registrations' = Entries(observers')
  BY DEF Registrations, Entries
<1>5. PICK after : after = observers'
  OBVIOUS
<1>6. /\ Len(after) = Len(observers)
      /\ \A i \in 1..Len(observers) : after[i] = observers[i] \/ after[i] = EmptySlot
  <2> DEFINE u == Unregistered(observers, o)
             v == UnregisteredFilter(observers, o, filter)
  <2>1. /\ Len(u) = Len(observers)
        /\ \A i \in 1..Len(observers) : u[i] = observers[i] \/ u[i] = EmptySlot
    BY <1>1, UnregisterEmpties
  <2>2. /\ Len(v) = Len(observers)
        /\ \A i \in 1..Len(observers) : v[i] = observers[i] \/ v[i] = EmptySlot
    BY <1>1, UnregisterEmpties
  <2>3. after = u \/ after = v
    BY <1>1, <1>5
  <2> HIDE DEF u, v
  <2> QED
    BY <2>1, <2>2, <2>3
<1>7. Entries(after) \subseteq Entries(observers)
  BY <1>1, <1>6, EmptiedRemoves
<1>8. PICK some : some = Registrations \ Entries(after)
  OBVIOUS
<1>9. some \in SUBSET Registrations /\ Registrations' = Registrations \ some
  BY <1>4, <1>5, <1>7, <1>8
<1>10. Delivery!Unsubscribe(some)
  BY <1>1, <1>2, <1>3, <1>9 DEF Delivery!Unsubscribe, Boxes
<1> QED
  BY <1>9, <1>10

(* disable() cuts the pass short, and loses the frame in dispatch.         *)
LEMMA DisableStep ==
  ASSUME DeliveryInv, Disable
  PROVE  Delivery!Abort
<1>1. /\ UNCHANGED <<swmobs, usedSwMobs, observers, queue, taken, got>>
      /\ pc' = "stopped" /\ slot' = 0 /\ stops' = stops + 1
  BY DEF Disable, swQueues, registry, readers
<1>2. Boxes' = Boxes
  BY <1>1, BoxesStay DEF Next, Application
<1>3. Considered' = {} /\ Registrations' = Registrations
  <2>1. Decided' = {}
    BY <1>1 DEF Decided
  <2> QED
    BY <1>1, <2>1 DEF Considered, Registrations
<1>4. Backlog' = Waiting
  <2>1. Waiting' = Waiting
    BY <1>1 DEF Waiting
  <2>2. Backlog' = <<>> \o Waiting'
    BY <1>1 DEF Backlog, Waiting, Dispatching
  <2> QED
    BY <2>1, <2>2, BacklogIs, ConcatEmptySeq
<1>5. \/ Backlog' = Backlog
      \/ Backlog # <<>> /\ Backlog' = Tail(Backlog)
  <2>1. CASE Dispatching
    <3>1. Backlog # <<>> /\ Tail(Backlog) = Waiting
      BY <2>1, HeadInDispatch
    <3> QED
      BY <1>4, <3>1
  <2>2. CASE ~Dispatching
    <3>1. Backlog = Waiting
      BY <2>2, BacklogIs
    <3> QED
      BY <1>4, <3>1
  <2> QED
    BY <2>1, <2>2
<1> QED
  BY <1>1, <1>2, <1>3, <1>5 DEF Delivery!Abort, Boxes

-----------------------------------------------------------------------------
(* Before anything happens the service has nothing to deliver.             *)
LEMMA StartsEmpty == Init => Delivery!Init
<1> SUFFICES ASSUME Init PROVE Delivery!Init
  OBVIOUS
<1>1. DeliveryInv /\ ~InPass /\ ~Dispatching
  BY InitDelivery DEF Init, InPass, Dispatching
<1>2. Backlog = <<>>
  <2>1. Len(usedSwMobs) = 0
    BY DEF Init
  <2>2. Backlog \in Seq(Frames) /\ Len(Backlog) = 0
    BY <1>1, <2>1, BacklogIs
  <2> QED
    BY <2>2, EmptySeq
<1>3. Considered = {}
  BY <1>1, NothingConsidered
<1>4. Registrations = {}
  <2>1. Len(observers) = FragmentLength
    BY FragmentIsList DEF Init
  <2>2. \A i \in 1..Len(observers) : observers[i].observer = Null
    BY <2>1 DEF Init, Fragment, EmptySlot
  <2> QED
    BY <2>2 DEF Registrations
<1>5. ASSUME NEW o \in Observers PROVE Box(o) = <<>>
  <2>1. Len(queue[o]) = 0 /\ ~Unread(o)
    BY DEF Init, Unread
  <2>2. Box(o) \in Seq(Frames) /\ Len(Box(o)) = 0
    BY <1>1, <2>1, BoxLength
  <2> QED
    BY <2>2, EmptySeq
<1>6. got = [o \in Observers |-> Null] /\ stops = 0
  BY DEF Init
<1> QED
  BY <1>2, <1>3, <1>4, <1>5, <1>6 DEF Delivery!Init

(* The receive path implements the delivery service (DeliversInOrder):     *)
(* whatever tasks, interrupts and disable() do, an observer reads, in the  *)
(* order the interrupt handler fetched them and unaltered, the frames that *)
(* match one of its filters, each once per filter, but for those that      *)
(* found its queue full or every message in use, or whose dispatch was cut *)
(* short.                                                                  *)
THEOREM DeliveryImplemented == Spec => DeliversInOrder
<1>1. Init => Delivery!Init
  BY StartsEmpty
<1>2. DeliveryInv /\ [Next]_vars => [Delivery!Next]_(Delivery!dvars)
  <2> SUFFICES ASSUME DeliveryInv, [Next]_vars
               PROVE  Delivery!Next \/ UNCHANGED Delivery!dvars
    OBVIOUS
  <2>1. CASE HandleInterrupt
    BY <2>1, HandlerStep, StutterIs DEF Delivery!Next
  <2>2. CASE ReceiveSwMob
    BY <2>2, ReceiveStep, StutterIs
  <2>3. CASE SkipSlot
    BY <2>3, SkipStep, StutterIs DEF Delivery!Next
  <2>4. CASE GetMessage
    BY <2>4, GetMessageStep, StutterIs DEF Delivery!Next
  <2>5. CASE Notify
    BY <2>5, NotifyStep DEF Delivery!Next
  <2>6. CASE UnlockObservers
    BY <2>6, UnlockStep DEF Delivery!Next
  <2>7. ASSUME NEW o \in Observers, Read(o)
        PROVE  Delivery!Next \/ UNCHANGED Delivery!dvars
    <3>1. CASE TakeMessage(o)
      BY <3>1, TakeStep, StutterIs
    <3>2. CASE AssignMessage(o)
      BY <3>2, AssignStep DEF Delivery!Next
    <3>3. CASE ReturnMessage(o)
      BY <3>3, ReturnStep DEF Delivery!Next
    <3> QED
      BY <2>7, <3>1, <3>2, <3>3 DEF Read
  <2>8. ASSUME NEW o \in Observers, NEW filter \in Filters, RegisterObserver(o, filter)
        PROVE  Delivery!Next
    BY <2>8, RegisterStep DEF Delivery!Next
  <2>9. ASSUME NEW o \in Observers, NEW filter \in Filters, UnregisterFilter(o, filter)
        PROVE  Delivery!Next
    <3>1. filter \in Filter
      BY CANReceiveAssumption
    <3> QED
      BY <2>9, <3>1, UnregisterStep DEF Delivery!Next
  <2>10. ASSUME NEW o \in Observers, UnregisterObserver(o)
         PROVE  Delivery!Next
    <3>1. PICK filter : filter \in Filter
      <4>1. [can_id |-> {}, mask |-> {}] \in Filter
        BY DEF Filter
      <4> QED
        BY <4>1
    <3> QED
      BY <2>10, <3>1, UnregisterStep DEF Delivery!Next
  <2>11. CASE Disable
    BY <2>11, DisableStep DEF Delivery!Next
  <2>12. CASE \/ Peripheral \/ LockObservers \/ EnterGetMessage \/ ReturnUndelivered
              \/ GiveBackSwMob \/ PeekAndCheckStatus \/ ReinitController
              \/ RestartController \/ Enable
    BY <2>12, QuietStep, StutterIs
  <2>13. CASE UNCHANGED vars
    BY <2>13 DEF vars, swQueues, registry, poolVars, task, readers, Delivery!dvars,
       Backlog, Dispatching, Considered, Decided, Registrations, Box
  <2> QED
    BY <2>1, <2>2, <2>3, <2>4, <2>5, <2>6, <2>7, <2>8, <2>9, <2>10, <2>11, <2>12, <2>13
       DEF Next, Execute, Application
<1> QED
  BY <1>1, <1>2, AlwaysDeliveryInv, PTL DEF Spec, DeliversInOrder, Delivery!Spec
=============================================================================
