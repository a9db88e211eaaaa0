-------------------------- MODULE CANObserverList ---------------------------
(***************************************************************************)
(* The observer list of a CANController: fragments of a fixed number of    *)
(* slots, chained and never freed.  A list is the sequence of the slots of *)
(* all its fragments.  A CAN id and a mask are the sets of their one bits, *)
(* so that "id & mask" is id \cap mask.                                    *)
(***************************************************************************)
EXTENDS Naturals, Sequences, FiniteSets, FiniteSetsExt

CONSTANTS
  Observers,        \* the CANObserver objects
  Bits,             \* the bit positions of a CAN id
  FragmentLength,   \* observer_list_length, 10 in the code
  Null              \* the null pointer

ASSUME ObserverListAssumption ==
  /\ FragmentLength \in Nat \ {0}
  /\ Null \notin Observers

Filter == [can_id : SUBSET Bits, mask : SUBSET Bits]
Slot   == [observer : Observers \cup {Null}, filter : Filter]

EmptySlot == [observer |-> Null, filter |-> [can_id |-> {}, mask |-> {}]]
Fragment  == [i \in 1..FragmentLength |-> EmptySlot]

(* (id & mask) == (can_id & mask): the test of the notification loop.      *)
Accepts(filter, id) == id \cap filter.mask = filter.can_id \cap filter.mask

IsRegistered(list, o, filter) ==
  \E i \in 1..Len(list) : list[i].observer = o /\ list[i].filter = filter

FreeSlots(list) == {i \in 1..Len(list) : list[i].observer = Null}

(* registerObserver(): the same observer with the same id and mask is not  *)
(* entered twice; otherwise the first empty slot is used, and a fragment   *)
(* is appended when there is none.                                         *)
Registered(list, o, filter) ==
  LET room == IF FreeSlots(list) = {} THEN list \o Fragment ELSE list
  IN  IF IsRegistered(list, o, filter) THEN list
      ELSE [room EXCEPT ![Min(FreeSlots(room))] =
                           [observer |-> o, filter |-> filter]]

(* unregisterObserver(observer): every slot of the observer is emptied.    *)
Unregistered(list, o) ==
  [i \in 1..Len(list) |-> IF list[i].observer = o THEN EmptySlot ELSE list[i]]

(* unregisterObserver(observer, can_id, mask): the slots of the observer   *)
(* with this mask and with an id that agrees with can_id under the mask.   *)
UnregisteredFilter(list, o, filter) ==
  [i \in 1..Len(list) |->
     IF /\ list[i].observer = o
        /\ list[i].filter.can_id \cap filter.mask = filter.can_id \cap filter.mask
        /\ list[i].filter.mask = filter.mask
     THEN EmptySlot ELSE list[i]]
=============================================================================
