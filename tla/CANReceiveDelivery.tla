------------------------- MODULE CANReceiveDelivery -------------------------
(***************************************************************************)
(* The receive path implements CANDelivery: the backlog is what the used   *)
(* queue refers to, after the frame in dispatch; a box is what an          *)
(* observer's queue refers to, after a pointer it has received and not     *)
(* yet assigned.                                                           *)
(***************************************************************************)
EXTENDS CANReceive

Dispatching == pc \in {"lock", "walk", "getMessage", "notify", "returnMessage"}

Backlog ==
  (IF Dispatching THEN <<swmobs[num]>> ELSE <<>>)
    \o [i \in 1..Len(usedSwMobs) |-> swmobs[usedSwMobs[i]]]

(* The slots the walk has decided about: the one whose message was refused *)
(* by a full queue is among them while the message goes back to the pool.  *)
Decided == 1..(IF pc = "returnMessage" THEN slot ELSE slot - 1)

Considered ==
  {observers[i] : i \in {j \in Decided : observers[j].observer # Null}}

Registrations ==
  {observers[i] : i \in {j \in 1..Len(observers) : observers[j].observer # Null}}

Box(o) ==
  (IF taken[o] # NoMessage /\ got[o] = Null
   THEN <<pool[taken[o]].frame>> ELSE <<>>)
    \o [i \in 1..Len(queue[o]) |-> pool[queue[o][i]].frame]

FrameMatches(filter, f) == Accepts(filter, Id[f])

Delivery == INSTANCE CANDelivery WITH
  Match <- FrameMatches, BoxSize <- ObserverQueue, Objects <- PoolSize,
  backlog <- Backlog, considered <- Considered,
  registrations <- Registrations, box <- [o \in Observers |-> Box(o)],
  reading <- got, aborts <- stops

(* Every observer reads, in the order the interrupt handler fetched them   *)
(* and unaltered, the frames that match one of its filters, each once per  *)
(* filter, but for those that found its queue full, no message left, or a  *)
(* dispatch cut short by disable().                                        *)
DeliversInOrder == Delivery!Spec
=============================================================================
