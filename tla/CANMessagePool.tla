--------------------------- MODULE CANMessagePool ---------------------------
(***************************************************************************)
(* The pool a CANController lends CANMessage objects from                  *)
(* (CAN/CANMessagePool.h).  A pool is the sequence of its PoolEntry        *)
(* objects in list order; the CANMessage of an entry is named by the       *)
(* entry's position, so a "pointer" to a message is a natural number and   *)
(* NoMessage is the null pointer.  Every operation runs under the pool's   *)
(* _lock, which the modules that use the pool model.                       *)
(***************************************************************************)
EXTENDS Naturals, Sequences, FiniteSetsExt

CONSTANTS PoolSize   \* _maxSize, 100 in CANController

ASSUME PoolSizeAssumption == PoolSize \in Nat \ {0}

NoMessage == 0

(* The entries getMessage() may hand out: the list is scanned from its     *)
(* first item and the first entry that is not in use is taken.             *)
Unused(pool) == {p \in 1..Len(pool) : ~pool[p].inUse}

(* Fault: one entry more than the limit.                                   *)
CanOvergrow(pool) == Len(pool) <= PoolSize

(* No entry is free: getMessage() allocates a new one, up to the limit.    *)
CanGrow(pool) == Len(pool) < PoolSize

(* The message getMessage() returns.                                       *)
Lent(pool) ==
  IF Unused(pool) # {} THEN Min(Unused(pool))
  ELSE IF CanGrow(pool) THEN Len(pool) + 1
  ELSE NoMessage

(* The pool after getMessage().                                            *)
AfterGet(pool, blank) ==
  IF Unused(pool) # {} THEN [pool EXCEPT ![Lent(pool)].inUse = TRUE]
  ELSE IF CanGrow(pool) THEN Append(pool, [inUse |-> TRUE, frame |-> blank])
  ELSE pool

(* The pool after returnMessage(p): the entry of message p is unused (as   *)
(* it stays if it was unused before).  What an unused message contains is  *)
(* of no interest and forgotten: reading one would show as reading blank.  *)
AfterReturn(pool, p, blank) ==
  [pool EXCEPT ![p] = [inUse |-> FALSE, frame |-> blank]]
=============================================================================
