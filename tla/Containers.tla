------------------------------ MODULE Containers ------------------------------
(***************************************************************************)
(* LinkedList, HashTable (a LinkedList of pairs that are equal when their  *)
(* keys are), RingBuffer and MovingAverage, used by one task.              *)
(***************************************************************************)
EXTENDS Integers, Sequences, FiniteSetsExt

CONSTANTS Keys, Values,
          MaxItems,              \* bound: length of the lists
          RingSize, MaxPushes    \* bound: values pushed

ASSUME ContainersAssumption ==
    /\ Values \subseteq Nat /\ MaxItems \in Nat
    /\ RingSize \in Nat \ {0} /\ MaxPushes \in Nat

VARIABLES list,                \* a LinkedList of keys
          pairs,               \* the list of a HashTable
          setPairs, lastSet,   \* history: the pair last set for each key; the last key
          ring, ringPos,       \* RingBuffer: _buf, _pos
          sum,                 \* MovingAverage, whose buffer is filled like _buf
          pushed, totals       \* history: the values; the sums of none, one, two, ... of them

hashVars == <<pairs, setPairs, lastSet>>
ringVars == <<ring, ringPos, sum, pushed, totals>>
containerVars == <<list, hashVars, ringVars>>

ContainersInit ==
    /\ list = <<>>
    /\ pairs = <<>> /\ setPairs = {} /\ lastSet = {}
    /\ ring = [i \in 0..RingSize - 1 |-> 0] /\ ringPos = 0 /\ sum = 0
    /\ pushed = <<>> /\ totals = <<0>>

-----------------------------------------------------------------------------
(***************************************************************************)
(* LinkedList::remove(): the items that match at the beginning go; of the  *)
(* others "previous" stays at the first, so that each match links that one *)
(* to what follows the match.                                              *)
(***************************************************************************)
Removed(s, matching) ==
    LET kept == DOMAIN s \ matching
        found == {i \in matching : \E j \in kept : j < i}
    IN  IF kept = {} THEN <<>>
        ELSE IF found = {} THEN SubSeq(s, Min(kept), Len(s))
        ELSE <<s[Min(kept)]>> \o SubSeq(s, Max(found) + 1, Len(s))

RemovedAt(s, i) == SubSeq(s, 1, i - 1) \o SubSeq(s, i + 1, Len(s))

At(s, x) == {i \in DOMAIN s : s[i] = x}

(* Fault: remove() ends with its first match.                              *)
WithoutFirst(s, x) ==
    IF At(s, x) # {} THEN RemovedAt(s, Min(At(s, x))) ELSE s

Without(s, x) == Removed(s, At(s, x))

ListAdd(x) ==
    /\ Len(list) < MaxItems
    /\ list' = Append(list, x)

ListRemove(x) == list' = Without(list, x)

ListRemoveAt(i) == list' = RemovedAt(list, i)

ListOperation ==
    /\ \/ \E x \in Keys : ListAdd(x) \/ ListRemove(x)
       \/ \E i \in DOMAIN list : ListRemoveAt(i)
    /\ UNCHANGED <<hashVars, ringVars>>

(***************************************************************************)
(* HashTable: set() removes what has the same key and adds the pair at the *)
(* end, get() finds the first with the key.                                *)
(***************************************************************************)
Pair(k, v) == [key |-> k, value |-> v]
WithoutKey(s, k) == Removed(s, {i \in DOMAIN s : s[i].key = k})

(* Fault: the old pair is not removed.                                     *)
SetTwice(s, k, v) == Append(s, Pair(k, v))
SetOnce(s, k, v) == Append(WithoutKey(s, k), Pair(k, v))

HashSet(k, v) ==
    /\ pairs' = SetOnce(pairs, k, v)
    /\ setPairs' = {pair \in setPairs : pair.key # k} \cup {Pair(k, v)}
    /\ lastSet' = {k}
    /\ UNCHANGED <<list, ringVars>>

HashGet(k) ==
    LET found == {i \in DOMAIN pairs : pairs[i].key = k}
    IN  IF found = {} THEN {} ELSE {pairs[Min(found)].value}

(***************************************************************************)
(* RingBuffer and MovingAverage: the position moves on, then the value is  *)
(* stored; get() counts back from the last.                                *)
(***************************************************************************)
NextPos(pos) == (pos + 1) % RingSize

(* Fault: the value at the position before the last is taken away.         *)
SumOffByOne(value) == sum - ring[ringPos] + value
SumWith(value) == sum - ring[NextPos(ringPos)] + value

RingPush(value) ==
    /\ Len(pushed) < MaxPushes
    /\ sum' = SumWith(value)
    /\ ringPos' = NextPos(ringPos)
    /\ ring' = [ring EXCEPT ![NextPos(ringPos)] = value]
    /\ pushed' = Append(pushed, value)
    /\ totals' = Append(totals, totals[Len(totals)] + value)
    /\ UNCHANGED <<list, hashVars>>

RingGet(position) == ring[(ringPos - position) % RingSize]

HashOperation == \E k \in Keys, v \in Values : HashSet(k, v)

RingOperation == \E v \in Values : RingPush(v)

-----------------------------------------------------------------------------
(***************************************************************************)
(* remove() leaves nothing that matches, and each other item as many       *)
(* places earlier as matches were before it, in any list in which at most  *)
(* one item to keep comes before the last match.  Otherwise the others     *)
(* before that match are lost with it (LinkedList.h:105-132).              *)
(***************************************************************************)
ListRemoves ==
    \A x \in Keys :
        LET result == Without(list, x)
            last == Max({0} \cup At(list, x))
            before == Cardinality(1..last \ At(list, x))
            lost == IF before <= 1 THEN 0 ELSE before - 1
            Earlier(i) == Cardinality({j \in At(list, x) : j < i}) + lost
        IN  /\ Len(result) = Len(list) - Cardinality(At(list, x)) - lost
            /\ \A i \in DOMAIN result : result[i] # x
            /\ \A i \in DOMAIN list \ At(list, x) :
                   before <= 1 \/ i > last => result[i - Earlier(i)] = list[i]

(***************************************************************************)
(* get() finds the pair that was set last, and never a value that was      *)
(* replaced, though set() may lose other pairs (HashTable.h:40-55).        *)
(***************************************************************************)
HashReadsLatest ==
    /\ \A k \in Keys : HashGet(k) \subseteq {pair.value : pair \in {p \in setPairs : p.key = k}}
    /\ \A k \in lastSet : HashGet(k) # {}

(***************************************************************************)
(* get(0) is the value pushed last, get(1) the one before, and the sum is  *)
(* that of the last RingSize values, of all but those pushed before them;  *)
(* the values of the beginning are 0 (Ringbuffer.h:40-51,                  *)
(* MovingAverage.h:45-51).                                                 *)
(***************************************************************************)
PushedBefore(i) == IF i < Len(pushed) THEN pushed[Len(pushed) - i] ELSE 0

TotalOf(n) == IF n > 0 THEN totals[n + 1] ELSE 0

RingAndSumAgree ==
    /\ \A i \in 0..RingSize - 1 : RingGet(i) = PushedBefore(i)
    /\ sum = TotalOf(Len(pushed)) - TotalOf(Len(pushed) - RingSize)
=============================================================================
