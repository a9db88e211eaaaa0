----------------------------- MODULE QueueLemmas ----------------------------
(***************************************************************************)
(* Facts about sequences used as queues of distinct elements, and about    *)
(* minima, that the proofs about the components rest on.                   *)
(***************************************************************************)
EXTENDS SequencesExt, FiniteSetTheorems, SequenceTheorems, TLAPS

(* The minimum of a non-empty set of natural numbers belongs to it.        *)
LEMMA MinInSet ==
  ASSUME NEW S \in SUBSET Nat, S # {}
  PROVE  Min(S) \in S /\ \A y \in S : Min(S) <= y
<1>1. PICK x \in S : \A y \in S : ~ (<<y, x>> \in OpToRel(<, Nat))
  BY NatLessThanWellFounded, WFMin
<1>2. ASSUME NEW y \in S PROVE x <= y
  <2>1. x \in Nat /\ y \in Nat
    OBVIOUS
  <2>2. ~ (y < x)
    BY <1>1, <2>1 DEF OpToRel
  <2> QED
    BY <2>1, <2>2
<1> QED
  BY <1>2 DEF Min

(* Appending an element adds it to the elements of the sequence.           *)
LEMMA AppendElements ==
  ASSUME NEW S, NEW q \in Seq(S), NEW x \in S
  PROVE  /\ Append(q, x) \in Seq(S)
         /\ ToSet(Append(q, x)) = ToSet(q) \cup {x}
         /\ IsInjective(q) /\ x \notin ToSet(q) => IsInjective(Append(q, x))
<1> DEFINE a == Append(q, x)
<1>1. /\ a \in Seq(S) /\ Len(a) = Len(q) + 1 /\ Len(q) \in Nat
      /\ \A i \in 1..Len(q) : a[i] = q[i]
      /\ a[Len(q) + 1] = x
  BY AppendProperties, LenProperties
<1>2. DOMAIN q = 1..Len(q) /\ DOMAIN a = 1..(Len(q) + 1)
  BY <1>1, LenProperties
<1> HIDE DEF a
<1>3. ToSet(a) = ToSet(q) \cup {x}
  BY <1>1, <1>2 DEF ToSet
<1>4. IsInjective(q) /\ x \notin ToSet(q) => IsInjective(a)
  BY <1>1, <1>2 DEF IsInjective, ToSet
<1> QED
  BY <1>1, <1>3, <1>4 DEF a

(* A non-empty sequence has the elements of its tail and its head, and if  *)
(* its elements are distinct, its head is not in its tail.                 *)
LEMMA TailElements ==
  ASSUME NEW S, NEW q \in Seq(S), q # <<>>
  PROVE  /\ Head(q) \in S /\ Tail(q) \in Seq(S)
         /\ Head(q) \in ToSet(q)
         /\ ToSet(q) = ToSet(Tail(q)) \cup {Head(q)}
         /\ IsInjective(q) => IsInjective(Tail(q)) /\ Head(q) \notin ToSet(Tail(q))
<1> DEFINE h == Head(q)  t == Tail(q)
<1>1. /\ t \in Seq(S) /\ Len(t) = Len(q) - 1 /\ h \in S
      /\ \A i \in 1..Len(t) : t[i] = q[i + 1]
  BY HeadTailProperties
<1>2. /\ DOMAIN q = 1..Len(q) /\ DOMAIN t = 1..Len(t)
      /\ Len(q) \in Nat /\ Len(t) \in Nat
  BY <1>1, LenProperties
<1>3. h = q[1]
  OBVIOUS
<1> HIDE DEF h, t
<1>4. 1 \in DOMAIN q
  BY <1>1, <1>2
<1>5. ToSet(q) = ToSet(t) \cup {h}
  <2>1. ASSUME NEW i \in DOMAIN q PROVE q[i] \in ToSet(t) \cup {h}
    <3>1. CASE i = 1
      BY <1>3, <3>1
    <3>2. CASE i # 1
      <4>1. i - 1 \in DOMAIN t /\ t[i - 1] = q[i]
        BY <1>1, <1>2, <3>2
      <4> QED
        BY <4>1 DEF ToSet
    <3> QED
      BY <3>1, <3>2
  <2>2. ASSUME NEW i \in DOMAIN t PROVE t[i] \in ToSet(q)
    <3>1. i + 1 \in DOMAIN q /\ t[i] = q[i + 1]
      BY <1>1, <1>2
    <3> QED
      BY <3>1 DEF ToSet
  <2> QED
    BY <1>3, <1>4, <2>1, <2>2 DEF ToSet
<1>6. IsInjective(q) => IsInjective(t)
  <2> SUFFICES ASSUME IsInjective(q), NEW i \in DOMAIN t, NEW j \in DOMAIN t,
                      t[i] = t[j]
               PROVE  i = j
    BY DEF IsInjective
  <2> i + 1 \in DOMAIN q /\ j + 1 \in DOMAIN q /\ q[i + 1] = q[j + 1]
    BY <1>1, <1>2
  <2> i + 1 = j + 1
    BY DEF IsInjective
  <2> QED
    BY <1>2
<1>7. IsInjective(q) => h \notin ToSet(t)
  <2> SUFFICES ASSUME IsInjective(q), NEW i \in DOMAIN t, t[i] = h
               PROVE  FALSE
    BY DEF ToSet
  <2> i + 1 \in DOMAIN q /\ q[i + 1] = q[1]
    BY <1>1, <1>2, <1>3
  <2> i + 1 = 1
    BY <1>4 DEF IsInjective
  <2> QED
    BY <1>2
<1> QED
  BY <1>1, <1>3, <1>4, <1>5, <1>6, <1>7 DEF h, t, ToSet

(* A queue of distinct elements of a finite set is no longer than the set  *)
(* is large; it is shorter if an element is not queued.                    *)
LEMMA DistinctQueueFits ==
  ASSUME NEW S, IsFiniteSet(S), NEW q \in Seq(S), IsInjective(q)
  PROVE  /\ Len(q) <= Cardinality(S)
         /\ \A x \in S : x \notin ToSet(q) => Len(q) < Cardinality(S)
<1>1. Len(q) \in Nat /\ DOMAIN q = 1..Len(q) /\ q \in [1..Len(q) -> S]
  BY LenProperties
<1>2. Cardinality(1..Len(q)) = Len(q)
  BY <1>1, FS_Interval
<1>3. Cardinality(S) \in Nat
  BY FS_CardinalityType
<1>4. Len(q) <= Cardinality(S)
  <2>1. q \in Injection(1..Len(q), S)
    BY <1>1 DEF Injection
  <2> QED
    BY <1>2, <2>1, FS_Injection
<1>5. ASSUME NEW x \in S, x \notin ToSet(q) PROVE Len(q) < Cardinality(S)
  <2>1. IsFiniteSet(S \ {x}) /\ Cardinality(S \ {x}) = Cardinality(S) - 1
    BY FS_RemoveElement
  <2>2. q \in Injection(1..Len(q), S \ {x})
    BY <1>1, <1>5 DEF Injection, ToSet
  <2>3. Len(q) <= Cardinality(S \ {x})
    BY <1>2, <2>1, <2>2, FS_Injection
  <2> QED
    BY <1>1, <1>3, <2>1, <2>3
<1> QED
  BY <1>4, <1>5
=============================================================================
