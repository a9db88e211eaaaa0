------------------------------ MODULE I2CProofs ------------------------------
(***************************************************************************)
(* Proofs about the I2C controller and its switch, for any number of tasks *)
(* and channels and any sequences of transfers.                            *)
(***************************************************************************)
EXTENDS Pca9544A, SequenceTheorems, TLAPS

PlainTransfers == TransfersTo({NoChannel})
Jobs == [by : Tasks, transfer : SwitchTransfers]

(***************************************************************************)
(* The types, in parts that the actions change together.                   *)
(***************************************************************************)
CallTyped ==
    /\ lock \in Tasks \cup {NoTask}
    /\ pc \in [Tasks -> Running \cup {"idle", "returned"}]
    /\ todo \in [Tasks -> Seq(SwitchTransfers)]
    /\ \A t \in Tasks : /\ pc[t] # "idle" <=> lock = t
                        /\ pc[t] \in Running <=> todo[t] # <<>>

FlagsTyped ==
    /\ interruptsEnabled \in BOOLEAN /\ canTimeOut \in BOOLEAN
    /\ semaphore \in BOOLEAN /\ irq \in BOOLEAN /\ unmasked \in BOOLEAN
    /\ failed \in BOOLEAN /\ held \in BOOLEAN /\ clean \in BOOLEAN

CountsTyped ==
    /\ result \in {"ok", "error", "timeout"}
    /\ setups \in 0..MaxSetups /\ left \in Nat
    /\ job \in Jobs \cup {NoJob}

SwitchTyped ==
    /\ activeBus \in Channels \cup {NoChannel}
    /\ channel \in Channels \cup {NoChannel}
    /\ selected \in Channels \cup {NoChannel}
    /\ request \in Seq(PlainTransfers)
    /\ phase \in {"select", "transfer"}
    /\ phase = "select" => lock # NoTask /\ channel # NoChannel
    /\ lock = NoTask => channel = NoChannel

(* The interrupt is enabled only with waitFinish() waiting for it.         *)
InterruptWaitedFor == (unmasked => interruptsEnabled) /\ (irq => interruptsEnabled)

Typed ==
    CallTyped /\ FlagsTyped /\ CountsTyped /\ SwitchTyped /\ InterruptWaitedFor

-----------------------------------------------------------------------------
LEMMA TransferTyped ==
    /\ \A receive, start, stop, again \in BOOLEAN :
           Transfer(receive, start, stop, again) \in PlainTransfers
    /\ PlainTransfers \subseteq SwitchTransfers
    /\ Seq(PlainTransfers) \subseteq Seq(SwitchTransfers)
    /\ \A c \in Channels : /\ SelectTransfers(c) \in Seq(SwitchTransfers)
                           /\ SelectTransfers(c) # <<>>
                           /\ Len(SelectTransfers(c)) = 1
                           /\ Head(SelectTransfers(c)).channel = c
                           /\ Head(SelectTransfers(c)).stop
    /\ <<Dummy>> \in Seq(PlainTransfers) /\ <<Dummy>> # <<>> /\ Len(<<Dummy>>) = 1
<1>1. \A receive, start, stop, again \in BOOLEAN :
           Transfer(receive, start, stop, again) \in PlainTransfers
  BY DEF Transfer, PlainTransfers, TransfersTo
<1>2. PlainTransfers \subseteq SwitchTransfers
  BY DEF PlainTransfers, SwitchTransfers, TransfersTo
<1>3. Seq(PlainTransfers) \subseteq Seq(SwitchTransfers)
  BY <1>2
<1>4. ASSUME NEW c \in Channels
      PROVE  /\ SelectTransfers(c) \in Seq(SwitchTransfers)
             /\ SelectTransfers(c) # <<>>
             /\ Len(SelectTransfers(c)) = 1
             /\ Head(SelectTransfers(c)).channel = c
             /\ Head(SelectTransfers(c)).stop
  <2> DEFINE x == Transfer(FALSE, TRUE, TRUE, TRUE)
             y == [x EXCEPT !.channel = c]
  <2>1. x \in PlainTransfers /\ x.stop = TRUE
    BY DEF Transfer, PlainTransfers, TransfersTo
  <2> HIDE DEF x
  <2>2. y \in SwitchTransfers /\ y.channel = c /\ y.stop = TRUE
    BY <2>1 DEF PlainTransfers, SwitchTransfers, TransfersTo
  <2> HIDE DEF y
  <2>3. <<y>> \in Seq(SwitchTransfers) /\ <<y>> # <<>> /\ Len(<<y>>) = 1
        /\ Head(<<y>>) = y
    BY <2>2
  <2> QED
    BY <2>2, <2>3 DEF SelectTransfers, x, y
<1>5. <<Dummy>> \in Seq(PlainTransfers) /\ <<Dummy>> # <<>> /\ Len(<<Dummy>>) = 1
  <2>1. Dummy \in PlainTransfers
    BY <1>1 DEF Dummy
  <2> QED
    BY <2>1
<1> QED
  BY <1>1, <1>2, <1>3, <1>4, <1>5

LEMMA InitTyped == Init => Typed
<1> SUFFICES ASSUME Init PROVE Typed
  OBVIOUS
<1>1. CallTyped
  BY I2CAssumption DEF Init, I2CInit, CallTyped, Running
<1>2. FlagsTyped
  BY Zenon DEF Init, I2CInit, FlagsTyped
<1>3. CountsTyped
  BY I2CAssumption DEF Init, I2CInit, CountsTyped
<1>4. SwitchTyped
  BY DEF Init, I2CInit, SwitchTyped
<1>5. InterruptWaitedFor
  BY DEF Init, I2CInit, InterruptWaitedFor
<1> QED
  BY <1>1, <1>2, <1>3, <1>4, <1>5 DEF Typed

-----------------------------------------------------------------------------
(***************************************************************************)
(* How a call's bookkeeping moves: Start, Finish, Advance, and a step of   *)
(* the program counter only, by the task that holds the lock afterwards.   *)
(***************************************************************************)
LEMMA RestOfCall ==
  ASSUME NEW s \in Seq(SwitchTransfers), s # <<>>
  PROVE  /\ Head(s) \in SwitchTransfers
         /\ Tail(s) \in Seq(SwitchTransfers)
         /\ Len(s) \in Nat /\ Len(s) >= 1
         /\ Len(Tail(s)) = Len(s) - 1
         /\ Len(s) # 1 => /\ Tail(s) # <<>>
                          /\ Tail(s)[Len(Tail(s))] = s[Len(s)]
         /\ Len(s) = 1 => Head(s) = s[Len(s)]
<1>1. /\ Len(Tail(s)) = Len(s) - 1 /\ Tail(s) \in Seq(SwitchTransfers)
      /\ \A i \in 1..Len(Tail(s)) : Tail(s)[i] = s[i + 1]
      /\ Head(s) \in SwitchTransfers
  BY HeadTailProperties
<1>2. Len(s) \in Nat /\ Len(s) >= 1
  BY EmptySeq, LenProperties
<1>3. Len(<<>>) = 0 /\ Head(s) = s[1]
  OBVIOUS
<1>4. ASSUME Len(s) # 1
      PROVE  Tail(s) # <<>> /\ Tail(s)[Len(Tail(s))] = s[Len(s)]
  <2> DEFINE u == Tail(s)
             n == Len(s)
             m == Len(u)
  <2>1. m = n - 1 /\ n \in Nat /\ n >= 1 /\ n # 1 /\ \A i \in 1..m : u[i] = s[i + 1]
    BY <1>1, <1>2, <1>4
  <2> HIDE DEF n, m
  <2>2. m # 0 /\ m \in 1..m /\ m + 1 = n
    BY <2>1
  <2>3. u[m] = s[n]
    BY <2>1, <2>2
  <2>4. u # <<>>
    BY <2>2, <1>3 DEF m
  <2> QED
    BY <2>3, <2>4 DEF n, m
<1> QED
  BY <1>1, <1>2, <1>3, <1>4

LEMMA CallMoves ==
  ASSUME CallTyped, NEW t \in Tasks, lock' = t, lock \in {t, NoTask},
         \/ /\ pc[t] \in Running
            /\ \E p \in Running : pc' = [pc EXCEPT ![t] = p]
            /\ UNCHANGED todo
         \/ \E s \in Seq(SwitchTransfers) \ {<<>>} : Start(t, s)
         \/ /\ pc' = [pc EXCEPT ![t] = "returned"]
            /\ \/ todo' = [todo EXCEPT ![t] = <<>>]
               \/ todo[t] = <<>> /\ UNCHANGED todo
         \/ pc[t] \in Running /\ Advance(t)
  PROVE  CallTyped'
<1>1. CASE /\ pc[t] \in Running
           /\ \E p \in Running : pc' = [pc EXCEPT ![t] = p]
           /\ UNCHANGED todo
  BY <1>1, I2CAssumption DEF CallTyped, Running
<1>2. ASSUME NEW s \in Seq(SwitchTransfers) \ {<<>>}, Start(t, s)
      PROVE  CallTyped'
  BY <1>2, I2CAssumption DEF Start, CallTyped, Running
<1>3. CASE /\ pc' = [pc EXCEPT ![t] = "returned"]
           /\ \/ todo' = [todo EXCEPT ![t] = <<>>]
              \/ todo[t] = <<>> /\ UNCHANGED todo
  <2>1. /\ pc' \in [Tasks -> Running \cup {"idle", "returned"}]
        /\ pc'[t] = "returned" /\ \A u \in Tasks \ {t} : pc'[u] = pc[u]
    BY <1>3 DEF CallTyped
  <2>2. /\ todo' \in [Tasks -> Seq(SwitchTransfers)]
        /\ todo'[t] = <<>> /\ \A u \in Tasks \ {t} : todo'[u] = todo[u]
    <3>1. CASE todo' = [todo EXCEPT ![t] = <<>>]
      BY <3>1, EmptySeq DEF CallTyped
    <3>2. CASE todo[t] = <<>> /\ UNCHANGED todo
      BY <3>2 DEF CallTyped
    <3> QED
      BY <1>3, <3>1, <3>2
  <2> QED
    BY <2>1, <2>2, I2CAssumption DEF CallTyped, Running
<1>4. CASE pc[t] \in Running /\ Advance(t)
  <2>1. todo[t] \in Seq(SwitchTransfers) /\ todo[t] # <<>>
    BY <1>4 DEF CallTyped
  <2>2. CASE Len(todo[t]) = 1
    BY <1>3, <1>4, <2>2 DEF Advance, Finish
  <2>3. CASE Len(todo[t]) # 1
    <3>1. Tail(todo[t]) \in Seq(SwitchTransfers) /\ Tail(todo[t]) # <<>>
      BY <2>1, <2>3, RestOfCall
    <3>2. /\ pc' = [pc EXCEPT ![t] = "control"]
          /\ todo' = [todo EXCEPT ![t] = Tail(todo[t])]
      BY <1>4, <2>3 DEF Advance
    <3> QED
      BY <3>1, <3>2, I2CAssumption DEF CallTyped, Running
  <2> QED
    BY <2>2, <2>3
<1> QED
  BY <1>1, <1>2, <1>3, <1>4

(* The task that takes a step of a call holds the lock.                    *)
LEMMA StepsWithLock ==
  ASSUME CallTyped, NEW t \in Tasks, pc[t] # "idle"
  PROVE  lock = t
BY DEF CallTyped

LEMMA TransferStepTyped ==
  ASSUME Typed, NEW t \in Tasks, TransferStep(t), UNCHANGED <<switchVars, selected>>
  PROVE  Typed'
<1>1. lock = t /\ lock' = t /\ pc[t] \in Running
  BY StepsWithLock DEF Typed, TransferStep, Control, Check, TakeSemaphore,
     SeeNotBusy, TimeOut, ReadErr, ReadErrAgain, Running
<1>2. CallTyped'
  <2>1. ASSUME NEW p \in Running, pc' = [pc EXCEPT ![t] = p], UNCHANGED todo
        PROVE  CallTyped'
    BY <1>1, <2>1, CallMoves DEF Typed
  <2>2. ASSUME NEW r, Finish(t, r) PROVE CallTyped'
    BY <1>1, <2>2, CallMoves DEF Typed, Finish
  <2>3. CASE Advance(t)
    BY <1>1, <2>3, CallMoves DEF Typed
  <2> QED
    BY <2>1, <2>2, <2>3 DEF TransferStep, Control, Check, TakeSemaphore,
       SeeNotBusy, TimeOut, ReadErr, ReadErrAgain, Running
<1>3. UNCHANGED <<configVars, irq, failed, held>>
  BY DEF TransferStep, Control, Check, TakeSemaphore, SeeNotBusy, TimeOut,
     ReadErr, ReadErrAgain, busVars
<1>4. FlagsTyped'
  <2>1. semaphore' \in BOOLEAN
    BY Zenon DEF Typed, FlagsTyped, TransferStep, Control, Check, TakeSemaphore,
       SeeNotBusy, TimeOut, ReadErr, ReadErrAgain
  <2>2. clean' \in BOOLEAN
    BY Zenon DEF Typed, FlagsTyped, TransferStep, Control, Check, TakeSemaphore,
       SeeNotBusy, TimeOut, ReadErr, ReadErrAgain, Finish, Advance
  <2> QED
    BY <1>3, <2>1, <2>2 DEF Typed, FlagsTyped, configVars
<1>5. CountsTyped'
  <2>1. job' \in Jobs \cup {NoJob}
    <3>1. CASE Control(t)
      <4>1. Head(todo[t]) \in SwitchTransfers
        BY <1>1 DEF Typed, CallTyped
      <4> QED
        BY <3>1, <4>1 DEF Control, Typed, CountsTyped, Jobs
    <3>2. CASE ~Control(t)
      BY <3>2 DEF TransferStep, Check, TakeSemaphore, SeeNotBusy, TimeOut,
         ReadErr, ReadErrAgain, busVars, Typed, CountsTyped
    <3> QED
      BY <3>1, <3>2
  <2>2. result' \in {"ok", "error", "timeout"} /\ left' \in Nat
    BY DEF Typed, CountsTyped, TransferStep, Control, Check, TakeSemaphore,
       SeeNotBusy, TimeOut, ReadErr, ReadErrAgain, Finish, Advance
  <2> QED
    BY <1>3, <2>1, <2>2 DEF Typed, CountsTyped, configVars
<1>6. SwitchTyped'
  BY <1>1 DEF Typed, SwitchTyped, switchVars
<1>7. InterruptWaitedFor'
  BY <1>3 DEF Typed, InterruptWaitedFor, configVars
<1> QED
  BY <1>2, <1>4, <1>5, <1>6, <1>7 DEF Typed

(* Taking the lock, and leaving it.                                        *)
LEMMA LockedByNobody ==
  ASSUME CallTyped, NEW t \in Tasks, Lock(t)
  PROVE  lock = NoTask /\ lock' = t /\ pc[t] = "idle" /\ todo[t] = <<>>
BY DEF Lock, CallTyped, Running

LEMMA CallsPlain ==
  Calls \subseteq Seq(PlainTransfers) \ {<<>>}
BY I2CAssumption DEF PlainTransfers

LEMMA CallStepTyped ==
  ASSUME Typed, NEW t \in Tasks, NEW s \in Calls, Call(t, s),
         UNCHANGED <<switchVars, selected>>
  PROVE  Typed'
<1>1. s \in Seq(SwitchTransfers) \ {<<>>} /\ s \in Seq(PlainTransfers)
  BY CallsPlain, TransferTyped
<1>2. lock = NoTask /\ lock' = t
  BY LockedByNobody DEF Typed, Call
<1>3. CallTyped'
  BY <1>1, <1>2, CallMoves DEF Call, Typed
<1>4. FlagsTyped' /\ InterruptWaitedFor'
  BY Zenon DEF Typed, Call, FlagsTyped, InterruptWaitedFor, configVars, busVars
<1>5. CountsTyped'
  <2>1. left' \in Nat
    BY <1>1 DEF Call, Start
  <2> QED
    BY <2>1 DEF Call, Typed, CountsTyped, configVars, busVars
<1>6. SwitchTyped'
  BY <1>2, I2CAssumption DEF Typed, SwitchTyped, switchVars
<1> QED
  BY <1>3, <1>4, <1>5, <1>6 DEF Typed

LEMMA SetupTyped ==
  ASSUME Typed, NEW t \in Tasks, NEW d \in BOOLEAN, NEW f \in BOOLEAN, Setup(t, d, f),
         UNCHANGED <<switchVars, selected>>
  PROVE  Typed'
<1>1. lock = NoTask /\ lock' = t /\ pc[t] = "idle"
  BY LockedByNobody DEF Typed, Setup
<1>2. Dummy \in SwitchTransfers /\ <<Dummy>> \in Seq(SwitchTransfers) /\ <<Dummy>> # <<>>
  BY TransferTyped DEF Dummy
<1>3. CallTyped'
  <2>1. pc' = [pc EXCEPT ![t] = "wait"] /\ todo' = [todo EXCEPT ![t] = <<Dummy>>]
    BY DEF Setup
  <2> QED
    BY <1>1, <1>2, <2>1, I2CAssumption DEF Typed, CallTyped, Running
<1>4. FlagsTyped'
  BY Zenon DEF Typed, Setup, FlagsTyped
<1>5. InterruptWaitedFor'
  BY DEF Typed, Setup, InterruptWaitedFor
<1>6. CountsTyped'
  BY <1>2, I2CAssumption DEF Setup, Typed, CountsTyped, Jobs
<1>7. SwitchTyped'
  BY <1>1, I2CAssumption DEF Typed, SwitchTyped, switchVars
<1> QED
  BY <1>3, <1>4, <1>5, <1>6, <1>7 DEF Typed

LEMMA ChannelCallTyped ==
  ASSUME Typed, NEW t \in Tasks, NEW c \in Channels, NEW s \in Calls \cup {<<>>},
         ChannelCall(t, c, s)
  PROVE  Typed'
<1>1. lock = NoTask /\ lock' = t /\ pc[t] = "idle" /\ t # NoTask /\ c # NoChannel
  BY LockedByNobody, I2CAssumption, ChannelsAssumption DEF Typed, ChannelCall
<1>2. s \in Seq(PlainTransfers) /\ s \in Seq(SwitchTransfers)
  BY CallsPlain, TransferTyped, EmptySeq
<1>3. PICK r \in Seq(SwitchTransfers) \ {<<>>} :
          /\ Start(t, r)
          /\ request' \in Seq(PlainTransfers)
          /\ phase' \in {"select", "transfer"}
  BY <1>2, TransferTyped, EmptySeq DEF ChannelCall
<1>4. CallTyped'
  BY <1>1, <1>3, CallMoves DEF Typed
<1>5. FlagsTyped' /\ InterruptWaitedFor'
  BY Zenon DEF Typed, ChannelCall, FlagsTyped, InterruptWaitedFor, configVars, busVars
<1>6. CountsTyped'
  <2>1. left' \in Nat
    BY <1>3 DEF Start
  <2> QED
    BY <2>1 DEF ChannelCall, Typed, CountsTyped, configVars, busVars
<1>7. SwitchTyped'
  BY <1>1, <1>3 DEF ChannelCall, Typed, SwitchTyped
<1> QED
  BY <1>4, <1>5, <1>6, <1>7 DEF Typed

LEMMA ForwardTyped ==
  ASSUME Typed, NEW t \in Tasks, Forward(t)
  PROVE  Typed'
<1>1. lock = t /\ lock' = t /\ pc[t] = "returned"
  BY StepsWithLock DEF Typed, Forward, taskVars
<1>2. CASE request # <<>> /\ Start(t, request) /\ UNCHANGED <<lock, result, clean>>
  <2>1. request \in Seq(SwitchTransfers) \ {<<>>}
    BY <1>2, TransferTyped DEF Typed, SwitchTyped
  <2>2. CallTyped'
    BY <1>1, <1>2, <2>1, CallMoves DEF Typed
  <2>3. left' \in Nat
    BY <1>2, <2>1 DEF Start
  <2>4. FlagsTyped' /\ InterruptWaitedFor'
    BY <1>2, Zenon DEF Typed, Forward, FlagsTyped, InterruptWaitedFor, configVars, busVars
  <2>5. CountsTyped'
    BY <1>2, <2>3 DEF Forward, Typed, CountsTyped, configVars, busVars
  <2> QED
    BY <1>1, <2>2, <2>4, <2>5, EmptySeq, I2CAssumption DEF Forward, Typed, SwitchTyped
<1>3. CASE UNCHANGED <<taskVars, left, clean>>
  <2>1. CallTyped'
    BY <1>3 DEF Typed, CallTyped, taskVars
  <2>2. FlagsTyped' /\ InterruptWaitedFor'
    BY <1>3, Zenon DEF Typed, Forward, FlagsTyped, InterruptWaitedFor, configVars, busVars
  <2>3. CountsTyped'
    BY <1>3 DEF Forward, Typed, CountsTyped, configVars, busVars, taskVars
  <2> QED
    BY <1>1, <2>1, <2>2, <2>3, EmptySeq, I2CAssumption DEF Forward, Typed, SwitchTyped
<1> QED
  BY <1>2, <1>3 DEF Forward

LEMMA LeaveTyped ==
  ASSUME Typed, NEW t \in Tasks, LeaveCall(t) \/ SwitchSetup(t)
  PROVE  Typed'
<1>1. CASE LeaveCall(t)
  <2>1. lock = t /\ lock' = NoTask /\ pc' = [pc EXCEPT ![t] = "idle"] /\ UNCHANGED todo
        /\ pc[t] = "returned"
    BY <1>1, StepsWithLock DEF Typed, LeaveCall, Leave
  <2>2. CallTyped'
    BY <2>1, I2CAssumption DEF Typed, CallTyped, Running
  <2>3. FlagsTyped' /\ InterruptWaitedFor'
    BY <1>1, Zenon DEF Typed, LeaveCall, Leave, FlagsTyped, InterruptWaitedFor, configVars,
       busVars
  <2>4. CountsTyped' /\ SwitchTyped'
    BY <1>1 DEF LeaveCall, Leave, Typed, CountsTyped, SwitchTyped, configVars, busVars
  <2> QED
    BY <2>2, <2>3, <2>4 DEF Typed
<1>2. CASE SwitchSetup(t)
  <2>1. lock = NoTask /\ lock' = t /\ pc[t] = "idle" /\ todo[t] = <<>>
    BY <1>2, LockedByNobody DEF Typed, SwitchSetup
  <2>2. CallTyped'
    BY <1>2, <2>1, CallMoves DEF SwitchSetup, Typed
  <2>3. FlagsTyped' /\ InterruptWaitedFor'
    BY <1>2, Zenon DEF Typed, SwitchSetup, FlagsTyped, InterruptWaitedFor, configVars,
       busVars
  <2>4. CountsTyped' /\ SwitchTyped'
    BY <1>2, <2>1, I2CAssumption
    DEF SwitchSetup, Typed, CountsTyped, SwitchTyped, configVars, busVars
  <2> QED
    BY <2>2, <2>3, <2>4 DEF Typed
<1> QED
  BY <1>1, <1>2

LEMMA BusStepTyped ==
  ASSUME Typed, InterruptStep \/ CompleteTransfer \/ SwitchReset \/ UNCHANGED vars
  PROVE  Typed'
<1>1. UNCHANGED <<taskVars, configVars, switchVars, clean>>
  BY DEF InterruptStep, HandleInterrupt, CompleteTransfer, CompletesWith, SwitchReset,
     vars, i2cVars
<1>2. CallTyped'
  BY <1>1 DEF Typed, CallTyped, taskVars
<1>3. CASE InterruptStep
  <2>1. FlagsTyped' /\ InterruptWaitedFor'
    <3>1. irq' = FALSE /\ semaphore' = TRUE /\ UNCHANGED <<job, failed, held, left>>
      BY <1>3 DEF InterruptStep, HandleInterrupt, busVars
    <3> QED
      BY <1>1, <3>1, Zenon DEF Typed, FlagsTyped, InterruptWaitedFor, configVars
  <2>2. CountsTyped' /\ SwitchTyped'
    BY <1>1, <1>3 DEF Typed, InterruptStep, HandleInterrupt, CountsTyped, SwitchTyped,
       configVars, taskVars, switchVars, busVars
  <2> QED
    BY <1>2, <2>1, <2>2 DEF Typed
<1>4. CASE CompleteTransfer
  <2>1. PICK ok \in BOOLEAN :
          /\ CompletesWith(ok)
          /\ selected' = IF ok /\ job.transfer.channel # NoChannel
                         THEN job.transfer.channel ELSE selected
    BY <1>4 DEF CompleteTransfer
  <2>2. job.transfer \in SwitchTransfers
    BY <2>1 DEF CompletesWith, Typed, CountsTyped, Jobs
  <2>3. job.transfer.channel \in Channels \cup {NoChannel} /\ job.transfer.stop \in BOOLEAN
    BY <2>2 DEF SwitchTransfers, TransfersTo
  <2>4. FlagsTyped'
    <3>1. failed' \in BOOLEAN /\ held' \in BOOLEAN /\ irq' = unmasked /\ UNCHANGED semaphore
      BY <2>1, <2>3, Zenon DEF CompletesWith
    <3> QED
      BY <1>1, <3>1, Zenon DEF Typed, FlagsTyped, configVars
  <2>5. InterruptWaitedFor'
    BY <1>1, <2>1 DEF Typed, InterruptWaitedFor, CompletesWith, configVars
  <2>6. CountsTyped'
    BY <1>1, <2>1 DEF Typed, CountsTyped, CompletesWith, configVars, taskVars
  <2>7. SwitchTyped'
    BY <1>1, <2>1, <2>3 DEF Typed, SwitchTyped, switchVars, taskVars
  <2> QED
    BY <1>2, <2>4, <2>5, <2>6, <2>7 DEF Typed
<1>5. CASE SwitchReset \/ UNCHANGED vars
  <2>1. UNCHANGED <<semaphore, irq, job, failed, held, left>> /\ selected' \in {selected, NoChannel}
    BY <1>5 DEF SwitchReset, vars, i2cVars, busVars
  <2>2. FlagsTyped' /\ InterruptWaitedFor'
    BY <1>1, <2>1, Zenon DEF Typed, FlagsTyped, InterruptWaitedFor, configVars
  <2>3. CountsTyped' /\ SwitchTyped'
    BY <1>1, <2>1 DEF Typed, CountsTyped, SwitchTyped, configVars, taskVars, switchVars
  <2> QED
    BY <1>2, <2>2, <2>3 DEF Typed
<1> QED
  BY <1>3, <1>4, <1>5

LEMMA NextTyped == Typed /\ [Next]_vars => Typed'
<1> SUFFICES ASSUME Typed, [Next]_vars PROVE Typed'
  OBVIOUS
<1>1. ASSUME NEW t \in Tasks, TaskStep(t) PROVE Typed'
  BY <1>1, TransferStepTyped, ForwardTyped, LeaveTyped DEF TaskStep
<1>2. ASSUME NEW t \in Tasks, Application(t) PROVE Typed'
  BY <1>2, CallStepTyped, SetupTyped, ChannelCallTyped, LeaveTyped DEF Application
<1> QED
  BY <1>1, <1>2, BusStepTyped DEF Next

LEMMA AlwaysTyped == Spec => []Typed
BY InitTyped, NextTyped, PTL DEF Spec

(***************************************************************************)
(* The lock, the program counters and the calls' transfers agree, and      *)
(* everything else is of its type, whatever the tasks and the bus do.      *)
(***************************************************************************)
THEOREM SwitchTypeCorrect == Spec => []TypeOK
<1>1. Typed => TypeOK
  <2> SUFFICES ASSUME Typed PROVE TypeOK
    OBVIOUS
  <2>1. {interruptsEnabled, canTimeOut, semaphore, irq, unmasked, failed, held, clean}
           \subseteq BOOLEAN
    BY Zenon DEF Typed, FlagsTyped
  <2>2. job = NoJob \/ job.by \in Tasks
    BY DEF Typed, CountsTyped, Jobs
  <2>3. I2CTypeOK
    BY <2>1, <2>2 DEF I2CTypeOK, Typed, CallTyped, CountsTyped
  <2> QED
    BY <2>3 DEF TypeOK, Typed, SwitchTyped
<1> QED
  BY <1>1, AlwaysTyped, PTL

-----------------------------------------------------------------------------
(***************************************************************************)
(* Only the task with the lock is in a call, so a step can be described by *)
(* the point this call is at and what it has yet to do, and not by         *)
(* functions of the tasks.                                                 *)
(***************************************************************************)
Point == IF lock = NoTask THEN "idle" ELSE pc[lock]
Doing == IF lock = NoTask THEN <<>> ELSE todo[lock]

Given == interruptsEnabled /\ semaphore
Quiet == job = NoJob /\ ~irq /\ ~Given

MovesTo(p) == Point' = p /\ Doing' = Doing /\ UNCHANGED <<result, left, clean>>
Finishes(r) ==
    /\ Point' = "returned" /\ Doing' = <<>> /\ result' = r /\ left' = 0
    /\ clean' => clean /\ Quiet
    /\ clean /\ Quiet => clean'
GoesOn ==
    \/ Len(Doing) = 1 /\ Finishes("ok")
    \/ /\ Len(Doing) # 1
       /\ Point' = "control" /\ Doing' = Tail(Doing) /\ UNCHANGED <<result, left, clean>>

LEMMA PointTyped ==
  ASSUME Typed
  PROVE  /\ Point \in Running \cup {"idle", "returned"}
         /\ Doing \in Seq(SwitchTransfers)
         /\ Point \in Running <=> Doing # <<>>
         /\ Point = "idle" <=> lock = NoTask
BY EmptySeq DEF Typed, CallTyped, Point, Doing, Running

(* Where the task with the lock is, before and after a step.               *)
LEMMA PointOf ==
  ASSUME Typed, NEW t \in Tasks
  PROVE  /\ lock = t => Point = pc[t] /\ Doing = todo[t]
         /\ lock = NoTask => Point = "idle" /\ Doing = <<>>
         /\ lock' = t => Point' = pc'[t] /\ Doing' = todo'[t]
         /\ lock' = NoTask => Point' = "idle" /\ Doing' = <<>>
         /\ \A p : pc' = [pc EXCEPT ![t] = p] => pc'[t] = p
         /\ \A s : todo' = [todo EXCEPT ![t] = s] => todo'[t] = s
BY I2CAssumption DEF Typed, CallTyped, Point, Doing

LEMMA FinishSeen ==
  ASSUME Typed, NEW t \in Tasks, lock = t, lock' = t, NEW r, Finish(t, r)
  PROVE  Finishes(r)
<1>1. Point' = "returned" /\ Doing' = <<>> /\ result' = r /\ left' = 0
  BY PointOf DEF Finish
<1>2. clean' = (clean /\ ~LeftBehind)
  BY DEF Finish
<1>3. (clean' => clean /\ Quiet) /\ (clean /\ Quiet => clean')
  BY <1>2, Zenon DEF LeftBehind, Quiet, Given
<1> QED
  BY <1>1, <1>3 DEF Finishes

LEMMA AdvanceSeen ==
  ASSUME Typed, NEW t \in Tasks, lock = t, lock' = t, Advance(t)
  PROVE  GoesOn
<1>1. Doing = todo[t]
  BY PointOf
<1>2. CASE Len(todo[t]) = 1
  BY <1>1, <1>2, FinishSeen DEF Advance, GoesOn
<1>3. CASE Len(todo[t]) # 1
  BY <1>1, <1>3, PointOf DEF Advance, GoesOn
<1> QED
  BY <1>2, <1>3

LEMMA MoveSeen ==
  ASSUME Typed, NEW t \in Tasks, lock = t, lock' = t, NEW p,
         pc' = [pc EXCEPT ![t] = p], UNCHANGED <<todo, result, left, clean>>
  PROVE  MovesTo(p)
BY PointOf DEF MovesTo

(* The steps of a transfer.                                                *)
Commanded(t) ==
    /\ Point = "control" /\ MovesTo("check")
    /\ job' = IF job = NoJob THEN [by |-> t, transfer |-> Head(Doing)] ELSE job
    /\ UNCHANGED semaphore
Checked ==
    /\ Point = "check"
    /\ \/ MasterErr /\ Finishes("error")
       \/ ~MasterErr /\ MovesTo("wait")
    /\ UNCHANGED <<job, semaphore>>
Waited ==
    /\ Point = "wait" /\ UNCHANGED job
    /\ \/ Given /\ semaphore' = FALSE /\ MovesTo("error")
       \/ ~interruptsEnabled /\ job = NoJob /\ MovesTo("error") /\ UNCHANGED semaphore
       \/ Finishes("timeout") /\ UNCHANGED semaphore
StatusRead ==
    /\ Point \in {"error", "data"} /\ UNCHANGED <<job, semaphore>>
    /\ \/ MasterErr /\ Finishes("error")
       \/ ~MasterErr /\ MovesTo("data")
       \/ ~MasterErr /\ GoesOn

LEMMA TransferSeen ==
  ASSUME Typed, NEW t \in Tasks, TransferStep(t)
  PROVE  /\ Commanded(t) \/ Checked \/ Waited \/ StatusRead
         /\ UNCHANGED <<lock, interruptsEnabled, unmasked, irq, failed, held>>
         /\ lock = t /\ Doing # <<>>
<1>1. lock = t /\ lock' = t /\ pc[t] \in Running
  BY StepsWithLock DEF Typed, TransferStep, Control, Check, TakeSemaphore,
     SeeNotBusy, TimeOut, ReadErr, ReadErrAgain, Running
<1>2. UNCHANGED <<lock, interruptsEnabled, unmasked, irq, failed, held>>
  BY DEF TransferStep, Control, Check, TakeSemaphore, SeeNotBusy, TimeOut,
     ReadErr, ReadErrAgain, busVars, configVars
<1>3. Point = pc[t] /\ Doing = todo[t] /\ Doing # <<>>
  BY <1>1, PointOf DEF Typed, CallTyped
<1> SUFFICES Commanded(t) \/ Checked \/ Waited \/ StatusRead
  BY <1>1, <1>2, <1>3
<1>4. ASSUME NEW p, pc' = [pc EXCEPT ![t] = p], UNCHANGED <<todo, result, left, clean>>
      PROVE  MovesTo(p)
  BY <1>1, <1>4, MoveSeen
<1>5. ASSUME NEW r, Finish(t, r) PROVE Finishes(r)
  BY <1>1, <1>5, FinishSeen
<1>6. Advance(t) => GoesOn
  BY <1>1, AdvanceSeen
<1>7. CASE Control(t)
  <2>1. MovesTo("check")
    BY <1>4, <1>7, Zenon DEF Control
  <2> QED
    BY <1>3, <1>7, <2>1 DEF Control, Commanded
<1>8. CASE Check(t)
  <2>1. \/ MasterErr /\ Finishes("error")
        \/ ~MasterErr /\ MovesTo("wait")
    BY <1>4, <1>5, <1>8, Zenon DEF Check
  <2> QED
    BY <1>3, <1>8, <2>1 DEF Check, Checked, busVars
<1>9. CASE TakeSemaphore(t) \/ SeeNotBusy(t) \/ TimeOut(t)
  <2>1. CASE TakeSemaphore(t)
    <3>1. MovesTo("error")
      BY <1>4, <2>1, Zenon DEF TakeSemaphore
    <3> QED
      BY <1>3, <2>1, <3>1 DEF TakeSemaphore, Waited, Given, busVars
  <2>2. CASE SeeNotBusy(t)
    <3>1. MovesTo("error")
      BY <1>4, <2>2, Zenon DEF SeeNotBusy
    <3> QED
      BY <1>3, <2>2, <3>1 DEF SeeNotBusy, Waited, busVars
  <2>3. CASE TimeOut(t)
    <3>1. Finishes("timeout")
      BY <1>5, <2>3, Zenon DEF TimeOut
    <3> QED
      BY <1>3, <2>3, <3>1 DEF TimeOut, Waited, busVars
  <2> QED
    BY <1>9, <2>1, <2>2, <2>3
<1>10. CASE ReadErr(t) \/ ReadErrAgain(t)
  <2>1. \/ MasterErr /\ Finishes("error")
        \/ ~MasterErr /\ MovesTo("data")
        \/ ~MasterErr /\ GoesOn
    <3>1. CASE ReadErr(t)
      BY <1>4, <1>5, <1>6, <3>1, Zenon DEF ReadErr
    <3>2. CASE ReadErrAgain(t)
      BY <1>5, <1>6, <3>2 DEF ReadErrAgain
    <3> QED
      BY <1>10, <3>1, <3>2
  <2> QED
    BY <1>3, <1>10, <2>1 DEF ReadErr, ReadErrAgain, StatusRead, busVars
<1> QED
  BY <1>7, <1>8, <1>9, <1>10 DEF TransferStep

(* The steps that begin and end calls, and those of the bus.               *)
Begins(s) ==
    /\ Point' = "control" /\ Doing' = s /\ left' = Len(s)
    /\ UNCHANGED <<result, clean>>
BusLeftAlone == UNCHANGED <<interruptsEnabled, semaphore, irq, job, failed, held>>

LEMMA StartSeen ==
  ASSUME Typed, NEW t \in Tasks, lock' = t, NEW s, Start(t, s), UNCHANGED <<result, clean>>
  PROVE  Begins(s)
BY PointOf DEF Start, Begins

LEMMA CallSeen ==
  ASSUME Typed, NEW t \in Tasks, NEW s \in Calls, Call(t, s)
  PROVE  Point = "idle" /\ Begins(s) /\ BusLeftAlone
<1>1. lock = NoTask /\ lock' = t
  BY LockedByNobody DEF Typed, Call
<1>2. Begins(s)
  BY <1>1, StartSeen DEF Call
<1>3. BusLeftAlone
  BY DEF Call, BusLeftAlone, configVars, busVars
<1> QED
  BY <1>1, <1>2, <1>3, PointOf

LEMMA SetupSeen ==
  ASSUME Typed, NEW t \in Tasks, NEW d \in BOOLEAN, NEW f \in BOOLEAN, Setup(t, d, f)
  PROVE  /\ Point = "idle" /\ Point' = "wait" /\ Doing' = <<Dummy>> /\ left' = 1
         /\ job' # NoJob /\ job'.transfer = Head(Doing') /\ irq' = FALSE
         /\ Given' => Given
         /\ UNCHANGED <<result, clean>>
<1>1. lock = NoTask /\ lock' = t
  BY LockedByNobody DEF Typed, Setup
<1>2. Point' = "wait" /\ Doing' = <<Dummy>>
  BY <1>1, PointOf DEF Setup
<1>3. Given' => Given
  BY Zenon DEF Setup, Given
<1>4. job' # NoJob /\ job'.transfer = Head(Doing')
  <2>1. job' = [by |-> t, transfer |-> Dummy]
    BY DEF Setup
  <2>2. Dummy \in SwitchTransfers
    BY TransferTyped DEF Dummy
  <2>3. job' # NoJob
    BY <2>1, <2>2, ChannelsAssumption
  <2> HIDE DEF Dummy
  <2>4. job'.transfer = Dummy /\ Head(<<Dummy>>) = Dummy
    BY <2>1
  <2> QED
    BY <1>2, <2>3, <2>4
<1> QED
  BY <1>1, <1>2, <1>3, <1>4, PointOf DEF Setup

LEMMA ChannelCallSeen ==
  ASSUME Typed, NEW t \in Tasks, NEW c \in Channels, NEW s \in Calls \cup {<<>>},
         ChannelCall(t, c, s)
  PROVE  /\ Point = "idle" /\ BusLeftAlone /\ channel' = c
         /\ UNCHANGED <<activeBus, selected>>
         /\ \/ /\ activeBus = c /\ s \in Calls /\ Begins(s)
               /\ phase' = "transfer" /\ request' = <<>>
            \/ /\ Begins(SelectTransfers(c))
               /\ phase' = "select" /\ request' = s
<1>1. lock = NoTask /\ lock' = t
  BY LockedByNobody DEF Typed, ChannelCall
<1>2. \/ /\ activeBus = c /\ s \in Calls /\ Begins(s)
         /\ phase' = "transfer" /\ request' = <<>>
      \/ /\ Begins(SelectTransfers(c))
         /\ phase' = "select" /\ request' = s
  BY <1>1, StartSeen DEF ChannelCall
<1>3. BusLeftAlone
  BY DEF ChannelCall, BusLeftAlone, configVars, busVars
<1> QED
  BY <1>1, <1>2, <1>3, PointOf DEF ChannelCall

LEMMA ForwardSeen ==
  ASSUME Typed, NEW t \in Tasks, Forward(t)
  PROVE  /\ Point = "returned" /\ phase = "select" /\ BusLeftAlone
         /\ activeBus' = IF result = "ok" THEN channel ELSE NoChannel
         /\ phase' = "transfer" /\ request' = <<>> /\ UNCHANGED <<channel, selected>>
         /\ \/ activeBus' # NoChannel /\ request # <<>> /\ Begins(request)
            \/ Point' = "returned" /\ Doing' = <<>> /\ UNCHANGED <<result, left, clean>>
<1>1. lock = t /\ lock' = t /\ pc[t] = "returned"
  BY StepsWithLock DEF Typed, Forward, taskVars
<1>2. \/ activeBus' # NoChannel /\ request # <<>> /\ Begins(request)
      \/ Point' = "returned" /\ Doing' = <<>> /\ UNCHANGED <<result, left, clean>>
  <2>1. CASE activeBus' # NoChannel /\ request # <<>>
    BY <1>1, <2>1, StartSeen DEF Forward
  <2>2. CASE ~(activeBus' # NoChannel /\ request # <<>>)
    <3>1. UNCHANGED <<taskVars, left, clean>>
      BY <2>2 DEF Forward
    <3>2. todo[t] = <<>>
      BY <1>1 DEF Typed, CallTyped, Running
    <3> QED
      BY <1>1, <3>1, <3>2, PointOf DEF taskVars
  <2> QED
    BY <2>1, <2>2
<1>3. BusLeftAlone
  BY DEF Forward, BusLeftAlone, configVars, busVars
<1> QED
  BY <1>1, <1>2, <1>3, PointOf DEF Forward

LEMMA LeaveSeen ==
  ASSUME Typed, NEW t \in Tasks, LeaveCall(t) \/ SwitchSetup(t)
  PROVE  /\ BusLeftAlone /\ Doing' = <<>> /\ UNCHANGED <<result, left, clean>>
         /\ UNCHANGED <<phase, request, selected>>
         /\ \/ /\ Point = "returned" /\ Point' = "idle" /\ phase = "transfer"
               /\ channel' = NoChannel /\ UNCHANGED activeBus
            \/ /\ Point = "idle" /\ Point' = "returned"
               /\ activeBus' = NoChannel /\ UNCHANGED channel
<1>1. CASE LeaveCall(t)
  <2>1. lock = t /\ lock' = NoTask /\ pc[t] = "returned"
    BY <1>1, StepsWithLock DEF Typed, LeaveCall, Leave
  <2> QED
    BY <1>1, <2>1, PointOf DEF LeaveCall, Leave, BusLeftAlone, configVars, busVars
<1>2. CASE SwitchSetup(t)
  <2>1. lock = NoTask /\ lock' = t /\ todo[t] = <<>>
    BY <1>2, LockedByNobody DEF Typed, SwitchSetup
  <2> QED
    BY <1>2, <2>1, PointOf DEF SwitchSetup, BusLeftAlone, configVars, busVars
<1> QED
  BY <1>1, <1>2

LEMMA BusStepSeen ==
  ASSUME Typed, InterruptStep \/ CompleteTransfer \/ SwitchReset \/ UNCHANGED vars
  PROVE  /\ UNCHANGED <<Point, Doing, lock, result, clean, interruptsEnabled, unmasked>>
         /\ UNCHANGED switchVars
         /\ \/ /\ irq /\ irq' = FALSE /\ semaphore' = TRUE
               /\ UNCHANGED <<job, failed, held, left, selected>>
            \/ \E ok \in BOOLEAN :
                  /\ CompletesWith(ok)
                  /\ selected' = IF ok /\ job.transfer.channel # NoChannel
                                 THEN job.transfer.channel ELSE selected
            \/ BusLeftAlone /\ UNCHANGED left /\ selected' \in {NoChannel, selected}
<1>1. UNCHANGED <<pc, todo, lock, result, clean, interruptsEnabled, unmasked, switchVars>>
  BY DEF InterruptStep, HandleInterrupt, CompleteTransfer, CompletesWith, SwitchReset,
     vars, i2cVars, taskVars, configVars
<1>2. UNCHANGED <<Point, Doing>>
  BY <1>1 DEF Point, Doing
<1> QED
  BY <1>1, <1>2 DEF InterruptStep, HandleInterrupt, CompleteTransfer, SwitchReset,
     vars, i2cVars, busVars, configVars, BusLeftAlone

LEMMA EndSeen ==
  ASSUME NEW ok \in BOOLEAN, CompletesWith(ok)
  PROVE  /\ job # NoJob /\ job' = NoJob /\ irq' = unmasked
         /\ (failed' => ~ok) /\ (~ok => failed')
         /\ (held' => ~job.transfer.stop) /\ (~job.transfer.stop => held')
         /\ left' = IF ok /\ left > 0 THEN left - 1 ELSE left
         /\ UNCHANGED <<interruptsEnabled, semaphore>>
<1>1. failed' = ~ok /\ held' = ~job.transfer.stop
  BY DEF CompletesWith
<1>2. /\ (failed' => ~ok) /\ (~ok => failed')
      /\ (held' => ~job.transfer.stop) /\ (~job.transfer.stop => held')
  BY <1>1, Zenon
<1> QED
  BY <1>2 DEF CompletesWith, configVars

-----------------------------------------------------------------------------
(***************************************************************************)
(* While nothing has been left behind there is at most one sign of the end *)
(* of a transfer, the interrupt, the semaphore or the idle peripheral, and *)
(* it is that of the transfer waited for.                                  *)
(***************************************************************************)
OneSign ==
    clean => /\ Point \notin {"check", "wait"} => Quiet
             /\ Point \in {"check", "wait"} /\ job # NoJob =>
                    ~irq /\ ~Given /\ job.transfer = Head(Doing)
             /\ irq => ~Given

LEMMA OneSignKept ==
  ASSUME Typed, OneSign, [Next]_vars
  PROVE  OneSign'
<1>1. ASSUME NEW t \in Tasks, TransferStep(t) PROVE OneSign'
  <2>1. /\ UNCHANGED <<lock, interruptsEnabled, unmasked, irq, failed, held>>
        /\ Commanded(t) \/ Checked \/ Waited \/ StatusRead
    BY <1>1, TransferSeen
  <2>2. CASE Commanded(t)
    BY <2>1, <2>2 DEF Commanded, MovesTo, OneSign, Quiet, Given
  <2>3. CASE Checked
    BY <2>1, <2>3 DEF Checked, MovesTo, Finishes, OneSign, Quiet, Given
  <2>4. CASE Waited
    BY <2>1, <2>4
    DEF Waited, MovesTo, Finishes, OneSign, Quiet, Given, Typed, InterruptWaitedFor
  <2>5. CASE StatusRead
    BY <2>1, <2>5 DEF StatusRead, GoesOn, MovesTo, Finishes, OneSign, Quiet, Given
  <2> QED
    BY <2>1, <2>2, <2>3, <2>4, <2>5
<1>2. ASSUME NEW t \in Tasks, NEW s \in Calls, Call(t, s) PROVE OneSign'
  BY <1>2, CallSeen DEF Begins, BusLeftAlone, OneSign, Quiet, Given
<1>3. ASSUME NEW t \in Tasks, NEW d \in BOOLEAN, NEW f \in BOOLEAN, Setup(t, d, f)
      PROVE  OneSign'
  BY <1>3, SetupSeen DEF OneSign, Quiet
<1>4. ASSUME NEW t \in Tasks, NEW c \in Channels, NEW s \in Calls \cup {<<>>},
             ChannelCall(t, c, s)
      PROVE  OneSign'
  BY <1>4, ChannelCallSeen DEF Begins, BusLeftAlone, OneSign, Quiet, Given
<1>5. ASSUME NEW t \in Tasks, Forward(t) PROVE OneSign'
  BY <1>5, ForwardSeen DEF Begins, BusLeftAlone, OneSign, Quiet, Given
<1>6. ASSUME NEW t \in Tasks, LeaveCall(t) \/ SwitchSetup(t) PROVE OneSign'
  BY <1>6, LeaveSeen DEF BusLeftAlone, OneSign, Quiet, Given
<1>7. ASSUME InterruptStep \/ CompleteTransfer \/ SwitchReset \/ UNCHANGED vars
      PROVE  OneSign'
  BY <1>7, BusStepSeen, EndSeen DEF BusLeftAlone, OneSign, Quiet, Given
<1> QED
  BY <1>1, <1>2, <1>3, <1>4, <1>5, <1>6, <1>7 DEF Next, TaskStep, Application

(***************************************************************************)
(* As many bytes are missing as transfers are to do, but for the one that  *)
(* has been acknowledged and is still waited for.                          *)
(***************************************************************************)
BytesCounted ==
    clean => /\ Point = "control" => left = Len(Doing)
             /\ Point \in {"check", "wait"} /\ job # NoJob => left = Len(Doing)
             /\ Point \in {"check", "wait", "error", "data"} /\ job = NoJob =>
                    left = IF failed THEN Len(Doing) ELSE Len(Doing) - 1
             /\ Point = "data" => ~failed
             /\ Point \notin Running => left = 0

LEMMA BytesCountedKept ==
  ASSUME Typed, OneSign, BytesCounted, [Next]_vars
  PROVE  BytesCounted'
<1> USE DEF Running
<1>1. ASSUME NEW t \in Tasks, TransferStep(t) PROVE BytesCounted'
  <2>1. /\ UNCHANGED <<lock, interruptsEnabled, unmasked, irq, failed, held>>
        /\ Commanded(t) \/ Checked \/ Waited \/ StatusRead
    BY <1>1, TransferSeen
  <2>2. Doing \in Seq(SwitchTransfers) /\ Doing # <<>>
    BY <1>1, TransferSeen, PointTyped
  <2>3. Len(Doing) \in Nat /\ Len(Doing) >= 1 /\ Len(Tail(Doing)) = Len(Doing) - 1
    BY <2>2, RestOfCall
  <2>4. CASE Commanded(t)
    <3>1. job' # NoJob
      BY <2>2, <2>4, ChannelsAssumption DEF Commanded, Typed, CountsTyped
    <3> QED
      BY <2>1, <2>4, <3>1 DEF Commanded, MovesTo, BytesCounted
  <2>5. CASE Checked
    BY <2>1, <2>5 DEF Checked, MovesTo, Finishes, BytesCounted, Quiet
  <2>6. CASE Waited
    BY <2>1, <2>6 DEF Waited, MovesTo, Finishes, BytesCounted, OneSign, Quiet
  <2>7. CASE StatusRead
    BY <2>1, <2>3, <2>7
    DEF StatusRead, GoesOn, MovesTo, Finishes, BytesCounted, OneSign, Quiet, MasterErr
  <2> QED
    BY <2>1, <2>4, <2>5, <2>6, <2>7
<1>2. ASSUME NEW t \in Tasks, NEW s \in Calls, Call(t, s) PROVE BytesCounted'
  BY <1>2, CallSeen DEF Begins, BytesCounted
<1>3. ASSUME NEW t \in Tasks, NEW d \in BOOLEAN, NEW f \in BOOLEAN, Setup(t, d, f)
      PROVE  BytesCounted'
  BY <1>3, SetupSeen, TransferTyped DEF BytesCounted
<1>4. ASSUME NEW t \in Tasks, NEW c \in Channels, NEW s \in Calls \cup {<<>>},
             ChannelCall(t, c, s)
      PROVE  BytesCounted'
  BY <1>4, ChannelCallSeen DEF Begins, BytesCounted
<1>5. ASSUME NEW t \in Tasks, Forward(t) PROVE BytesCounted'
  BY <1>5, ForwardSeen DEF Begins, BytesCounted
<1>6. ASSUME NEW t \in Tasks, LeaveCall(t) \/ SwitchSetup(t) PROVE BytesCounted'
  BY <1>6, LeaveSeen DEF BytesCounted
<1>7. ASSUME InterruptStep \/ CompleteTransfer \/ SwitchReset \/ UNCHANGED vars
      PROVE  BytesCounted'
  <2>1. CASE \E ok \in BOOLEAN : CompletesWith(ok)
    <3>1. PICK ok \in BOOLEAN : CompletesWith(ok)
      BY <2>1
    <3>2. UNCHANGED <<Point, Doing, clean>>
      BY <1>7, BusStepSeen
    <3>5. /\ job # NoJob /\ job' = NoJob /\ (failed' => ~ok) /\ (~ok => failed')
          /\ left' = IF ok /\ left > 0 THEN left - 1 ELSE left
      BY <3>1, EndSeen
    <3>3. CASE Point \notin {"check", "wait"}
      BY <3>2, <3>3, <3>5 DEF OneSign, Quiet, BytesCounted
    <3>4. CASE Point \in {"check", "wait"}
      <4>1. Doing \in Seq(SwitchTransfers) /\ Doing # <<>>
        BY <3>4, PointTyped
      <4>2. Len(Doing) \in Nat /\ Len(Doing) >= 1
        BY <4>1, RestOfCall
      <4> QED
        BY <3>2, <3>4, <3>5, <4>2 DEF BytesCounted
    <3> QED
      BY <3>3, <3>4
  <2>2. CASE ~\E ok \in BOOLEAN : CompletesWith(ok)
    <3>1. UNCHANGED <<Point, Doing, clean, job, failed, left>>
      BY <1>7, <2>2, BusStepSeen DEF BusLeftAlone
    <3> QED
      BY <3>1 DEF BytesCounted
  <2> QED
    BY <2>1, <2>2
<1> QED
  BY <1>1, <1>2, <1>3, <1>4, <1>5, <1>6, <1>7 DEF Next, TaskStep, Application

(***************************************************************************)
(* The driver's channel is that of the switch, or the switch was reset;    *)
(* while a channel is being selected nobody relies on it.                  *)
(***************************************************************************)
ChannelKnown ==
    /\ phase = "transfer" => Doing \in Seq(PlainTransfers)
    /\ phase = "select" /\ Point \in Running => Doing = SelectTransfers(channel)
    /\ phase = "transfer" /\ channel # NoChannel /\ Point \in Running => activeBus = channel
    /\ clean =>
       /\ phase = "transfer" => activeBus = NoChannel \/ selected \in {activeBus, NoChannel}
       /\ phase = "select" /\ Point \in {"check", "wait", "error", "data"} /\ job = NoJob
              /\ ~failed => selected \in {channel, NoChannel}
       /\ phase = "select" /\ Point = "returned" /\ result = "ok" =>
              selected \in {channel, NoChannel}

LEMMA ChannelKnownKept ==
  ASSUME Typed, OneSign, BytesCounted, ChannelKnown, [Next]_vars
  PROVE  ChannelKnown'
<1> USE DEF Running
<1>1. ASSUME NEW t \in Tasks, TransferStep(t), UNCHANGED <<switchVars, selected>>
      PROVE  ChannelKnown'
  <2>1. /\ UNCHANGED <<lock, interruptsEnabled, unmasked, irq, failed, held>>
        /\ Commanded(t) \/ Checked \/ Waited \/ StatusRead
    BY <1>1, TransferSeen
  <2>2. Doing \in Seq(SwitchTransfers) /\ Doing # <<>>
    BY <1>1, TransferSeen, PointTyped
  <2>3. UNCHANGED <<activeBus, phase, channel, selected>>
    BY <1>1 DEF switchVars
  <2>4. phase \in {"select", "transfer"}
    BY DEF Typed, SwitchTyped
  <2>5. phase = "transfer" => /\ Doing' \in Seq(PlainTransfers)
                              /\ channel # NoChannel => activeBus = channel
    <3>1. phase = "transfer" => Tail(Doing) \in Seq(PlainTransfers)
      BY <2>2, HeadTailProperties DEF ChannelKnown
    <3>2. Doing' \in {Doing, <<>>, Tail(Doing)} /\ Point \in Running
      BY <2>1 DEF Commanded, Checked, Waited, StatusRead, MovesTo, Finishes, GoesOn
    <3> QED
      BY <3>1, <3>2, EmptySeq DEF ChannelKnown
  <2>6. phase = "select" => channel \in Channels /\ Len(SelectTransfers(channel)) = 1
    BY TransferTyped DEF Typed, SwitchTyped
  <2>7. CASE Commanded(t)
    <3>1. job' # NoJob
      BY <2>2, <2>7, ChannelsAssumption DEF Commanded, Typed, CountsTyped
    <3> QED
      BY <2>1, <2>3, <2>4, <2>5, <2>7, <3>1 DEF Commanded, MovesTo, ChannelKnown
  <2>8. CASE Checked
    BY <2>1, <2>3, <2>4, <2>5, <2>8 DEF Checked, MovesTo, Finishes, ChannelKnown
  <2>9. CASE Waited
    BY <2>1, <2>3, <2>4, <2>5, <2>9 DEF Waited, MovesTo, Finishes, ChannelKnown, OneSign
  <2>10. CASE StatusRead
    BY <2>1, <2>3, <2>4, <2>5, <2>6, <2>10
    DEF StatusRead, GoesOn, MovesTo, Finishes, ChannelKnown, OneSign, Quiet, MasterErr
  <2> QED
    BY <2>1, <2>7, <2>8, <2>9, <2>10
<1>2. ASSUME NEW t \in Tasks, NEW s \in Calls, Call(t, s), UNCHANGED <<switchVars, selected>>
      PROVE  ChannelKnown'
  <2>1. s \in Seq(PlainTransfers) /\ Point = "idle" /\ Begins(s)
    BY <1>2, CallSeen, CallsPlain
  <2>2. channel = NoChannel /\ phase = "transfer"
    BY <2>1, PointTyped DEF Typed, SwitchTyped
  <2> QED
    BY <1>2, <2>1, <2>2 DEF Begins, ChannelKnown, switchVars
<1>3. ASSUME NEW t \in Tasks, NEW d \in BOOLEAN, NEW f \in BOOLEAN, Setup(t, d, f),
             UNCHANGED <<switchVars, selected>>
      PROVE  ChannelKnown'
  <2>1. /\ Point = "idle" /\ Point' = "wait" /\ Doing' = <<Dummy>> /\ job' # NoJob
        /\ UNCHANGED <<result, clean>>
    BY <1>3, SetupSeen
  <2>2. channel = NoChannel /\ phase = "transfer"
    BY <2>1, PointTyped DEF Typed, SwitchTyped
  <2>3. Doing' \in Seq(PlainTransfers)
    BY <2>1, TransferTyped
  <2> QED
    BY <1>3, <2>1, <2>2, <2>3 DEF ChannelKnown, switchVars
<1>4. ASSUME NEW t \in Tasks, NEW c \in Channels, NEW s \in Calls \cup {<<>>},
             ChannelCall(t, c, s)
      PROVE  ChannelKnown'
  <2>1. /\ Point = "idle" /\ channel' = c /\ UNCHANGED <<activeBus, selected>>
        /\ \/ /\ activeBus = c /\ s \in Calls /\ Begins(s)
              /\ phase' = "transfer"
           \/ Begins(SelectTransfers(c)) /\ phase' = "select"
    BY <1>4, ChannelCallSeen
  <2>2. phase = "transfer"
    BY <2>1, PointTyped DEF Typed, SwitchTyped
  <2>3. s \in Calls => s \in Seq(PlainTransfers)
    BY CallsPlain
  <2> QED
    BY <2>1, <2>2, <2>3 DEF Begins, ChannelKnown
<1>5. ASSUME NEW t \in Tasks, Forward(t) PROVE ChannelKnown'
  <2>1. request \in Seq(PlainTransfers) /\ <<>> \in Seq(PlainTransfers)
    BY EmptySeq DEF Typed, SwitchTyped
  <2> QED
    BY <1>5, <2>1, ForwardSeen DEF Begins, ChannelKnown
<1>6. ASSUME NEW t \in Tasks, LeaveCall(t) \/ SwitchSetup(t) PROVE ChannelKnown'
  <2>1. Point = "idle" => channel = NoChannel /\ phase = "transfer"
    BY PointTyped DEF Typed, SwitchTyped
  <2> QED
    BY <1>6, <2>1, LeaveSeen, EmptySeq DEF BusLeftAlone, ChannelKnown
<1>7. ASSUME InterruptStep \/ CompleteTransfer \/ SwitchReset \/ UNCHANGED vars
      PROVE  ChannelKnown'
  <2>1. UNCHANGED <<Point, Doing, clean, result, activeBus, phase, channel>>
    BY <1>7, BusStepSeen DEF switchVars
  <2>2. CASE \E ok \in BOOLEAN :
               /\ CompletesWith(ok)
               /\ selected' = IF ok /\ job.transfer.channel # NoChannel
                              THEN job.transfer.channel ELSE selected
    <3>1. PICK ok \in BOOLEAN :
               /\ CompletesWith(ok)
               /\ selected' = IF ok /\ job.transfer.channel # NoChannel
                              THEN job.transfer.channel ELSE selected
      BY <2>2
    <3>2. job # NoJob /\ job' = NoJob /\ (failed' => ~ok) /\ (~ok => failed')
      BY <3>1, EndSeen
    <3>3. SUFFICES ASSUME clean PROVE ChannelKnown'
      BY <2>1, <3>3 DEF ChannelKnown
    <3>4. Point \in {"check", "wait"} /\ job.transfer = Head(Doing) /\ Doing # <<>>
      BY <3>2, <3>3, PointTyped DEF OneSign, Quiet
    <3>5. CASE phase = "transfer"
      <4>1. Doing \in Seq(PlainTransfers)
        BY <3>5 DEF ChannelKnown
      <4>2. Head(Doing) \in PlainTransfers
        BY <3>4, <4>1
      <4>3. job.transfer.channel = NoChannel
        BY <3>4, <4>2 DEF PlainTransfers, TransfersTo
      <4> QED
        BY <2>1, <3>1, <3>4, <3>5, <4>3 DEF ChannelKnown
    <3>6. CASE phase = "select"
      <4>1. channel \in Channels /\ Doing = SelectTransfers(channel)
        BY <3>4, <3>6 DEF ChannelKnown, Typed, SwitchTyped
      <4>2. job.transfer.channel = channel
        BY <3>4, <4>1, TransferTyped
      <4> QED
        BY <2>1, <3>1, <3>2, <3>4, <3>6, <4>1, <4>2, ChannelsAssumption DEF ChannelKnown
    <3> QED
      BY <3>5, <3>6 DEF Typed, SwitchTyped
  <2>3. CASE BusLeftAlone /\ selected' \in {NoChannel, selected}
    BY <2>1, <2>3 DEF BusLeftAlone, ChannelKnown
  <2>4. CASE UNCHANGED <<job, failed, selected>>
    BY <2>1, <2>4 DEF ChannelKnown
  <2> QED
    BY <1>7, <2>2, <2>3, <2>4, BusStepSeen
<1> QED
  BY <1>1, <1>2, <1>3, <1>4, <1>5, <1>6, <1>7 DEF Next, TaskStep, Application

(***************************************************************************)
(* The bus is held between two transfers as the last one asked, and a call *)
(* asks for a stop in the end when its caller does.                        *)
(***************************************************************************)
StopsAsked ==
    /\ Doing # <<>> => Doing[Len(Doing)].stop
    /\ request # <<>> => request[Len(request)].stop

BusHeldAsAsked ==
    clean =>
    /\ Point \in {"check", "wait", "error", "data"} /\ job = NoJob =>
           /\ held => ~Head(Doing).stop
           /\ ~held => Head(Doing).stop
    /\ result = "ok" /\ Point \notin Running => ~held

LEMMA StopsAskedKept ==
  ASSUME \A s \in Calls : s[Len(s)].stop, Typed, StopsAsked, [Next]_vars
  PROVE  StopsAsked'
<1>1. ASSUME NEW t \in Tasks, TransferStep(t), UNCHANGED <<switchVars, selected>>
      PROVE  StopsAsked'
  <2>1. Commanded(t) \/ Checked \/ Waited \/ StatusRead
    BY <1>1, TransferSeen
  <2>2. \/ Doing' \in {Doing, <<>>}
        \/ Len(Doing) # 1 /\ Doing' = Tail(Doing)
    BY <2>1 DEF Commanded, Checked, Waited, StatusRead, MovesTo, Finishes, GoesOn
  <2>3. Doing \in Seq(SwitchTransfers) /\ Doing # <<>>
    BY <1>1, TransferSeen, PointTyped
  <2>4. Len(Doing) # 1 => Tail(Doing)[Len(Tail(Doing))] = Doing[Len(Doing)]
    BY <2>3, RestOfCall
  <2> QED
    BY <1>1, <2>2, <2>3, <2>4 DEF StopsAsked, switchVars
<1>2. ASSUME NEW t \in Tasks, NEW s \in Calls, Call(t, s), UNCHANGED <<switchVars, selected>>
      PROVE  StopsAsked'
  BY <1>2, CallSeen DEF Begins, StopsAsked, switchVars
<1>3. ASSUME NEW t \in Tasks, NEW d \in BOOLEAN, NEW f \in BOOLEAN, Setup(t, d, f),
             UNCHANGED <<switchVars, selected>>
      PROVE  StopsAsked'
  <2>1. Doing' = <<Dummy>>
    BY <1>3, SetupSeen
  <2>2. <<Dummy>>[Len(<<Dummy>>)].stop
    BY DEF Dummy, Transfer
  <2> QED
    BY <1>3, <2>1, <2>2 DEF StopsAsked, switchVars
<1>4. ASSUME NEW t \in Tasks, NEW c \in Channels, NEW s \in Calls \cup {<<>>},
             ChannelCall(t, c, s)
      PROVE  StopsAsked'
  <2>1. \/ s \in Calls /\ Doing' = s /\ request' = <<>>
        \/ Doing' = SelectTransfers(c) /\ request' = s
    BY <1>4, ChannelCallSeen DEF Begins
  <2>2. s # <<>> => s[Len(s)].stop
    OBVIOUS
  <2>3. SelectTransfers(c)[Len(SelectTransfers(c))].stop
    BY TransferTyped, RestOfCall
  <2> QED
    BY <2>1, <2>2, <2>3 DEF StopsAsked
<1>5. ASSUME NEW t \in Tasks, Forward(t) PROVE StopsAsked'
  BY <1>5, ForwardSeen DEF Begins, StopsAsked
<1>6. ASSUME NEW t \in Tasks, LeaveCall(t) \/ SwitchSetup(t) PROVE StopsAsked'
  BY <1>6, LeaveSeen DEF StopsAsked
<1>7. ASSUME InterruptStep \/ CompleteTransfer \/ SwitchReset \/ UNCHANGED vars
      PROVE  StopsAsked'
  <2>1. UNCHANGED <<Doing, request>>
    BY <1>7, BusStepSeen DEF switchVars
  <2> QED
    BY <2>1 DEF StopsAsked
<1> QED
  BY <1>1, <1>2, <1>3, <1>4, <1>5, <1>6, <1>7 DEF Next, TaskStep, Application

LEMMA BusHeldKept ==
  ASSUME Typed, OneSign, BytesCounted, StopsAsked, BusHeldAsAsked, [Next]_vars
  PROVE  BusHeldAsAsked'
<1> USE DEF Running
<1>1. ASSUME NEW t \in Tasks, TransferStep(t) PROVE BusHeldAsAsked'
  <2>1. /\ UNCHANGED <<lock, interruptsEnabled, unmasked, irq, failed, held>>
        /\ Commanded(t) \/ Checked \/ Waited \/ StatusRead
    BY <1>1, TransferSeen
  <2>2. Doing \in Seq(SwitchTransfers) /\ Doing # <<>>
    BY <1>1, TransferSeen, PointTyped
  <2>3. CASE Commanded(t)
    <3>1. job' # NoJob
      BY <2>2, <2>3, ChannelsAssumption DEF Commanded, Typed, CountsTyped
    <3> QED
      BY <2>1, <2>3, <3>1 DEF Commanded, MovesTo, BusHeldAsAsked
  <2>4. CASE Checked
    BY <2>1, <2>4 DEF Checked, MovesTo, Finishes, BusHeldAsAsked
  <2>5. CASE Waited
    BY <2>1, <2>5 DEF Waited, MovesTo, Finishes, BusHeldAsAsked, OneSign
  <2>6. CASE StatusRead
    <3>1. Len(Doing) = 1 => Head(Doing).stop
      BY <2>2, RestOfCall DEF StopsAsked
    <3> QED
      BY <2>1, <2>6, <3>1
      DEF StatusRead, GoesOn, MovesTo, Finishes, BusHeldAsAsked, OneSign, Quiet
  <2> QED
    BY <2>1, <2>3, <2>4, <2>5, <2>6
<1>2. ASSUME NEW t \in Tasks, NEW s \in Calls, Call(t, s) PROVE BusHeldAsAsked'
  BY <1>2, CallSeen DEF Begins, BusHeldAsAsked
<1>3. ASSUME NEW t \in Tasks, NEW d \in BOOLEAN, NEW f \in BOOLEAN, Setup(t, d, f)
      PROVE  BusHeldAsAsked'
  BY <1>3, SetupSeen DEF BusHeldAsAsked
<1>4. ASSUME NEW t \in Tasks, NEW c \in Channels, NEW s \in Calls \cup {<<>>},
             ChannelCall(t, c, s)
      PROVE  BusHeldAsAsked'
  BY <1>4, ChannelCallSeen DEF Begins, BusHeldAsAsked
<1>5. ASSUME NEW t \in Tasks, Forward(t) PROVE BusHeldAsAsked'
  BY <1>5, ForwardSeen DEF Begins, BusLeftAlone, BusHeldAsAsked
<1>6. ASSUME NEW t \in Tasks, LeaveCall(t) \/ SwitchSetup(t) PROVE BusHeldAsAsked'
  BY <1>6, LeaveSeen DEF BusLeftAlone, BusHeldAsAsked
<1>7. ASSUME InterruptStep \/ CompleteTransfer \/ SwitchReset \/ UNCHANGED vars
      PROVE  BusHeldAsAsked'
  <2>1. UNCHANGED <<Point, Doing, clean, result>>
    BY <1>7, BusStepSeen
  <2>2. CASE \E ok \in BOOLEAN : CompletesWith(ok)
    <3>1. /\ job # NoJob /\ job' = NoJob
          /\ (held' => ~job.transfer.stop) /\ (~job.transfer.stop => held')
      BY <2>2, EndSeen
    <3>2. clean => Point \in {"check", "wait"} /\ job.transfer = Head(Doing)
      BY <3>1 DEF OneSign, Quiet
    <3> QED
      BY <2>1, <3>1, <3>2 DEF BusHeldAsAsked
  <2>3. CASE ~\E ok \in BOOLEAN : CompletesWith(ok)
    <3>1. UNCHANGED <<job, held>>
      BY <1>7, <2>3, BusStepSeen DEF BusLeftAlone
    <3> QED
      BY <2>1, <3>1 DEF BusHeldAsAsked
  <2> QED
    BY <2>2, <2>3
<1> QED
  BY <1>1, <1>2, <1>3, <1>4, <1>5, <1>6, <1>7 DEF Next, TaskStep, Application

-----------------------------------------------------------------------------
BusInv == Typed /\ OneSign /\ BytesCounted /\ ChannelKnown

LEMMA InitBusInv == Init => BusInv /\ StopsAsked /\ BusHeldAsAsked
<1> SUFFICES ASSUME Init PROVE BusInv /\ StopsAsked /\ BusHeldAsAsked
  OBVIOUS
<1>1. Typed /\ Point = "idle" /\ Doing = <<>>
  BY InitTyped DEF Init, I2CInit, Point, Doing
<1>2. <<>> \in Seq(PlainTransfers)
  BY EmptySeq
<1> QED
  BY <1>1, <1>2
  DEF Init, I2CInit, BusInv, OneSign, BytesCounted, ChannelKnown, StopsAsked,
      BusHeldAsAsked, Quiet, Given, Running

LEMMA NextBusInv == BusInv /\ [Next]_vars => BusInv'
BY NextTyped, OneSignKept, BytesCountedKept, ChannelKnownKept DEF BusInv

LEMMA AlwaysBusInv == Spec => []BusInv
<1>1. Init => BusInv
  BY InitBusInv
<1> QED
  BY <1>1, NextBusInv, PTL DEF Spec

(***************************************************************************)
(* A transfer through a channel reaches no device on another channel.      *)
(***************************************************************************)
THEOREM OnNamedChannelAlways == Spec => []OnNamedChannel
<1>1. BusInv => OnNamedChannel
  <2> SUFFICES ASSUME BusInv, clean, job # NoJob, phase = "transfer", channel # NoChannel
               PROVE  selected \in {channel, NoChannel}
    BY DEF OnNamedChannel
  <2>1. Point \in {"check", "wait"}
    BY DEF BusInv, OneSign, Quiet
  <2>2. activeBus = channel
    BY <2>1 DEF BusInv, ChannelKnown, Running
  <2> QED
    BY <2>2 DEF BusInv, ChannelKnown
<1> QED
  BY <1>1, AlwaysBusInv, PTL

(***************************************************************************)
(* After a call that succeeded the bus is free, if every caller asks for a *)
(* stop condition in the end and nothing was left behind before.           *)
(***************************************************************************)
THEOREM BusReleasedAlways ==
  ASSUME \A s \in Calls : s[Len(s)].stop
  PROVE  Spec => []BusReleased
<1> DEFINE Inv == BusInv /\ StopsAsked /\ BusHeldAsAsked
<1>1. Init => Inv
  BY InitBusInv
<1>2. Inv /\ [Next]_vars => Inv'
  BY NextBusInv, StopsAskedKept, BusHeldKept DEF BusInv
<1>3. Inv => BusReleased
  <2> SUFFICES ASSUME Inv, clean, lock = NoTask, result = "ok" PROVE ~held
    BY DEF BusReleased
  <2>1. Point = "idle"
    BY DEF Point
  <2> QED
    BY <2>1 DEF BusHeldAsAsked, Running
<1> QED
  BY <1>1, <1>2, <1>3, PTL DEF Spec

-----------------------------------------------------------------------------
(***************************************************************************)
(* The refinement of I2CBus, step by step.                                 *)
(***************************************************************************)
User == IF \E t \in Tasks : pc[t] \in Running
        THEN CHOOSE t \in Tasks : pc[t] \in Running ELSE NoTask

(* Said of the values, so that it holds before and after a step.           *)
LEMMA OneRunning ==
  ASSUME NEW l \in Tasks \cup {NoTask},
         NEW p \in [Tasks -> Running \cup {"idle", "returned"}],
         \A t \in Tasks : p[t] # "idle" <=> l = t,
         NEW point, point = IF l = NoTask THEN "idle" ELSE p[l],
         NEW u,
         (\E t \in Tasks : p[t] \in Running) => u \in Tasks /\ p[u] \in Running,
         ~(\E t \in Tasks : p[t] \in Running) => u = NoTask
  PROVE  /\ point \in Running => u = l /\ l \in Tasks /\ u # NoTask
         /\ point \notin Running => u = NoTask
<1>1. CASE point \in Running
  <2>1. l \in Tasks /\ p[l] \in Running
    BY <1>1 DEF Running
  <2>2. \A t \in Tasks : p[t] \in Running => t = l
    BY DEF Running
  <2>3. u \in Tasks /\ p[u] \in Running
    BY <2>1
  <2> QED
    BY <1>1, <2>1, <2>2, <2>3, I2CAssumption
<1>2. CASE point \notin Running
  <2>1. \A t \in Tasks : p[t] \notin Running
    BY <1>2, I2CAssumption DEF Running
  <2> QED
    BY <1>2, <2>1
<1> QED
  BY <1>1, <1>2

LEMMA UserOf ==
  /\ Typed => /\ Point \in Running => User = lock /\ lock \in Tasks /\ User # NoTask
              /\ Point \notin Running => User = NoTask
  /\ Typed' => /\ Point' \in Running => User' = lock' /\ lock' \in Tasks /\ User' # NoTask
               /\ Point' \notin Running => User' = NoTask
<1>1. ASSUME Typed
      PROVE  /\ Point \in Running => User = lock /\ lock \in Tasks /\ User # NoTask
             /\ Point \notin Running => User = NoTask
  <2>1. /\ lock \in Tasks \cup {NoTask}
        /\ pc \in [Tasks -> Running \cup {"idle", "returned"}]
        /\ \A t \in Tasks : pc[t] # "idle" <=> lock = t
    BY <1>1 DEF Typed, CallTyped
  <2>2. Point = IF lock = NoTask THEN "idle" ELSE pc[lock]
    BY DEF Point
  <2>3. (\E t \in Tasks : pc[t] \in Running) => User \in Tasks /\ pc[User] \in Running
    BY DEF User
  <2>4. ~(\E t \in Tasks : pc[t] \in Running) => User = NoTask
    BY DEF User
  <2> QED
    BY <2>1, <2>2, <2>3, <2>4, OneRunning
<1>2. ASSUME Typed'
      PROVE  /\ Point' \in Running => User' = lock' /\ lock' \in Tasks /\ User' # NoTask
             /\ Point' \notin Running => User' = NoTask
  <2>1. /\ lock' \in Tasks \cup {NoTask}
        /\ pc' \in [Tasks -> Running \cup {"idle", "returned"}]
        /\ \A t \in Tasks : pc'[t] # "idle" <=> lock' = t
    BY <1>2 DEF Typed, CallTyped
  <2>2. Point' = IF lock' = NoTask THEN "idle" ELSE pc'[lock']
    BY DEF Point
  <2>3. (\E t \in Tasks : pc'[t] \in Running) => User' \in Tasks /\ pc'[User'] \in Running
    BY DEF User
  <2>4. ~(\E t \in Tasks : pc'[t] \in Running) => User' = NoTask
    BY DEF User
  <2> QED
    BY <2>1, <2>2, <2>3, <2>4, OneRunning
<1> QED
  BY <1>1, <1>2

Maps ==
    \/ Bus!Next \/ Bus!Broken
    \/ UNCHANGED <<User, left, result, clean>>

(* The steps of the abstract bus, said of the variables of this one.       *)
LEMMA MapsWhen ==
  ASSUME Typed, Typed'
  PROVE  /\ (clean /\ User = NoTask /\ User' \in Tasks /\ left' \in Nat \ {0}
               /\ UNCHANGED <<result, clean>>) => Maps
         /\ (clean /\ User # NoTask /\ left > 0 /\ left' = left - 1
               /\ UNCHANGED <<User, result, clean>>) => Maps
         /\ (clean /\ clean' /\ User # NoTask /\ left = 0 /\ left' = 0
               /\ User' = NoTask /\ result' = "ok") => Maps
         /\ (clean /\ User # NoTask /\ User' = NoTask /\ left' = 0
               /\ result' \in {"error", "timeout"}) => Maps
         /\ (~clean /\ ~clean') => Maps
<1>1. clean \in BOOLEAN /\ clean' \in BOOLEAN
  BY Zenon DEF Typed, FlagsTyped
<1>2. /\ clean => clean = TRUE
      /\ clean' => clean' = TRUE
      /\ ~clean => clean = FALSE
      /\ ~clean' => clean' = FALSE
  BY <1>1, Zenon
<1>3. ASSUME clean, User = NoTask, User' \in Tasks, left' \in Nat \ {0},
             UNCHANGED <<result, clean>>
      PROVE  Maps
  BY <1>2, <1>3 DEF Maps, Bus!Next, Bus!Begin, User
<1>4. ASSUME clean, User # NoTask, left > 0, left' = left - 1,
             UNCHANGED <<User, result, clean>>
      PROVE  Maps
  BY <1>2, <1>4 DEF Maps, Bus!Next, Bus!Acknowledge, User
<1>5. ASSUME clean, clean', User # NoTask, left = 0, left' = 0, User' = NoTask,
             result' = "ok"
      PROVE  Maps
  BY <1>2, <1>5 DEF Maps, Bus!Next, Bus!Succeed, User
<1>6. ASSUME clean, User # NoTask, User' = NoTask, left' = 0,
             result' \in {"error", "timeout"}
      PROVE  Maps
  BY <1>1, <1>2, <1>6 DEF Maps, Bus!Next, Bus!Fail, User
<1>7. ASSUME ~clean, ~clean' PROVE Maps
  BY <1>2, <1>7 DEF Maps, Bus!Broken
<1> QED
  BY <1>3, <1>4, <1>5, <1>6, <1>7

LEMMA TransferMaps ==
  ASSUME BusInv, BusInv', NEW t \in Tasks, TransferStep(t)
  PROVE  Maps
<1>1. Typed /\ Typed' /\ OneSign /\ BytesCounted
  BY DEF BusInv
<1>2. /\ Commanded(t) \/ Checked \/ Waited \/ StatusRead
      /\ UNCHANGED <<lock, failed>>
      /\ Doing # <<>>
  BY <1>1, TransferSeen
<1>3. Doing \in Seq(SwitchTransfers) /\ Point \in Running
  BY <1>1, <1>2, PointTyped
<1>4. User # NoTask /\ User = lock
  BY <1>1, <1>3, UserOf
<1>5. ASSUME NEW p \in Running, MovesTo(p) PROVE Maps
  <2>1. Point' = p /\ UNCHANGED <<left, result, clean>>
    BY <1>5 DEF MovesTo
  <2>2. User' = lock'
    BY <1>1, <2>1, UserOf
  <2> QED
    BY <1>2, <1>4, <2>1, <2>2 DEF Maps
<1>6. ASSUME NEW r \in {"error", "timeout"}, Finishes(r) PROVE Maps
  <2>1. Point' = "returned" /\ left' = 0 /\ result' = r /\ (clean' => clean)
    BY <1>6 DEF Finishes
  <2>2. User' = NoTask
    BY <1>1, <2>1, UserOf DEF Running
  <2> QED
    BY <1>1, <1>4, <2>1, <2>2, MapsWhen
<1>7. ASSUME StatusRead, ~MasterErr, GoesOn PROVE Maps
  <2>1. clean => Quiet /\ ~failed /\ left = Len(Doing) - 1
    BY <1>7 DEF StatusRead, BusInv, OneSign, BytesCounted, Quiet, MasterErr
  <2>2. CASE Len(Doing) = 1 /\ Finishes("ok")
    <3>1. /\ Point' = "returned" /\ left' = 0 /\ result' = "ok"
          /\ (clean' => clean) /\ (clean => clean')
      BY <2>1, <2>2 DEF Finishes
    <3>2. User' = NoTask
      BY <1>1, <3>1, UserOf DEF Running
    <3>3. clean => left = 0
      BY <2>1, <2>2
    <3> QED
      BY <1>1, <1>4, <3>1, <3>2, <3>3, MapsWhen
  <2>3. CASE Point' = "control" /\ UNCHANGED <<left, result, clean>>
    <3>1. User' = lock'
      BY <1>1, <2>3, UserOf DEF Running
    <3> QED
      BY <1>2, <1>4, <2>3, <3>1 DEF Maps
  <2> QED
    BY <1>7, <2>2, <2>3 DEF GoesOn
<1>8. CASE Commanded(t) \/ Checked \/ Waited
  <2>1. \/ MovesTo("check") \/ MovesTo("wait") \/ MovesTo("error")
        \/ Finishes("error") \/ Finishes("timeout")
    BY <1>8 DEF Commanded, Checked, Waited
  <2> QED
    BY <1>5, <1>6, <2>1, Zenon DEF Running
<1>9. CASE StatusRead
  <2>1. \/ MovesTo("data") \/ Finishes("error")
        \/ ~MasterErr /\ GoesOn
    BY <1>9 DEF StatusRead
  <2> QED
    BY <1>5, <1>6, <1>7, <1>9, <2>1, Zenon DEF Running
<1> QED
  BY <1>2, <1>8, <1>9

(* A call begins, or leaves without having run.                            *)
LEMMA BeginMaps ==
  ASSUME Typed, Typed', Point \notin Running, NEW s \in Seq(SwitchTransfers) \ {<<>>},
         Begins(s)
  PROVE  Maps
<1>1. Len(s) \in Nat \ {0}
  BY RestOfCall
<1>2. User = NoTask /\ User' \in Tasks
  BY UserOf DEF Begins, Running
<1>3. left' \in Nat \ {0} /\ UNCHANGED <<result, clean>>
  BY <1>1 DEF Begins
<1> QED
  BY <1>2, <1>3, MapsWhen

LEMMA IdleMaps ==
  ASSUME Typed, Typed', Point \notin Running, Point' \notin Running,
         UNCHANGED <<left, result, clean>>
  PROVE  Maps
BY UserOf DEF Maps

LEMMA NextMaps ==
  ASSUME BusInv, BusInv', [Next]_vars
  PROVE  Maps
<1>0. Typed /\ Typed'
  BY DEF BusInv
<1>1. ASSUME NEW t \in Tasks, TransferStep(t) PROVE Maps
  BY <1>1, TransferMaps
<1>2. ASSUME NEW t \in Tasks, NEW s \in Calls, Call(t, s) PROVE Maps
  <2>1. s \in Seq(SwitchTransfers) \ {<<>>}
    BY CallsPlain, TransferTyped
  <2> QED
    BY <1>0, <1>2, <2>1, CallSeen, BeginMaps DEF Running
<1>3. ASSUME NEW t \in Tasks, NEW d \in BOOLEAN, NEW f \in BOOLEAN, Setup(t, d, f)
      PROVE  Maps
  <2>1. Point = "idle" /\ Point' = "wait" /\ left' = 1 /\ UNCHANGED <<result, clean>>
    BY <1>0, <1>3, SetupSeen
  <2>2. User = NoTask /\ User' \in Tasks
    BY <1>0, <2>1, UserOf DEF Running
  <2> QED
    BY <1>0, <2>1, <2>2, MapsWhen
<1>4. ASSUME NEW t \in Tasks, NEW c \in Channels, NEW s \in Calls \cup {<<>>},
             ChannelCall(t, c, s)
      PROVE  Maps
  <2>1. Point = "idle" /\ (Begins(SelectTransfers(c)) \/ (s \in Calls /\ Begins(s)))
    BY <1>0, <1>4, ChannelCallSeen
  <2>2. SelectTransfers(c) \in Seq(SwitchTransfers) \ {<<>>}
    BY TransferTyped
  <2>3. s \in Calls => s \in Seq(SwitchTransfers) \ {<<>>}
    BY CallsPlain, TransferTyped
  <2> QED
    BY <1>0, <2>1, <2>2, <2>3, BeginMaps DEF Running
<1>5. ASSUME NEW t \in Tasks, Forward(t) PROVE Maps
  <2>1. /\ Point = "returned"
        /\ \/ request # <<>> /\ Begins(request)
           \/ Point' = "returned" /\ UNCHANGED <<result, left, clean>>
    BY <1>0, <1>5, ForwardSeen
  <2>2. request \in Seq(SwitchTransfers)
    BY <1>0, TransferTyped DEF Typed, SwitchTyped
  <2> QED
    BY <1>0, <2>1, <2>2, BeginMaps, IdleMaps DEF Running
<1>6. ASSUME NEW t \in Tasks, LeaveCall(t) \/ SwitchSetup(t) PROVE Maps
  BY <1>0, <1>6, LeaveSeen, IdleMaps DEF Running
<1>7. ASSUME InterruptStep \/ CompleteTransfer \/ SwitchReset \/ UNCHANGED vars
      PROVE  Maps
  <2>1. UNCHANGED <<Point, lock, clean, result>>
    BY <1>0, <1>7, BusStepSeen
  <2>2. User' = User
    BY <1>0, <2>1, UserOf, PointTyped DEF Running
  <2>3. CASE \E ok \in BOOLEAN : CompletesWith(ok)
    <3>1. job # NoJob /\ \/ left' = left
                         \/ left > 0 /\ left' = left - 1
      BY <2>3, EndSeen
    <3>2. CASE left' = left
      BY <2>1, <2>2, <3>2 DEF Maps
    <3>3. CASE left > 0 /\ left' = left - 1
      <4>1. clean => User # NoTask
        BY <1>0, <3>1, UserOf DEF BusInv, OneSign, Quiet, Running
      <4>2. clean' <=> clean
        BY <2>1
      <4> QED
        BY <1>0, <2>1, <2>2, <3>3, <4>1, <4>2, MapsWhen
    <3> QED
      BY <3>1, <3>2, <3>3
  <2>4. CASE ~\E ok \in BOOLEAN : CompletesWith(ok)
    <3>1. left' = left
      BY <1>0, <1>7, <2>4, BusStepSeen
    <3> QED
      BY <2>1, <2>2, <3>1 DEF Maps
  <2> QED
    BY <2>3, <2>4
<1> QED
  BY <1>1, <1>2, <1>3, <1>4, <1>5, <1>6, <1>7 DEF Next, TaskStep, Application

(***************************************************************************)
(* The controller with its switch implements the abstract bus: one call at *)
(* a time, and success only when every byte was acknowledged, until a call *)
(* that failed has left something behind.                                  *)
(***************************************************************************)
THEOREM BusImplemented == Spec => ImplementsBus
<1>1. Init => Bus!Init
  <2> SUFFICES ASSUME Init PROVE Bus!Init
    OBVIOUS
  <2>1. Typed /\ Point = "idle"
    BY InitTyped DEF Init, I2CInit, Point
  <2>2. User = NoTask
    BY <2>1, UserOf DEF Running
  <2> QED
    BY <2>2 DEF Bus!Init, User, Init, I2CInit
<1>2. BusInv /\ BusInv' /\ [Next]_vars => [Bus!Next \/ Bus!Broken]_(Bus!busVars)
  BY NextMaps DEF Maps, User, Bus!busVars
<1> QED
  BY <1>1, <1>2, AlwaysBusInv, PTL DEF Spec, ImplementsBus, Bus!Spec
=============================================================================
