---------------------------- MODULE RotaryEncoder ----------------------------
(***************************************************************************)
(* RotaryEncoder: update() compares the pins with those of its last call,  *)
(* read() hands out full steps and keeps the rest.  update() may be called *)
(* in interrupt context and come between the two accesses of read().       *)
(***************************************************************************)
EXTENDS Integers

CONSTANTS StepTypes,     \* quarter steps per step: 1, 2, 4
          MaxTurn        \* bound: how far the shaft turns, and no
                         \* further once a position was missed

ASSUME EncoderAssumption == StepTypes \subseteq Nat \ {0} /\ MaxTurn \in Nat

VARIABLES shaft, sampled,      \* position now, and at the last update()
          encType, encDelta, encLast, encInit,     \* _type, _delta, _last, _isInitialized
          reading,             \* read() is between its two accesses
          handedOut, start, missed   \* history: quarter steps returned by read(), position at
                               \* the first update(), a position or an update() was missed

encVars == <<shaft, sampled, encType, encDelta, encLast, encInit, reading, handedOut, start, missed>>

EncInit ==
    /\ shaft \in 0..3 /\ sampled = shaft /\ start = shaft
    /\ encType \in StepTypes
    /\ encDelta = 0 /\ encLast = 0 /\ encInit = FALSE
    /\ reading = FALSE /\ handedOut = 0 /\ missed = FALSE

(***************************************************************************)
(* The pins show the position modulo 4 in a Gray code, which update()      *)
(* decodes to that number again.                                           *)
(***************************************************************************)
Turn(by) ==
    /\ shaft + by \in -MaxTurn..MaxTurn /\ ~missed
    /\ shaft' = shaft + by
    /\ UNCHANGED <<sampled, encType, encDelta, encLast, encInit, reading, handedOut, start, missed>>

(* Fault: the change from the highest position to 0 is not looked at.      *)
DirectionWithoutWrap(diff) == -diff

(* (diff & 2) - 1, in two's complement.                                    *)
Direction(diff) == ((diff \div 2) % 2) * 2 - 1

FirstUpdate ==
    /\ ~encInit
    /\ encInit' = TRUE
    /\ encLast' = shaft % 4 /\ encDelta' = 0
    /\ start' = shaft
    /\ UNCHANGED missed

Update ==
    /\ encInit
    /\ LET diff == encLast - (shaft % 4)
       IN  IF diff % 2 = 1
           THEN encLast' = shaft % 4 /\ encDelta' = encDelta + Direction(diff)
           ELSE UNCHANGED <<encLast, encDelta>>
    /\ missed' = (missed \/ shaft - sampled \notin -1..1 \/ (reading /\ shaft # sampled))
    /\ UNCHANGED <<encInit, start>>

UpdateEncoder ==
    /\ FirstUpdate \/ Update
    /\ sampled' = shaft
    /\ UNCHANGED <<shaft, encType, reading, handedOut>>

Rest == encDelta % encType

BeginEncoderRead ==
    /\ encInit /\ ~reading
    /\ handedOut' = handedOut + encType * (encDelta \div encType)
    /\ reading' = TRUE
    /\ UNCHANGED encDelta

EndEncoderRead ==
    /\ reading
    /\ encDelta' = Rest
    /\ reading' = FALSE
    /\ UNCHANGED handedOut

ReadEncoder ==
    /\ BeginEncoderRead \/ EndEncoderRead
    /\ UNCHANGED <<shaft, sampled, encType, encLast, encInit, start, missed>>

EncNext == Turn(1) \/ Turn(-1) \/ UpdateEncoder \/ ReadEncoder

-----------------------------------------------------------------------------
(***************************************************************************)
(* What read() returned and what it still keeps is how far the shaft has   *)
(* turned, in both directions and across the wrap of the code, as long as  *)
(* update() sees every position and does not come within read()            *)
(* (RotaryEncoder.cpp:34-78).                                              *)
(***************************************************************************)
EncoderCounts ==
    encInit /\ ~reading /\ ~missed => handedOut + encDelta = sampled - start
=============================================================================
