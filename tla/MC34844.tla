------------------------------- MODULE MC34844 -------------------------------
(***************************************************************************)
(* The LED driver MC34844: the object keeps a copy of registers 8 and 9,   *)
(* whose bits are the enabled channels, and the state of each channel.     *)
(* The light is off, by the PWM pin, while registers are written.  A       *)
(* register is the set of its channels, with Msb for its highest bit.  One *)
(* task sets the light, another one may force it off meanwhile.            *)
(***************************************************************************)
EXTENDS Integers, Sequences

CONSTANTS LowChannels, HighChannels,   \* 0..4 in register 8, 5..9 in register 9
          Msb,
          Dimmings                     \* values of setDimmungGlobal(), with 0

ASSUME McAssumption ==
    /\ LowChannels \cap HighChannels = {} /\ Msb \notin LowChannels \cup HighChannels
    /\ 0 \in Dimmings /\ Dimmings \subseteq Nat

VARIABLES mcOn,               \* _channelStates
          reg8, reg9,         \* the copies
          chip,               \* the registers of the chip
          pwmPin, forcedOff, lastValue,
          mcWrites, pinAfter, \* the call: writes to come, and what becomes of the pin
          overlapped          \* history: forceOff() came during a call that restores a lit pin

mcVars == <<mcOn, reg8, reg9, chip, pwmPin, forcedOff, lastValue, mcWrites, pinAfter, overlapped>>

Channels == LowChannels \cup HighChannels
NoWrites == <<>>
Dimming == 250     \* registers 0xF0 to 0xFA, whose values are left out
RegisterWrite(reg, value) == <<[reg |-> reg, value |-> value]>>

(***************************************************************************)
(* setup() with any mask of channels.  It ends in setDimmungGlobal(0).     *)
(***************************************************************************)
McInit ==
    /\ mcOn \in SUBSET Channels
    /\ reg8 = mcOn \cap LowChannels /\ reg9 = mcOn \cap HighChannels
    /\ chip = [r \in {8, 9, 128} |-> CASE r = 8 -> reg8 [] r = 9 -> reg9 [] OTHER -> {}]
    /\ pwmPin = FALSE /\ forcedOff = FALSE /\ lastValue = 0
    /\ mcWrites = NoWrites /\ pinAfter = "kept" /\ overlapped = FALSE

-----------------------------------------------------------------------------
(***************************************************************************)
(* The writes of disableChannel() and enableChannel(), from the copies     *)
(* before and after.  disableChannel() clears POWER_OFF in "register       *)
(* 0x80" (128).                                                            *)
(***************************************************************************)
DisableWrites(ch) ==
    RegisterWrite(8, reg8 \cup {Msb})
    \o (IF ch \in LowChannels THEN RegisterWrite(8, (reg8 \ {ch}) \cup {Msb})
                              ELSE RegisterWrite(9, reg9 \ {ch}))
    \o RegisterWrite(128, reg8 \ {ch})

(* Fault: POWER_ON is not taken away after the last step.                  *)
EnableWritesPowerOn(ch) ==
    RegisterWrite(9, reg9 \cup {Msb})
    \o (IF ch \in LowChannels THEN RegisterWrite(8, reg8 \cup {ch})
                              ELSE RegisterWrite(9, reg9 \cup {ch, Msb}))

EnableWrites(ch) ==
    RegisterWrite(9, reg9 \cup {Msb})
    \o (IF ch \in LowChannels THEN RegisterWrite(8, reg8 \cup {ch})
                              ELSE RegisterWrite(9, reg9 \cup {ch, Msb}))
    \o RegisterWrite(9, IF ch \in HighChannels THEN reg9 \cup {ch} ELSE reg9)

Begin(writes, pin) ==
    /\ pwmPin' = FALSE
    /\ mcWrites' = writes
    /\ pinAfter' = pin
    /\ UNCHANGED <<chip, forcedOff, overlapped>>

SetChannels(on) ==
    /\ mcOn' = on
    /\ reg8' = on \cap LowChannels /\ reg9' = on \cap HighChannels

OldPin == IF pwmPin THEN "high" ELSE "low"

SetDimmungChannel(ch) ==
    /\ mcWrites = NoWrites
    /\ \/ /\ ch \in mcOn                  \* to 0
          /\ Begin(DisableWrites(ch), OldPin)
          /\ SetChannels(mcOn \ {ch})
       \/ /\ Begin((IF ch \in mcOn THEN <<>> ELSE EnableWrites(ch)) \o RegisterWrite(Dimming, {}), OldPin)
          /\ SetChannels(mcOn \cup {ch})
    /\ UNCHANGED lastValue

SetDimmungGlobal(value) ==
    /\ mcWrites = NoWrites
    /\ value # lastValue
    /\ lastValue' = value
    /\ Begin(RegisterWrite(Dimming, {}), "global")
    /\ UNCHANGED <<mcOn, reg8, reg9>>

ForceOff(off) ==
    /\ forcedOff' = off
    /\ pwmPin' = (pwmPin /\ ~off)
    /\ overlapped' = (off /\ mcWrites # NoWrites /\ pinAfter = "high")
    /\ UNCHANGED <<mcOn, reg8, reg9, chip, lastValue, mcWrites, pinAfter>>

(***************************************************************************)
(* setRegisterValue(), and with the last one the pin.                      *)
(***************************************************************************)
(* Fault: setDimmungGlobal() does not look at _forcedOff.                  *)
PinForAnyValue ==
    CASE pinAfter = "high" -> TRUE
      [] pinAfter = "global" -> lastValue # 0
      [] OTHER -> FALSE

Pin ==
    CASE pinAfter = "high" -> TRUE
      [] pinAfter = "global" -> lastValue # 0 /\ ~forcedOff
      [] OTHER -> FALSE

SetRegisterValue ==
    /\ mcWrites # NoWrites
    /\ LET w == Head(mcWrites)
       IN  chip' = IF w.reg \in DOMAIN chip THEN [chip EXCEPT ![w.reg] = w.value] ELSE chip
    /\ mcWrites' = Tail(mcWrites)
    /\ IF Len(mcWrites) = 1
       THEN pwmPin' = Pin /\ pinAfter' = "kept"
       ELSE UNCHANGED <<pwmPin, pinAfter>>
    /\ UNCHANGED <<mcOn, reg8, reg9, forcedOff, lastValue, overlapped>>

McNext ==
    \/ \E ch \in Channels : SetDimmungChannel(ch)
    \/ \E value \in Dimmings : SetDimmungGlobal(value)
    \/ \E off \in BOOLEAN : ForceOff(off)
    \/ SetRegisterValue

McSpec == McInit /\ [][McNext]_mcVars

-----------------------------------------------------------------------------
(***************************************************************************)
(* Between calls the channels of the chip are those the object believes to *)
(* be enabled, and POWER_ON is not left behind (MC34844.cpp:179-246).      *)
(***************************************************************************)
McChannelsAgree ==
    mcWrites = NoWrites =>
        /\ chip[8] \ {Msb} = mcOn \cap LowChannels
        /\ chip[9] = mcOn \cap HighChannels

(***************************************************************************)
(* Registers are written with the light off; between calls it is on for a  *)
(* dimming other than 0 only, and not while it is forced off: neither by a *)
(* setDimmungGlobal() that was under way when forceOff() came, nor by any  *)
(* later call.  The exception is a setDimmungChannel() that was under way, *)
(* and restores the pin as it found it (MC34844.cpp:149-176).              *)
(***************************************************************************)
McDark ==
    pwmPin => mcWrites = NoWrites /\ lastValue # 0 /\ (forcedOff => overlapped)
=============================================================================
