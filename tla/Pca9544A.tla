------------------------------- MODULE Pca9544A -------------------------------
(***************************************************************************)
(* The bus switch and its channels on top of the I2C controller.  A call   *)
(* through a channel first sends the switch one byte that selects the      *)
(* channel, unless the driver thinks it is selected already, then the      *)
(* transfers to the device; the lock is held throughout.  Others use the   *)
(* controller directly for devices before the switch.  The switch acts on  *)
(* the byte when it has acknowledged it, and may be reset by its pin.      *)
(***************************************************************************)
EXTENDS I2CController

CONSTANT Channels

SwitchTransfers == TransfersTo(Channels \cup {NoChannel})

ASSUME ChannelsAssumption ==
    /\ NoChannel \notin Channels
    /\ NoJob \notin [by : Tasks, transfer : SwitchTransfers]

VARIABLES activeBus,   \* _activeBus: what the driver thinks is selected
          phase,       \* "select" or "transfer": what the task in a call does
          channel,     \* the channel a task's call is for, or NoChannel
          request,     \* the transfers to do when the channel is selected
          selected     \* the channel the switch connects

switchVars == <<activeBus, phase, channel, request>>
vars == <<i2cVars, switchVars, selected>>

Init ==
    /\ I2CInit
    /\ activeBus = NoChannel
    /\ phase = "transfer"
    /\ channel = NoChannel
    /\ request = <<>>
    /\ selected = NoChannel

(***************************************************************************)
(* The switch as a slave.                                                  *)
(***************************************************************************)
CompleteTransfer ==
    \E ok \in BOOLEAN :
        /\ CompletesWith(ok)
        /\ selected' = IF ok /\ job.transfer.channel # NoChannel
                       THEN job.transfer.channel ELSE selected
        /\ UNCHANGED switchVars

SwitchReset ==
    /\ selected' = NoChannel
    /\ UNCHANGED <<i2cVars, switchVars>>

(***************************************************************************)
(* A call through a channel: Pca9544AI2cChannel locks, selects and calls   *)
(* the method of Pca9544A that forwards to the controller.  selectBus()    *)
(* alone is a call with nothing to transfer, and writeToBus() and          *)
(* readFromBus() are calls like those of the channels.                     *)
(***************************************************************************)
SelectTransfers(c) == <<[Transfer(FALSE, TRUE, TRUE, TRUE) EXCEPT !.channel = c]>>

ChannelCall(t, c, s) ==
    /\ setups > 0
    /\ Lock(t)
    /\ channel' = c
    /\ IF activeBus = c
       THEN s # <<>> /\ Start(t, s) /\ phase' = "transfer" /\ request' = <<>>
       ELSE Start(t, SelectTransfers(c)) /\ phase' = "select" /\ request' = s
    /\ UNCHANGED <<result, configVars, semaphore, irq, busVars, clean, activeBus, selected>>

(* Fault: the forwarding methods do not refuse when no channel is active.  *)
ForwardAlways(t) ==
    /\ pc[t] = "returned" /\ phase = "select"
    /\ activeBus' = IF result = "ok" THEN channel ELSE NoChannel
    /\ phase' = "transfer"
    /\ request' = <<>>
    /\ IF request # <<>>
       THEN Start(t, request) /\ UNCHANGED <<lock, result, clean>>
       ELSE UNCHANGED <<taskVars, left, clean>>
    /\ UNCHANGED <<configVars, semaphore, irq, busVars, channel, selected>>

Forward(t) ==
    /\ pc[t] = "returned" /\ phase = "select"
    /\ activeBus' = IF result = "ok" THEN channel ELSE NoChannel
    /\ phase' = "transfer"
    /\ request' = <<>>
    /\ IF activeBus' # NoChannel /\ request # <<>>
       THEN Start(t, request) /\ UNCHANGED <<lock, result, clean>>
       ELSE UNCHANGED <<taskVars, left, clean>>
    /\ UNCHANGED <<configVars, semaphore, irq, busVars, channel, selected>>

LeaveCall(t) ==
    /\ phase = "transfer"
    /\ Leave(t)
    /\ channel' = NoChannel
    /\ UNCHANGED <<activeBus, phase, request, selected>>

(***************************************************************************)
(* Pca9544A::setup(), which forgets the channel.                           *)
(***************************************************************************)
SwitchSetup(t) ==
    /\ Lock(t)
    /\ pc' = [pc EXCEPT ![t] = "returned"]
    /\ activeBus' = NoChannel
    /\ UNCHANGED <<todo, result, configVars, semaphore, irq, busVars, left, clean,
                   phase, channel, request, selected>>

-----------------------------------------------------------------------------
TaskStep(t) ==
    \/ TransferStep(t) /\ UNCHANGED <<switchVars, selected>>
    \/ Forward(t)
    \/ LeaveCall(t)

Application(t) ==
    \/ \E s \in Calls : Call(t, s) /\ UNCHANGED <<switchVars, selected>>
    \/ \E doEnableInterrupts, finiteTimeout \in BOOLEAN :
           Setup(t, doEnableInterrupts, finiteTimeout) /\ UNCHANGED <<switchVars, selected>>
    \/ \E c \in Channels, s \in Calls \cup {<<>>} : ChannelCall(t, c, s)
    \/ SwitchSetup(t)

InterruptStep == HandleInterrupt /\ UNCHANGED <<switchVars, selected>>

Next ==
    \/ \E t \in Tasks : TaskStep(t) \/ Application(t)
    \/ InterruptStep
    \/ CompleteTransfer
    \/ SwitchReset

(***************************************************************************)
(* A task in a call goes on, the interrupt is taken, and the bus ends      *)
(* every transfer, if only by its clock timeout.                           *)
(***************************************************************************)
Fairness ==
    /\ \A t \in Tasks : WF_vars(TaskStep(t))
    /\ WF_vars(InterruptStep)
    /\ WF_vars(CompleteTransfer)

Spec == Init /\ [][Next]_vars /\ Fairness

-----------------------------------------------------------------------------
(***************************************************************************)
(* Types of the controller and the switch.                                 *)
(***************************************************************************)
TypeOK ==
    /\ I2CTypeOK
    /\ activeBus \in Channels \cup {NoChannel}
    /\ phase \in {"select", "transfer"}
    /\ channel \in Channels \cup {NoChannel}
    /\ selected \in Channels \cup {NoChannel}
    /\ phase = "select" => lock # NoTask /\ channel # NoChannel

(***************************************************************************)
(* A transfer through a channel never reaches a device on another channel, *)
(* whatever selecting the channel returned, as the cached channel is       *)
(* cleared when a selection fails, and even if the switch was reset: then  *)
(* no device is reached.  Without the word "clean" this is false: after a  *)
(* timeout the end of an old selection is taken for that of a new one, and *)
(* the cache is wrong from then on (Pca9544A.cpp:122).                     *)
(***************************************************************************)
OnNamedChannel ==
    clean /\ job # NoJob /\ phase = "transfer" /\ channel # NoChannel
        => selected \in {channel, NoChannel}

(***************************************************************************)
(* One call at a time has the bus, and a call that succeeds had every byte *)
(* acknowledged, in either way of waiting, until a failed call leaves      *)
(* something behind (I2CController.cpp:132-156).                           *)
(***************************************************************************)
ImplementsBus == Bus!Spec

(***************************************************************************)
(* Every call ends: the one wait for each command finds the semaphore even *)
(* when earlier transfers left it given or end late.  Except after a       *)
(* setup() without interrupts that follows one with them: that masks the   *)
(* interrupt, but waitFinish() still waits for the semaphore.              *)
(***************************************************************************)
CallsEnd ==
    \A t \in Tasks : lock = t ~> (lock # t \/ (interruptsEnabled /\ ~unmasked))
=============================================================================
