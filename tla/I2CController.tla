---------------------------- MODULE I2CController ----------------------------
(***************************************************************************)
(* The I2C controller: a task takes the lock and sends one transfer after  *)
(* another; each is commanded, its status read, its end waited for, and    *)
(* the status read again.  The end is found by polling, or by a binary     *)
(* semaphore that the interrupt handler gives.  A wait can time out, and a *)
(* transfer left behind by one call ends during another.                   *)
(***************************************************************************)
EXTENDS I2CTransfers, FiniteSets

CONSTANTS Tasks, NoTask, NoJob,
          Calls,        \* the sequences of transfers callers ask for
          MaxSetups     \* bound: calls of setup()

ASSUME I2CAssumption ==
    /\ NoTask \notin Tasks
    /\ MaxSetups \in Nat \ {0}
    /\ Calls \subseteq Seq(TransfersTo({NoChannel})) \ {<<>>}

VARIABLES lock, pc, todo, result,             \* the tasks and _lock
          interruptsEnabled, canTimeOut,      \* _interruptsEnabled, _defaultTimeout
          semaphore, irq, unmasked,           \* the interrupt
          job, failed, held,                  \* the peripheral and the bus
          setups, left, clean                 \* history

taskVars == <<lock, pc, todo, result>>
configVars == <<interruptsEnabled, canTimeOut, unmasked, setups>>
busVars == <<job, failed, held>>
i2cVars == <<taskVars, configVars, semaphore, irq, busVars, left, clean>>

(***************************************************************************)
(* setup()'s dummy receive, which differs from read8() in that the status  *)
(* is not read at all.                                                     *)
(***************************************************************************)
Dummy == Transfer(TRUE, TRUE, TRUE, FALSE)

(***************************************************************************)
(* The points of a call between which the interrupt handler or the bus can *)
(* act.  At "returned" the result is known and the lock still held.        *)
(***************************************************************************)
Running == {"control", "check", "wait", "error", "data"}

I2CInit ==
    /\ lock = NoTask
    /\ pc = [t \in Tasks |-> "idle"]
    /\ todo = [t \in Tasks |-> <<>>]
    /\ result = "ok"
    /\ interruptsEnabled = FALSE
    /\ canTimeOut = FALSE
    /\ unmasked = FALSE
    /\ semaphore = TRUE
    /\ irq = FALSE
    /\ job = NoJob
    /\ failed = FALSE
    /\ held = FALSE
    /\ setups = 0
    /\ left = 0
    /\ clean = TRUE

(***************************************************************************)
(* The peripheral.  It ignores a command while it is busy; a transfer      *)
(* without a stop leaves the bus held.  Slaves may refuse a byte.          *)
(***************************************************************************)
MasterErr == job = NoJob /\ failed

CompletesWith(ok) ==
    /\ job # NoJob
    /\ job' = NoJob
    /\ failed' = ~ok
    /\ held' = ~job.transfer.stop
    /\ irq' = unmasked
    /\ left' = IF ok /\ left > 0 THEN left - 1 ELSE left
    /\ UNCHANGED <<taskVars, configVars, semaphore, clean>>

HandleInterrupt ==
    /\ irq
    /\ irq' = FALSE
    /\ semaphore' = TRUE
    /\ UNCHANGED <<taskVars, configVars, busVars, left, clean>>

(***************************************************************************)
(* A call.  Something is left behind when it returns while a transfer is   *)
(* in progress or the sign of one's end has not been consumed: from then   *)
(* on "clean" is false.                                                    *)
(***************************************************************************)
LeftBehind == job # NoJob \/ irq \/ (interruptsEnabled /\ semaphore)

Start(t, s) ==
    /\ pc' = [pc EXCEPT ![t] = "control"]
    /\ todo' = [todo EXCEPT ![t] = s]
    /\ left' = Len(s)

Finish(t, r) ==
    /\ pc' = [pc EXCEPT ![t] = "returned"]
    /\ todo' = [todo EXCEPT ![t] = <<>>]
    /\ result' = r
    /\ left' = 0
    /\ clean' = (clean /\ ~LeftBehind)

(* Fault: the last transfer is not recognised.                             *)
AdvancePastEnd(t) ==
    /\ pc' = [pc EXCEPT ![t] = "control"]
    /\ todo' = [todo EXCEPT ![t] = Tail(todo[t])]
    /\ UNCHANGED <<result, left, clean>>

Advance(t) ==
    IF Len(todo[t]) = 1 THEN Finish(t, "ok")
    ELSE /\ pc' = [pc EXCEPT ![t] = "control"]
         /\ todo' = [todo EXCEPT ![t] = Tail(todo[t])]
         /\ UNCHANGED <<result, left, clean>>

Control(t) ==
    /\ pc[t] = "control"
    /\ pc' = [pc EXCEPT ![t] = "check"]
    /\ job' = IF job = NoJob THEN [by |-> t, transfer |-> Head(todo[t])] ELSE job
    /\ UNCHANGED <<lock, todo, result, configVars, semaphore, irq, failed, held, left, clean>>

(* Fault: a stale semaphore is taken away after the command was given.     *)
CheckAndReset(t) ==
    /\ pc[t] = "check"
    /\ IF MasterErr THEN Finish(t, "error")
       ELSE /\ pc' = [pc EXCEPT ![t] = "wait"]
            /\ UNCHANGED <<todo, result, left, clean>>
    /\ semaphore' = (semaphore /\ ~interruptsEnabled)
    /\ UNCHANGED <<lock, configVars, irq, busVars>>

Check(t) ==
    /\ pc[t] = "check"
    /\ IF MasterErr THEN Finish(t, "error")
       ELSE /\ pc' = [pc EXCEPT ![t] = "wait"]
            /\ UNCHANGED <<todo, result, left, clean>>
    /\ UNCHANGED <<lock, configVars, semaphore, irq, busVars>>

(***************************************************************************)
(* waitFinish(): the semaphore, or the busy flag.                          *)
(***************************************************************************)
TakeSemaphore(t) ==
    /\ pc[t] = "wait" /\ interruptsEnabled /\ semaphore
    /\ semaphore' = FALSE
    /\ pc' = [pc EXCEPT ![t] = "error"]
    /\ UNCHANGED <<lock, todo, result, configVars, irq, busVars, left, clean>>

SeeNotBusy(t) ==
    /\ pc[t] = "wait" /\ ~interruptsEnabled /\ job = NoJob
    /\ pc' = [pc EXCEPT ![t] = "error"]
    /\ UNCHANGED <<lock, todo, result, configVars, semaphore, irq, busVars, left, clean>>

TimeOut(t) ==
    /\ pc[t] = "wait"
    /\ canTimeOut \/ Head(todo[t]) = Dummy
    /\ IF interruptsEnabled THEN ~semaphore ELSE job # NoJob
    /\ Finish(t, "timeout")
    /\ UNCHANGED <<lock, configVars, semaphore, irq, busVars>>

(* Fault: the status is not read after the wait.                           *)
ReadErrIgnored(t) ==
    /\ pc[t] = "error"
    /\ Advance(t)
    /\ UNCHANGED <<lock, configVars, semaphore, irq, busVars>>

ReadErr(t) ==
    /\ pc[t] = "error"
    /\ IF MasterErr THEN Finish(t, "error")
       ELSE IF Head(todo[t]).again
       THEN pc' = [pc EXCEPT ![t] = "data"] /\ UNCHANGED <<todo, result, left, clean>>
       ELSE Advance(t)
    /\ UNCHANGED <<lock, configVars, semaphore, irq, busVars>>

ReadErrAgain(t) ==
    /\ pc[t] = "data"
    /\ IF MasterErr THEN Finish(t, "error") ELSE Advance(t)
    /\ UNCHANGED <<lock, configVars, semaphore, irq, busVars>>

TransferStep(t) ==
    \/ Control(t) \/ Check(t)
    \/ TakeSemaphore(t) \/ SeeNotBusy(t) \/ TimeOut(t)
    \/ ReadErr(t) \/ ReadErrAgain(t)

(***************************************************************************)
(* Entering and leaving a call; setup() resets the peripheral and its      *)
(* interrupt mask, but never clears _interruptsEnabled, and ends with a    *)
(* dummy receive of which it ignores the result.  Nobody uses a controller *)
(* that was never set up.                                                  *)
(***************************************************************************)
Lock(t) ==
    /\ lock = NoTask /\ pc[t] = "idle"
    /\ lock' = t

Call(t, s) ==
    /\ setups > 0
    /\ Lock(t)
    /\ Start(t, s)
    /\ UNCHANGED <<result, configVars, semaphore, irq, busVars, clean>>

Setup(t, doEnableInterrupts, finiteTimeout) ==
    /\ setups < MaxSetups
    /\ Lock(t)
    /\ setups' = setups + 1
    /\ canTimeOut' = finiteTimeout
    /\ interruptsEnabled' = (interruptsEnabled \/ doEnableInterrupts)
    /\ unmasked' = doEnableInterrupts
    /\ semaphore' = (semaphore /\ ~doEnableInterrupts)
    /\ irq' = FALSE
    /\ failed' = FALSE
    /\ held' = FALSE
    /\ job' = [by |-> t, transfer |-> Dummy]
    /\ pc' = [pc EXCEPT ![t] = "wait"]
    /\ todo' = [todo EXCEPT ![t] = <<Dummy>>]
    /\ left' = 1
    /\ UNCHANGED <<result, clean>>

Leave(t) ==
    /\ pc[t] = "returned"
    /\ pc' = [pc EXCEPT ![t] = "idle"]
    /\ lock' = NoTask
    /\ UNCHANGED <<todo, result, configVars, semaphore, irq, busVars, left, clean>>

-----------------------------------------------------------------------------
(***************************************************************************)
(* Types; who is inside a call holds the lock, and a running one has a     *)
(* transfer to do.                                                         *)
(***************************************************************************)
I2CTypeOK ==
    /\ lock \in Tasks \cup {NoTask}
    /\ pc \in [Tasks -> Running \cup {"idle", "returned"}]
    /\ result \in {"ok", "error", "timeout"}
    /\ {interruptsEnabled, canTimeOut, semaphore, irq, unmasked, failed, held, clean}
           \subseteq BOOLEAN
    /\ job = NoJob \/ job.by \in Tasks
    /\ setups \in 0..MaxSetups
    /\ left \in Nat
    /\ \A t \in Tasks : /\ pc[t] # "idle" <=> lock = t
                        /\ pc[t] \in Running <=> todo[t] # <<>>

(***************************************************************************)
(* The bus is kept, with no stop condition sent, only by a call that       *)
(* failed: after a call that succeeded it is free, unless something had    *)
(* been left behind before (the sequences of I2CTransfers, Advance()).     *)
(***************************************************************************)
BusReleased == clean /\ lock = NoTask /\ result = "ok" => ~held

(***************************************************************************)
(* The abstract bus this implements.  A transfer counts for the call that  *)
(* is running.                                                             *)
(***************************************************************************)
Bus == INSTANCE I2CBus WITH
           user <- IF \E t \in Tasks : pc[t] \in Running
                   THEN CHOOSE t \in Tasks : pc[t] \in Running ELSE NoTask,
           missing <- left,
           outcome <- result,
           trusted <- clean
=============================================================================
