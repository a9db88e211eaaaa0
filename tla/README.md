# openstella in TLA+

openstella is a C++ library for Stellaris (ARM Cortex-M) microcontrollers on
FreeRTOS: drivers for CAN, I2C, SPI, UART, LIN, USB, timers and ADC, drivers of
chips behind them, and small containers. This directory holds TLA+ models of
its concurrent parts, the TLC runs that check them on small instances, and
theorems about them whose proofs TLAPS checks. Paths below are relative to
`src/`.

## 1. The system

### Execution model

One core. Tasks are preemptive FreeRTOS tasks; an interrupt handler preempts
every task and is not preempted by one, so a handler is one step and a task is
as many steps as there are points where something else can observe or change
what it works on. Queues, mutexes and semaphores are thin wrappers of FreeRTOS
(`OS/`). `Task::stop()` is `vTaskDelete`: the task ends where it is and what it
holds stays taken. `Task::getTime()` is the tick count divided by 4, so it
falls from 2^30 - 1 ms to 0 after 12.4 days.

### Components, their state and what makes them correct

| Component | State | Operations and callers | Hard behaviour | Correct when |
|---|---|---|---|---|
| CAN receive (`CAN/CANController.cpp`, `CAN/CANObserver.cpp`) | 16 receive mailboxes, 16 software message objects ("swmobs"), two queues of indices, the observer list under `_observerMutex` | interrupt handler; `execute()` in the CAN task; `registerObserver`, `unregisterObserver`, `getCANMessage`, `enable`, `disable` in application tasks | handler against task against readers; full queues; the task deleted inside a critical section | no swmob or message lost, duplicated or shared; what is fetched is dispatched, in order, once per matching registration |
| CAN message pool (`CAN/CANMessagePool.h`) | entries with an in-use flag, under a lock | `getMessage` by the CAN task, `returnMessage` by it and by readers | pool exhausted; late returns | an entry has one owner at most |
| CAN transmit (`CAN/CANController.cpp`) | 16 transmit mailboxes, `_silent`, `_sendMessageMutex` | `sendMessage` by any task, `setSilent`, recovery from bus errors in the CAN task | no acknowledge on the bus; recovery between check and use; 8-bit try counter against a 32-bit limit | no requested frame overwritten, every send ends (not with a time to wait from 255 ms on), silence as asked for |
| Cyclic messages (`CAN/CANCyclicMessage.cpp`, `generics/FragmentedList.h`) | a list under its lock; per message interval, next-send time, enabled, data | `sendCyclicCANMessages` in the CAN task; registration and setters in application tasks | late passes; double registration; time wrap; a message destroyed while in use | sent at its interval, never faster, for ever; in use only while registered |
| I2C (`I2CController.cpp`) and its switch (`peripherals/Pca9544A.cpp`) | completion semaphore, interrupts enabled; cached active channel | transfers under a recursive mutex; the interrupt gives the semaphore | late interrupt after a timeout; a transfer that fails half way; a stale cache | each wait ends with its own transfer; a transfer reaches the channel it names |
| UART and LIN (`UART.cpp`, `LIN/`) | receive queue; LIN frame in progress | interrupt handler, `getChar`, `readUntil`, `receiveFrame` | full queue, timeouts, late bytes, construction race | bytes in order, up to the terminator (of several bytes it may stop after the first); a frame accepted is the slave's answer |
| SPI and uDMA (`SPI.cpp`, `UDMAController.cpp`) | two DMA-active flags, two semaphores, the bytes in the FIFOs | `read`, `write`, `writeAndRead`, interrupt | completion in either order | every transfer ends, after its data |
| USB CDC and mouse (`USB/USBDevice.cpp`, `USB/USBCDCDevice.cpp`, `USB/USBMouseDevice.cpp`) | transmit and receive semaphores; state, its semaphore, connection | events of the USB stack, `readBuffer`, `writeBuffer`, `sendMouseEvent` | disconnect in the middle, semaphores left over | no lost wake-up; a report counts as sent when it was |
| Containers and filters (`generics/`) | values | sequential | boundaries | equal to a plain definition |
| Rotary encoder (`util/RotaryEncoder.cpp`) | quarter steps, last code | `update` in an interrupt, `read` | wrap of the code, `update` within `read` | no step lost or invented |
| Chip drivers (`peripherals/`) | register shadows | sequential over I2C | misdirected writes, the pin that turns the light off | the shadow equals the chip |
| Timers, PWM, ADC, GPIO, watchdog | configuration shadows | mostly one vendor call each | two tasks on one sequencer | one channel's set-up keeps the other's |
| `attic/`, `PinMap.cpp` (generated), `main.cpp`, USB descriptors | tables, unused code | - | - | not modelled |

The components meet in few places: CAN messages travel from the interrupt
handler over index queues to the CAN task, over pooled messages to readers; the
CAN task alone runs dispatching, cyclic sending and recovery; the I2C switch,
the chip drivers and LIN call the controllers synchronously under their locks.
`PROJECT.json` lists every component with its status, and under `hazards`, at
its line, what can go wrong and which property would show it.

## 2. The modules

| Module | Contents |
|---|---|
| `CANMessagePool` | `getMessage()`, `returnMessage()` as operators on the entries |
| `CANObserverList` | the observer list with its fragments: matching, registering, unregistering |
| `CANReceive` | the receive path: peripheral, interrupt handler, CAN task, readers, registration, `enable()`/`disable()` |
| `CANDelivery` | what the receive path promises: a backlog of frames, a set of registrations, a box per observer |
| `CANReceiveDelivery` | the refinement mapping from `CANReceive` to `CANDelivery` |
| `FragmentedList` | `addItem()`, `removeItem()` as operators on the slots |
| `CANSend` | the transmit path: mailboxes, `sendMessage()`, cyclic messages, recovery, `setSilent()`, time |
| `QueueLemmas` | lemmas about queues of distinct elements, minima |
| `CANReceiveProofs`, `CANDeliveryProofs`, `CANSendProofs` | the theorems about the CAN controller: receive path, its refinement of `CANDelivery`, transmit path |
| `I2CProofs` | the theorems about the I2C controller and its switch, with the refinement of `I2CBus` |
| `SerialProofs`, `USBProofs` | the theorems about UART, LIN and SPI, and about USB |
| `DriverProofs` | the theorems about the other parts of `Devices`, and the types of all of them |
| `I2CTransfers` | what each method of `I2CController` puts on the bus, as a sequence of byte transfers, with the index of `read()` that wraps |
| `I2CBus` | what the controller promises: one call at a time, success only when every byte was acknowledged |
| `I2CController` | a call step by step: command, status, wait by semaphore or by polling, timeouts, interrupt, `setup()` |
| `Pca9544A` | the bus switch and its channels on top of the controller: cached channel, forwarding, reset of the switch |
| `I2CMethods` | the methods one after another on a bus that does not fail: framing, words and byte order |
| `UART` | the FIFO, the interrupt handler, the queue, and `read()`, `readUntil()`, `readLine()` |
| `LIN` | a master, a slave and the line between them |
| `SPI` | the calls with DMA, the interrupt handler, the two FIFOs |
| `USBDevices` | a CDC device with a reader and a writer, and a mouse |
| `CANCyclicMessage` | the data of a cyclic message: setters under its lock, the CAN task without it |
| `MC34844` | the LED driver: register copies, chip, PWM pin, `forceOff()` |
| `RotaryEncoder`, `Containers` | the decoder against the shaft; lists, hash table, ring buffer, moving average |
| `Devices` | the parts from `UART` down (and `I2CMethods`) in one specification |
| `MCCANReceive`, `MCCANSend`, `MCPca9544A`, `MCDevices`, `MCUART` | values of the constants for TLC |

Names follow the source: `FetchRx` and `FetchTx` are the two ways through the
loop of `handleInterrupt()`, `freeSwMobs` is `_freeSwMobs`, and so on; the map
in `PROJECT.json` gives the lines of every definition. A definition whose
comment begins with "Fault:" is not the code: it is a plausible mistake in the
definition after it, kept to show that a property would notice it.

**Receive.** The program counter `pc` of the CAN task has one value for each
point of `execute()`, `notifyObservers()`, `getMessage()` and `returnMessage()`
where it can be preempted, blocked or deleted; `num`, `slot` and `msg` are its
locals. A reader has three steps, take, assign and return, like
`getCANMessage()`. A CAN identifier is the set of its bits, a filter a pair of
such sets, so that masking is intersection. The order in which an interrupt
handler sees mailboxes (lowest first) and the FIFO the peripheral makes of them
are modelled, because lost frames depend on them.

**Transmit.** A task in `sendMessage()` polls for a mailbox, then sets it, two
steps between which the peripheral, a recovery or a deletion may come. The
tries are counted as the code counts them, in a counter that wraps (`TryWrap`,
256 in the code), against a time to wait that the application may set at any
moment (`WaitTimes`). The CAN task walks the cyclic messages, with the list's lock taken, as
`sendCyclicCANMessages()` does; the catch-up loop makes one addition in a step.
Time is a counter that wraps (`TimeWrap`), next-send times wrap later
(`WordWrap`). Of a frame only the sender is kept. The receive half of
`execute()` is left out here, as it changes nothing that sending uses; that a
flood of frames can keep the CAN task from this half is listed as a hazard.
`enable()` is called only when the task is stopped.

**I2C.** A method is a sequence of transfers (`I2CTransfers`); `I2CController`
runs it: command (`Control`), status (`Check`), wait (`TakeSemaphore`,
`SeeNotBusy`, `TimeOut`), status once or twice (`ReadErr`, `ReadErrAgain`), with
the interrupt handler and the end of the transfer (`CompletesWith`, external)
between any two. A command that comes while the peripheral is busy is ignored,
as a call after a timeout may find. The history variable `clean` is true until
a call returns with a transfer in progress, an interrupt pending or an
unconsumed semaphore: from then on a wait may end with the end of another
transfer, and neither the refinement nor the cached channel is sure.
`Pca9544A` extends the controller: a call through a channel selects first,
unless the cache says it need not, and forwards if the cache names a channel.
The recursive lock is one lock held for the whole call; since the channels, the
forwarding methods and the controller take the same lock, that is exact.

**Devices.** The parts share no state and no task, so `Devices` chooses one in
the initial state and runs it: the state space is the sum and not the product.
Each keeps the steps that matter. `UART` has the handler's loop byte by byte
while bytes go on arriving. In `LIN` both sides hear every byte; the checksum is
taken as injective and a byte as a tuple of its meaning, of which 0x55 is the
only one that two meanings share. In `SPI` a byte carries the number of the call
that sent it, so that bytes of an earlier call are seen. In `USBDevices` every
event may come between any two steps of a call. `CANCyclicMessage` has bytes as
sets of bits. In `MC34844` every register write is a step, so that `forceOff()`
comes between them; a register is the set of its channels. In `RotaryEncoder`
`update()` may come within `read()`, which then loses or doubles quarter steps:
the property is about the other times, and the history variable says which.

## 3. The runs

| Run | Checks | Instance and bounds |
|---|---|---|
| `can_receive` | `TypeOK`, `SwMobsConserved`, `FetchedIsDispatched` | two receive mailboxes and a transmit one, two swmobs (so the handler runs out of them), one observer with a queue of one (so messages are thrown away), a pool of one, two frames of which the filter takes one, one `disable()` |
| `can_dispatch` | `PoolOwnership`, `DeliversInOrder` (refinement of `CANDelivery`) | two observers that share two pooled messages and fragments of one slot, so the list grows; one `disable()` |
| `can_send` | `TypeOK`, `MobExclusive`, `ItemStaysRegistered`, `CyclicRate` | an application task and the CAN task, two mailboxes, one cyclic message that can be entered twice, intervals 2 and 3, time 0 to 3, times to wait 0 and 1 for a counter that wraps at 2, one `disable()` |
| `can_send_forever` (violation) | `SendReturns` | as before; times to wait 2 and 3 for a counter that wraps at 4, so that it exceeds the one and not the other; time stands still |
| `can_disable` (violation) | `EnabledTaskDispatches` | the smallest instance of the receive path with one `disable()` |
| `can_overload` (violation) | `NoForgottenMailbox` | two mailboxes, two swmobs |
| `can_silent` (violation) | `SilentAsSet` | no time, no `disable()` |
| `can_wrap` (violation) | `CyclicKeepsSending` | time wraps at 4, next-send times at 16 |
| `i2c` | `TypeOK`, `OnNamedChannel`, `BusReleased`, `ImplementsBus` (refinement of `I2CBus`), `CallsEnd` | two tasks, two channels, calls that write a byte and read one after a repeated start, two calls of `setup()` with either way of waiting and with and without timeout |
| `devices` | 19 invariants, `LinReceiveEnds`, `SpiEnds` | see below |
| `uart_terminator` (violation) | `UartFindsTerminator` | the UART of `devices` alone |
| `can_torn` (violation) | `CyclicFrameIsWhole` | two setters, three calls, two bytes of one bit |

Why these bounds are enough to be interesting: every queue, pool, list and set
of mailboxes has the smallest size at which it can be both full and empty and
in which two users can meet; with two frames, order and loss are visible; one
`disable()` at every point of the task covers every lock it can leave taken.
`LastTime`, `MaxSlots`, `CountCap` and `MaxStops` are bounds of the models; all
other constants are sizes of the code. For `CyclicRate`, time 0 to 3 holds two
sendings at the shortest interval, a late pass and a change of the interval.
`MaxSetups` of `i2c` is 2, the least at which a `setup()` follows another with
the other way of waiting. In it a call has two transfers, the least that can
fail half way, and both directions; a selection is a third.

The bounds of `devices`: a UART FIFO of 2 and a queue of 3 with 4 arrivals, so
that each overflows, terminators of one and two bytes, buffers of 1 and 3;
LIN with two headers out of two identifiers, one published by the slave and one
by the master, with 0x55 or another value as data, a FIFO of 2 and a queue of 4,
the least that keeps a whole frame of the master for a later receive;
SPI with three calls of one or two bytes, as the bits of
the first and the bytes of the second show in the third; USB with packets of
one to three bytes, reads of one or two, and three connections; two setters and
two calls on two bytes; words of bytes with two values in both byte orders, and
counts 0, 1, 3, 4 and 5 for an index that wraps at 4: nothing to transfer, below
the wrap, at it and beyond; four channels of MC34844; a shaft that turns up to 4 quarter
steps either way; lists up to five items of three keys; a ring of three with
five pushes. The deadlock check is off there, because the inputs are bounded
and because `SPI::write()` stops for ever. The properties, by part:

| Part | Property | Says |
|---|---|---|
| UART | `UartNoneLeftBehind`, `UartStopsAtTerminator` | no byte stays in the FIFO without an interrupt; a read goes no further than its first terminator, and ends without one and without a full buffer only when it is cut short after its first byte |
| LIN | `LinAcceptsPublished`, `LinCalledForHeaders`, `LinReceiveEnds` | an accepted frame was published for its identifier; the slave answers headers only; a receive ends |
| SPI | `SpiReadsItsBytes`, `SpiEnds` | a read returns its own bytes, all of them; a call ends, except `write()` |
| USB | `UsbReaderWakes`, `UsbWriterWakes`, `UsbSenderWakes`, `UsbTrueWhenSent` | no wake-up is lost; true means sent |
| cyclic message | `CyclicSetsAddUp` | no setter undoes another |
| I2C methods | `MethodsFramed`, `WordsKept` | starts and stops are where they belong, for every count, and where the stop is missing or early for counts that `read()` cannot handle; a word written is the word read |
| MC34844 | `McChannelsAgree`, `McDark` | the copies agree with the chip; dark while written to and when forced off, except by a `forceOff(true)` that comes while a change of the dimming puts the lit pin back |
| encoder | `EncoderCounts` | steps handed out add up to the turn of the shaft |
| containers | `ListRemoves`, `HashReadsLatest`, `RingAndSumAgree` | what is left of a list and in which places; the pair set last is found; the last values are read back and summed |

**The seven violations** are disagreements between code and documentation:

* `disable()` deletes the CAN task even inside `notifyObservers()`; the mutex
  stays taken and the task that `enable()` starts hangs at the first frame.
* When no swmob is free the handler clears the interrupt without reading the
  mailbox; the mailbox stays occupied and never interrupts again.
* The recovery from a bus error restores a saved `_silent` and so undoes a
  `setSilent()` called meanwhile.
* `getTime()` wraps before `_timestamp_next_send` does: after the wrap a cyclic
  message is not sent again.
* `setTimeToWaitForFreeMob()` takes 32 bits and the search for a mailbox counts
  in 8: from 255 ms on `sendMessage()` does not return on a bus where nobody
  acknowledges, and keeps `_sendMessageMutex`.
* `readUntil()` for a sequence tests `terminated` before it has been set and may
  end after the first byte, without the sequence.
* `setData()` of a cyclic message and `sendMessage()` use different locks: a
  frame can carry half of an update.

**Seen while modelling, without a run of its own.** But for the MC34844's
POWER_OFF no document says otherwise. These are in
the models as they are in the code; a property that they would break says so in
its comment.

* I2C: after a timeout, or an error that is seen before the transfer has ended,
  the next call may take the end of the old transfer for its own, and the
  cached channel of the switch may be wrong for good. `setup()` without
  interrupts after one with them masks the interrupt but leaves
  `_interruptsEnabled` set, so every later wait is for a semaphore nobody
  gives. `writeRead()` with a `readCount` of 0 never sends a stop condition,
  `read()` of 256 bytes sends it and reads on, and of more never sends it (8-bit
  index): `MethodsFramed` says so. `writeToBus()` and
  `readFromBus()` convert the controller's error code to `bool`, so they return
  true for failure.
* LIN: an answer that comes late is accepted for the next request with the same
  identifier. A data byte 0x55 is taken for a header by a slave. A deadline
  beyond the wrap of `getTime()` never passes.
* SPI: `write()` waits twice for a semaphore that is given once. What
  `writeNoRead()` shifts in is read by the next `read()`, or thrown into
  `_rxData` by the handler, which can also take bytes the DMA was to fetch.
* USB: a report's `waitForSendIdle()` may be satisfied by a reconnection during
  it or the call before; a timeout sets `_connected` to false until the host
  connects again. `readString()` tests an unsigned for `>= 0`. The mutex of
  `readBuffer()` is `static`: one device's reader waits for another's.
* MC34844: the comment at `MC34844.cpp:206` says that `disableChannel()` clears
  POWER_OFF in register 8; the call under it writes register 0x80, and the bit
  stays set until `enableChannel()` writes register 8 again. The model makes that
  write, `McChannelsAgree` leaves the bit out, and no run is spent on it. After
  `forceOff(false)` the same dimming value returns early and the
  light stays off; a `forceOff(true)` during `setDimmungChannel()` is undone.
  Between the two assignments of `forceOff()` another task can come too; the
  model takes them as one step.
* `LinkedList::remove()` loses the items between the first that stays and a
  later match, and so does `HashTable::set()` for a key after the second.

**Fairness.** Weak fairness of the CAN task, of each reader and sender, of the
interrupt handler, and, where time matters, of the clock: a task that can go on
is scheduled at some time, a pending interrupt is taken. That holds if no task
of higher priority runs for ever without blocking, which the library leaves to
the application, and nothing in the models does. No strong fairness is assumed:
a task may lose every race for `_sendMessageMutex`, so `SendReturns` is about
tasks that have it, and the instance of `can_wrap` has no other sender. The
CAN peripheral is never fair: a frame may wait for an acknowledge for ever. The
I2C and SPI peripherals are: the I2C master ends every transfer, if only by its
clock timeout, and the SSI shifts by its own clock. `LinReceiveEnds` needs that
the receiving task runs and that time goes on: a turn of its loop takes a byte,
of which only so many come, or finds the time up, and a turn that finds neither
changes nothing.

## 4. What is proved

All theorems hold for every value of the constants that satisfies the `ASSUME`s
of the modules: any number of mailboxes, swmobs, observers, tasks, messages,
queue and pool sizes, and any number of calls of `disable()`. Every invariant
and both refinements that the passing runs check are stated by a theorem; what
is left to TLC alone is listed at the end.

### The CAN receive path

`CANReceiveProofs`:

* `TypeCorrect` and `TaskStateCorrect`, by the inductive invariant
  `TypedState`: the types and `TaskState`, which says what the CAN task's
  locals and locks are at each program counter. Types alone are not inductive:
  that `observers[slot]` exists when it is read depends on where the task is.
* `SwMobsSafe`: `SwMobsConserved` is preserved by every step, given
  `TypedState`. The argument: a step moves one index between the free queue,
  the used queue and the task's hand, and only `disable()` loses one. It rests
  on `IndexQueuesHaveRoom`: distinct indices fit into the queues, as there are
  no more swmobs than places (`Cardinality(SwMobs) <= SwQueueSize`), so no
  `sendToBack` drops one.
* `PoolSafe`: `PoolOwnership`, by `PoolInv`: nobody shares an entry, held
  entries are in use, lost ones are no more than stops, and a reader's queue
  and hand are consistent (`ReaderState`). The invariant relates entries to
  owners by counting nothing but the lost ones.

`CANDeliveryProofs`: `DeliveryImplemented`, the refinement of `CANDelivery`
under the mapping of `CANReceiveDelivery`. A fetch is `Fetch`; the steps of the
walk over the observers are `Deliver` where a pooled message enters a queue and
`PassOver` where there is nothing to deliver or no room; unlocking the list is
`Finish`, `disable()` is `Abort`, a reader's assignment is `ReadFrame` and its
return is `Release`; registering and unregistering are `Subscribe` and
`Unsubscribe`; all else stutters. The mapping needs `DeliveryInv`:

* the swmobs and the pool are safe (the invariants above), because a delivered
  frame is read from a pool entry that must not have been lent again;
* `FetchedFrames`: a mailbox whose interrupt is pending holds a frame, and so
  does a swmob that waits or is dispatched;
* `PassState`: the task has a place in the list only within a pass, and the slot
  it takes a message for matches the frame;
* `OnceEach`: no registration is entered twice, so that a slot stands for one;
* `HeldFrames`: what an observer may read is a frame.

One step needs a count: the task passes an observer over because the pool has no
message only if the abstract pool is used up too. The places of the queues and
the readers' hands map one to one onto the held entries, so the held entries are
no more than the abstract uses, and the entries in use that nobody holds are no
more than the stops.

### The CAN transmit path

`CANSendProofs`:

* `MailboxesExclusive` (`MobExclusive`), by `SendInv`: who is inside
  `sendMessage()` holds the mutex, and the mailbox it chose is free. A deleted
  task leaves the mutex taken, which blocks the others but breaks nothing here.
* `RegisteredWhileInUse` (`ItemStaysRegistered`), by `PassInv`: in a pass the
  CAN task holds the list's lock.
* `SendTypeCorrect`, by these and `RestTyped`.
* `CyclicRateKept` (`CyclicRate`), by `RateInv`. Counting the sendings says
  nothing about the next one, so the invariant relates the count to the
  next-send time: either `next` is at least as late as the count demands
  (`Earliest`), or it is one frame behind (`Behind`), with the list locked: from
  the frame's reaching a mailbox until the loop has moved the time on, or for good
  when `disable()` deletes the task between the two. It has two hypotheses beyond the assumptions: the clock does not
  wrap (`LastTime < TimeWrap`), and no interval reaches from there beyond the 32
  bits of `_timestamp_next_send`. After the wrap the code is wrong, as
  `can_wrap` shows.

### I2C

`I2CProofs`, by `BusInv`:

* `Typed`: one task is between the first and the last step of a call, the owner
  of the lock. Everything else speaks of its program counter, `Point`.
* `OneSign`: while `clean`, the end of a transfer is announced once: by the job
  in progress, the pending interrupt or the given semaphore, and by none of
  them outside a wait (`Quiet`). This is what makes a wait end with its own
  transfer.
* `BytesCounted`: what is still to do, and what was acknowledged.
* `ChannelKnown`: while `clean`, outside a selection the channel the driver
  remembers is the one selected, or the switch was reset and has none.

The theorems are `SwitchTypeCorrect` (`TypeOK`), `OnNamedChannelAlways`,
`BusImplemented` (the refinement of `I2CBus`: each step is one of its actions or a
stutter) and `BusReleasedAlways`, which has the hypothesis that the last transfer
of every call asks for a stop condition: `writeRead()` with nothing to read does
not.

### The smaller parts

A behaviour of `Devices` is one of a single part, so each part has an invariant
of its own, preserved by its steps and left alone by the others.

`SerialProofs`:

* `NoneLeftBehind`: inductive as it stands.
* `StopsAtTerminator`, for terminators of any length, by `UartTyped` and
  `ReadUpTo`: what was read so far has no terminator before its last byte, and
  `terminated` says whether it ends at one, except after the first byte of a call
  for several. That a read finds its terminator is false (`uart_terminator`).
* `AcceptsPublished`, by `LinCarried`: every byte on a wire, in a FIFO or in the
  queue is a data byte or the checksum of a published frame, or part of a header,
  so that a checksum that matches comes from a frame published for the
  identifier.
* `CalledForHeaders`, by `LinOrder`. The property speaks of calls that were made;
  the bytes that will cause the next ones are in the slave's FIFO or on their
  way. The invariant says that the calls, and then the bytes in the FIFO that
  will be taken for identifiers, are the headers heard so far, in order, and
  that a break in the FIFO is followed by its identifier.
* `ReadsItsBytes`, by `DmaTyped` and `SpiReading`: in a call that reads, the
  receive semaphore is given only once its channel has stopped with nothing left;
  what was read and what is left are the length; and all bytes under way are the
  call's, unless an earlier one left bytes behind.
* `SerialTypesAlways`, by the bounds of the FIFOs and queues, `SpiShare` (which DMA
  channels a call uses and which have ended) and `SpiRoom` (bytes fetched plus
  bytes left are the length).

`USBProofs`: `WriterWakes` is inductive as it stands; `ReaderWakes` needs
`ReaderInv`, by which data left unread has given the semaphore or is counted by the
call that is reading; `SenderWakes` and `TrueWhenSent` need `ReportInv`, by which a
report on its way has the state `sending` and one that was sent has left the
state `idle` and given the semaphore, unless a disconnection disturbed it;
`UsbTypesAlways`.

`DriverProofs`:

* `CountsEveryStep`, by `EncInv`: the last code is the sampled position modulo 4,
  and within `read()` the steps handed out are still in `encDelta`, so the sum is
  stated with the rest there. `QuarterStep` is the arithmetic of the decoder.
* `ChannelsAgree` and `DarkWhileWriting`, by `McInv`: the writes to come leave the
  registers as the copies are (`Leaves`), whatever they make of them meanwhile.
* `SetsAddUp`, by `CyclicInv`: what the setter that owns the lock has written so
  far and what it has still to write, at each of its steps (`Underway`).
* `AllMethodsFramed`: a method is a part in one direction or two in different
  ones, and a part may be empty; parts concatenate. It holds for all counts, 0 and
  those beyond the index of `read()` included, where the property says which stop
  condition is missing or early. `WordsReadBack`: the bytes of a word, weighted, add up to it
  (`BytesAddUp`, on quotients of quotients).
* `RemovesFromAnyList`: `RemovedShape` says what `remove()` makes of any list, and
  `RemoveFromAny` counts places. `TableReadsLatest`: a pair in the table is the one
  last set for its key. `AverageOfTheLast`: the position counts back over the last
  values (`CountedBack`), so the value that is overwritten is the one that leaves
  the sum.
* `DevicesTypeCorrect`: `TypeOK` of all parts from these.

`QueueLemmas` holds the lemmas on sequences and minima that these cite.

### Assumptions

The `ASSUME`s beside the types of the constants say what the code's constants or
callers guarantee: as many places in the index queues as swmobs; intervals are
not 0 (a cyclic message with 0 never leaves the catch-up loop); a call on the bus
is a non-empty sequence of transfers to no channel of the switch, as only the
switch selects; the switch's channels do not include `NoChannel`; no terminator of
the UART is empty; a LIN data byte is not taken for a checksum, as both are
abstract. TLC evaluates each on the runs.

### Only model-checked

* Liveness, which TLAPS cannot do under fairness: `FetchedIsDispatched`,
  `CallsEnd`, `LinReceiveEnds`, `SpiEnds`.
* The properties of the violation runs, which do not hold.

Two definitions that recursion or folds would say are written without them, so
that they can be reasoned about: a moving average is checked against the
difference of two running totals, and what is left of a list against the places
of its items. The program counters have no spaces in their names for the same
reason (the SMT translation rejects them).

## 5. Not modelled, and the plan

`PinMap.cpp` is 121171 of the 136135 lines of the implementation, a generated
table of pins without behaviour: the share of all lines that the map covers
says little, and the share of the rest is what the models are to raise.

Not modelled because there is nothing to check in them: the generated pin map,
start-up code, USB descriptors, `attic/`, drivers that write a few registers in
a row. GPIO, timers, PWM, ADC and watchdog are one call of the vendor's driver
library per method. That library and FreeRTOS are not in the repository; what
the code uses of them is in the models and marked external in the map.

Left out of what is modelled:

* `OS/Ringbuffer.h`: its guards `MutexGuard(&_mutex)` declare references
  without an initialiser, so the template does not compile when it is used.
* `ADCSequencer::triggerAndWait()` and the guards of `MMA8453Q`, which are
  temporaries: both need two tasks on one object, which nothing in the
  repository does or promises.
* `UARTController::get()` tests for the instance before it takes its mutex, and
  not again: two tasks that both ask first construct it twice, and one works on
  an object whose queue no interrupt fills. `SPIController::get()` has no lock
  at all. A model would be this sentence again.
* LIN frames of more than one byte, `LinSlave::receiveFrame()` (the second half
  of the master's), the 8-bit arithmetic of the checksum.
* The flags of a CAN message: `sendMessage()` sets the extended flag without
  the message's lock. `extractSignal()` of 0 bits shifts by 64, which is
  undefined.
* Failed writes to MC34844, whose results nobody looks at; `setup()` once more.
* The two halves of `execute()` in one model (a flood of frames keeps the CAN
  task from its cyclic messages).

What is left to prove: that a frame sent carries data of one moment is false
(`can_torn`), but that each of its bytes is one the message had while the frame
was made is not stated yet; nor what `enable()` restores after a `disable()` that
came outside the list's lock. The lemmas on maxima and on removed items serve one
module now and belong beside `MinInSet` when a second needs them.
