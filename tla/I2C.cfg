\* The I2C controller with its switch: two tasks, two channels, interrupts or
\* polling, finite and infinite timeouts, two calls of setup().
SPECIFICATION Spec
CONSTANTS
    Tasks = {t1, t2}
    NoTask = NoTask
    NoJob = NoJob
    NoChannel = NoChannel
    IndexWrap = 256
    ByteValues = 4
    Channels = {c1, c2}
    Calls <- MCCalls
    MaxSetups = 2
INVARIANTS TypeOK OnNamedChannel BusReleased
PROPERTIES ImplementsBus CallsEnd
