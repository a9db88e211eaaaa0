\* A setData() or setDataBit() of two tasks while the CAN task makes a frame.
SPECIFICATION CyclicSpec
CONSTANTS
 Setters = {s1,s2}
 NumBytes = 2
 Bits = {1}
 Unlocked = Unlocked
 MaxSets = 3
INVARIANT CyclicFrameIsWhole
CHECK_DEADLOCK FALSE
