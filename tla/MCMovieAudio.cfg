\* Two frame values, a ring of 2, calls of up to 3 frames: the decoder has to wait.
SPECIFICATION Spec
CONSTANTS
    a = a  b = b  silence = silence
    Frame = {a, b}
    Silence = silence
    Capacity = 2
    Longest = 3
    Period = 1
    MaxQueued = 3
INVARIANTS ClockAgrees
PROPERTIES MovieIsFifo PlayersDeviceStays CallsReturn
CHECK_DEADLOCK FALSE
