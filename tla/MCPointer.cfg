\* Two touch slots and a panel that reports three fingers; a mouse whose wheel
\* reports on the other axis, five samples through a ring of three; an engine that
\* makes three GL calls, with one buffer object.
SPECIFICATION MCSpec
CONSTANTS
    TouchSlots = 2
    MaxTouches = 3
    EvCap = 4
    PollMax = 3
    MouseAxis = "x"
    Sample <- Samples
    FirstNumber = 0
    Ring = 3
    MaxNotches = 2
    MinSens = 0
    MaxSens = 5
    StartSens = 3
    MaxSamples = 5
    Buffer = {1}
    MaxCalls = 3
INVARIANTS GyroYields EngineAgrees EverySampleCounts EngineStateKept
