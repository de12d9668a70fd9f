\* Two frame values, a ring of 3 whose target is 1: the room above the target is
\* just enough for BASS's longest buffer and what the engine queues by itself.
SPECIFICATION Spec
CONSTANTS
    a = a
    b = b
    silence = silence
    Frame <- TwoFrames
    Silence <- silence
    Rate = 3
    Burst = 2
    MaxPrime = 1
    Period = 2
    f = f
    null = null
    Callback <- OneCallback
    NoCb <- null
INVARIANTS NoDrop CallbackPairCoherent AtMostOneLate
PROPERTIES RingIsFifo LowRingIsPrompted
