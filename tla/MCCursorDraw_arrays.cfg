\* An engine with one buffer object.
SPECIFICATION DrawSpec
CONSTANTS
    Buffer = {1}
    MaxCalls = 3
INVARIANTS ArraysRestored
