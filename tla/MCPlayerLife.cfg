\* Three players compete for two slots, created and destroyed by two threads.
SPECIFICATION Spec
CONSTANTS
    Player = {p1, p2, p3}
    NoPlayer = NoPlayer
    Engine = {e1, e2}
    MaxPlayers = 2
INVARIANTS NoUseAfterFree SlotsExact
PROPERTIES DestroyReturns
