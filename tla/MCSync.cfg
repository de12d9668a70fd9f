\* Mutexes: two producers and a consumer, variables zero-initialised or not, waits
\* with and without a time-out.  Read-write locks: three threads, one renewal.
\* Clocks: two threads, a wall clock near to and far from the monotonic one.
SPECIFICATION MCSpec
CONSTANTS
    Producer = {p1, p2}
    Consumer = {c1}
    Given = Given
    Null = Null
    MaxItems = 2
    RwThread = {t1, t2, t3}
    NoLock = NoLock
    MaxLives = 1
    Caller = {a, b}
    Uptime = {3, 4, 5}
    Epoch = {1, 20}
    Coarse = 2
    Delay <- Delays
    MaxWait = 2
    Call = 2
INVARIANTS ExcludesUnlessClobbered RwLocksHold OneTimebase WaitsAsAsked
PROPERTIES AllConsumed
CHECK_DEADLOCK FALSE
