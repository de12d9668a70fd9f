\* Language: three codes; it is looked at every second frame, the registry written
\* every fourth.  Settings: five levels kept in steps of two, a timer of two frames.
\* Maps: two threads, one file and two blocks; the table grows from one entry, and
\* what happens after two threads were in it at once is not explored.
SPECIFICATION MCSpec
CONSTANTS
    Code = {en, fr, de}
    English = en
    OtherForm = OtherForm
    Empty = Empty
    Absent = Absent
    LangEvery = 2
    RegistryEvery = 4
    Faults = {"open", "write"}
    Device <- Devices
    Mouse = "mouse"
    Lowest = 2
    Highest = 6
    Default = 4
    Grain = 2
    Debounce = 2
    Thread = {t1, t2}
    Fd = {f1}
    Block = {b1, b2}
    Null = Null
    FirstCap = 1
    ReallocFails = TRUE
CONSTRAINT Unclobbered
INVARIANTS FileMatches CheckpointSaves TuningQueued OneWritePerBurst TableExact MapsLikePread
PROPERTIES QueuedIsSaved
