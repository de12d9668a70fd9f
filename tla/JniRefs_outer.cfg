\* One thread and two objects; the engine deletes what it likes, and makes no global
\* reference.
SPECIFICATION Spec
CONSTANTS
    Obj = {o1, o2}
    NoObj = NoObj
    Thread = {t1}
    MaxLocals = 3
    MaxFrames = 2
    MaxDepth = 1
    MaxRefs = 1
CONSTRAINT LocalsOnly
INVARIANTS HonouredHere
