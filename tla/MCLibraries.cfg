\* Loader: three names, one in the import table, and pages of two units; the zone
\* takes any two files but two large ones.  References: two threads that nest two
\* frames each.  Methods: two threads look three methods up, the pool has room for
\* two.  Loading comes to its end.
SPECIFICATION MCSpec
CONSTANTS
    Name <- Names
    ImportTable = {"f"}
    Images <- BothImages
    Words = 7
    Bits = 2
    Page = 2
    ZoneSize = 10
    o1 = o1  o2 = o2  o3 = o3
    t1 = t1  t2 = t2
    Obj <- ThreeObjects
    NoObj = NoObj
    Thread = {t1, t2}
    MaxLocals = 3
    MaxFrames = 3
    MaxDepth = 2
    MaxRefs = 2
    Looker = {t1, t2}
    Method <- Overloads
    Blank = ""
    MaxIds = 2
SYMMETRY ObjSymmetry
CONSTRAINT Followed
INVARIANTS LayoutFits BoundBeforeRun RelativesOnce NoFault NoDoubleFree HeldIsLive IdMeansMethod
PROPERTIES HonoursFrames
CHECK_DEADLOCK FALSE
