CONSTANTS
    Threads = {t1, t2}
    ClientOf <- MC_SameClient
    Paths = {"p1", "p2"}
    Basename <- MC_Basename
    WriteMode <- MC_WriteMode
    MaxEntries = 1
    MaxRecords = 2
    NoThread = NoThread
SPECIFICATION Spec
PROPERTY LoopRefined
CHECK_DEADLOCK FALSE
