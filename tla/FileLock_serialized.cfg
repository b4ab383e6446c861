CONSTANTS
    Threads = {t1, t2}
    ClientOf <- MC_SameClient
    Paths = {"p1"}
    Basename <- MC_OneBasename
    WriteMode <- MC_OneWriteMode
    MaxEntries = 1
    MaxRecords = 1
    NoThread = NoThread
SPECIFICATION Spec
INVARIANT PerPathSerialized
CHECK_DEADLOCK FALSE
