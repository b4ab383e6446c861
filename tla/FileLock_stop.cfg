CONSTANTS
    Threads = {t1}
    ClientOf <- MC_SameClient
    Paths = {"p1", "p2"}
    Basename <- MC_Basename
    WriteMode <- MC_WriteMode
    MaxEntries = 2
    MaxRecords = 2
    NoThread = NoThread
SPECIFICATION Spec
INVARIANT StopWithinOneRecord
CHECK_DEADLOCK FALSE
