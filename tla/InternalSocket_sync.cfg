CONSTANTS
    Clients = {c1, c2}
    Master = m
    MaxListLen = 2
SPECIFICATION Spec
INVARIANT SyncAnswersEachNode
