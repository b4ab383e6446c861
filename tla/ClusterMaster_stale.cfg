CONSTANTS
    Nodes = {n1}
    Slots = {s1, s2}
    MaxRecords = 1
    NoWorker = NoWorker
SPECIFICATION Spec
PROPERTY IntegrityVerdictFresh
