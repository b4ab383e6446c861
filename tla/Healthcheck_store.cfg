CONSTANTS
    Runs = {1, 2}
    NoRun = NoRun
    InProgress = InProgress
SPECIFICATION Spec
INVARIANT FinishedRunHasCounters
