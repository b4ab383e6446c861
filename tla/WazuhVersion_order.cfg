CONSTANTS
    Digits = {0, 1}
    Tags = {"", "rc"}
    DevNumbers <- MC_TwoDigitDev
SPECIFICATION Spec
INVARIANT GeIsVersionOrder
