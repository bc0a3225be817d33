CONSTANTS
    Docs = 5
    None = None
    MaxFaults = 2
SPECIFICATION Spec
INVARIANTS Gapless NoRepeat Released EndIsReal
