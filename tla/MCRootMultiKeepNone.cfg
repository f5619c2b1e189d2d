CONSTANTS
    Store = {st1, st2}
    KeepRecent = 0
    KeepEvery = 0
    Interval = 2
    FirstVersion = 2
    MaxVersion = 5
SYMMETRY Symmetry
SPECIFICATION Spec
INVARIANT
    Recoverable
