CONSTANTS
    Store = {st1, st2, st3}
    KeepRecent = 2
    KeepEvery = 3
    Interval = 2
    FirstVersion = 2
    MaxVersion = 10
SYMMETRY Symmetry
SPECIFICATION Spec
INVARIANTS
    Recoverable
    RecentHeightsKept
    ReplayAgrees
    NothingLeaked
PROPERTIES
    ImplementsAtomic
