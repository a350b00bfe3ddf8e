SPECIFICATION Spec
CONSTANTS
    Threads = {t1, t2, t3}
    Variables = {a, b}
    NoThread = nobody
    None = none
SYMMETRY Symmetry
INVARIANTS
    OneWrapperPerLock
    NoDataRace
PROPERTIES
    UnlocksWhatItLocked
