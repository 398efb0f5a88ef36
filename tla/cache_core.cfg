\* One file-system thread plus the write-behind thread.
CONSTANTS
    Threads = {t1}
    Sectors <- MCSectors
    Values = {A, B}
    Initial = Initial
    CacheSize <- MCCacheSize
    BelowCache <- MCBelowZero
SPECIFICATION Spec
INVARIANT TypeOK
INVARIANT CacheCoherent
INVARIANT ClockMatchesReference
INVARIANT FixedPointChecked
