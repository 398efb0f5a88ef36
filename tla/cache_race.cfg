\* Two file-system threads plus the write-behind thread; the clock steps
\* over cache[-1] (MCBelowBusy), so every entry used is in the array.
CONSTANTS
    Threads = {t1, t2}
    Sectors <- MCSectors
    Values = {A, B}
    Initial = Initial
    CacheSize <- MCCacheSize
    BelowCache <- MCBelowBusy
SPECIFICATION Spec
INVARIANT CacheCoherent
