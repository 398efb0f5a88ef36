\* One file-system thread; the memory before cache[] is zero-filled.
CONSTANTS
    Threads = {t1}
    Sectors <- MCSectors
    Values = {A, B}
    Initial = Initial
    CacheSize <- MCCacheSize
    BelowCache <- MCBelowZero
SPECIFICATION Spec
INVARIANT NoAccessBelowCache
