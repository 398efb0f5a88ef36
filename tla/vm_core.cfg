\* One process: stack growth, lazy loading of a writable data segment,
\* eviction to swap and to the mapped file, mmap and munmap.  munmap can
\* lead to a failed ASSERT, which halts the kernel, so deadlock is not
\* checked.
CONSTANTS
    Procs = {p1}
    Pages <- MCPages
    Frames <- MCFrames
    Slots <- MCSlots
    CodePage = 1
    FilePages = 1
    CodeWritable = TRUE
    AllowMunmap = TRUE
    None = None
SPECIFICATION Spec
INVARIANT TypeOK
INVARIANT FrameAccounting
INVARIANT SwapSlotsExclusive
PROPERTY MemorySpec
CHECK_DEADLOCK FALSE
