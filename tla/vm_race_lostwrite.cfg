\* Two processes faulting concurrently; no mmap file is unmapped.
CONSTANTS
    Procs = {p1, p2}
    Pages <- MCPages
    Frames <- MCFrames
    Slots <- MCSlots
    CodePage = 1
    FilePages = 1
    CodeWritable = TRUE
    AllowMunmap = FALSE
    None = None
SPECIFICATION Spec
PROPERTY MemorySpec
CHECK_DEADLOCK FALSE
