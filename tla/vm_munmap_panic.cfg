\* munmap followed by enough faults to evict the unmapped page's frame.
CONSTANTS
    Procs = {p1}
    Pages <- MCPages
    Frames <- MCFrames
    Slots <- MCSlots
    CodePage = 1
    FilePages = 1
    CodeWritable = TRUE
    AllowMunmap = TRUE
    None = None
SPECIFICATION Spec
INVARIANT NoPanic
CHECK_DEADLOCK FALSE
