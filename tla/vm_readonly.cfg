\* One process whose loaded segment is read-only (a code segment).
CONSTANTS
    Procs = {p1}
    Pages <- MCPages
    Frames <- MCFrames
    Slots <- MCSlots
    CodePage = 1
    FilePages = 1
    CodeWritable = FALSE
    AllowMunmap = FALSE
    None = None
SPECIFICATION Spec
INVARIANT WritableRespected
