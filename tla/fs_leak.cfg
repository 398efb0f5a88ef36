\* One process at boot and one it may exec: the first create on the fresh
\* disk, of a 3-byte file or through a name longer than 14 characters, leaks.
CONSTANTS
    p1 = p1
    p2 = p2
    p3 = p3
    None = None
    Procs <- MCProcs2
    NumSectors = 8
    SectorSize = 2
    DirectN = 1
    TableLen = 2
    IndirectN = 1
    EntrySize = 1
    RootEntries = 0
    FilePaths <- MCFilePaths
    DirPaths <- MCDirPaths
    CreateSizes = {0, 3}
    IOSizes = {2}
    SeekPositions = {0, 3}
    MaxFds = 1
    EhdrSize = 1
    InitProcs <- MCProcs1
    ExecNames = {"a"}
SPECIFICATION Spec
CONSTRAINT OpenCntBound
INVARIANT NothingLeaked
CHECK_DEADLOCK FALSE
