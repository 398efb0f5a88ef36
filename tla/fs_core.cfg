\* One process at boot, which can exec two more from file "a", over an
\* 8-sector disk: files and directories are created, grown through the
\* indirect table, opened, shared, executed, removed while open or running
\* and closed, until the disk runs out.  Leaked open counts are cut at
\* MaxOpenCnt, and every process may exit, so deadlock is not checked.
CONSTANTS
    p1 = p1
    p2 = p2
    p3 = p3
    None = None
    Procs <- MCProcs3
    NumSectors = 8
    SectorSize = 2
    DirectN = 1
    TableLen = 2
    IndirectN = 1
    EntrySize = 1
    RootEntries = 0
    FilePaths <- MCShortFilePaths
    DirPaths <- MCDirPaths
    CreateSizes = {0, 3}
    IOSizes = {2}
    SeekPositions = {3}
    MaxFds = 1
    EhdrSize = 1
    InitProcs <- MCProcs1
    ExecNames = {"a"}
SPECIFICATION Spec
SYMMETRY MCExecSymmetry
CONSTRAINT OpenCntBound
INVARIANT TypeOK
INVARIANT DiskAccounting
INVARIANT NamespaceSound
INVARIANT DenyWriteAccounting
PROPERTY ExecImmutable
PROPERTY NamespaceSpec
CHECK_DEADLOCK FALSE
