------------------------------- MODULE FileSys -------------------------------
(***************************************************************************)
(* The project 4 file system (OS_proj_4/filesys: inode.c, directory.c,     *)
(* filesys.c) driven by the file system calls of userprog/syscall.c and    *)
(* the file closing of process_exit.                                        *)
(*                                                                         *)
(* Every modelled system call runs holding file_lock (syscall.c:44), so    *)
(* each one is a single step.  The buffer cache is transparent here (it is *)
(* modelled on its own in BufferCache): a sector's contents are what the   *)
(* last cache_write put there.  Contents are abstracted to what the file   *)
(* system itself interprets: on-disk inodes, indirect tables and directory *)
(* entries.  User data is never taken for an in-use directory entry.       *)
(*                                                                         *)
(* Sizes are scaled down: BLOCK_SECTOR_SIZE, INODE_DIRECT_N,               *)
(* INODE_TABLE_LENGTH, INODE_INDIRECT_N and sizeof (struct dir_entry) are  *)
(* constants, so the direct and the indirect paths of the block map are    *)
(* both reached with a handful of sectors.                                 *)
(***************************************************************************)
EXTENDS Integers, Sequences, SequencesExt, FiniteSets

CONSTANTS
    Procs,        \* user processes
    NumSectors,   \* sectors of the file system device
    SectorSize,   \* BLOCK_SECTOR_SIZE
    DirectN,      \* INODE_DIRECT_N
    TableLen,     \* INODE_TABLE_LENGTH
    IndirectN,    \* INODE_INDIRECT_N
    EntrySize,    \* sizeof (struct dir_entry)
    RootEntries,  \* entry_cnt of the root directory (do_format)
    FilePaths,    \* paths passed to create, open and remove
    DirPaths,     \* paths passed to mkdir, chdir and remove
    CreateSizes,  \* initial_size arguments of create
    IOSizes,      \* size arguments of read and write
    SeekPositions,\* position arguments of seek
    MaxFds,       \* bound on the open files of a process
    EhdrSize,     \* sizeof (struct Elf32_Ehdr)
    InitProcs,    \* processes running at boot; the others start by exec
    ExecNames,    \* executable names (first words of exec's cmd_line)
    None

(* A path is what dir_divide makes of a string: absolute or relative, its  *)
(* '/'-separated components, and whether the whole string is longer than   *)
(* 14 characters (filesys_create rejects those).                           *)
Path == [abs : BOOLEAN, comps : Seq(STRING), long : BOOLEAN]

ASSUME /\ FilePaths \subseteq Path /\ DirPaths \subseteq Path
       /\ SectorSize > 0 /\ TableLen > 0 /\ EntrySize > 0

Sectors == 0 .. NumSectors - 1
FREE_MAP_SECTOR == 0
ROOT_DIR_SECTOR == 1

DIdx == 0 .. DirectN - 1
IIdx == 0 .. IndirectN - 1
TIdx == 0 .. TableLen - 1
ZeroTable == [j \in TIdx |-> 0]

\* struct inode_disk, without magic and padding.
DiskInode == [length : Nat, direct : [DIdx -> Nat], indirect : [IIdx -> Nat],
              isDir : BOOLEAN]

\* struct dir_entry; a zeroed entry is not in use.
Unused == [inUse |-> FALSE, name |-> "", sector |-> 0]
DirEntry(n, s) == [inUse |-> TRUE, name |-> n, sector |-> s]

-----------------------------------------------------------------------------
(* Block map (inode.c)                                                     *)

\* bytes_to_sectors: DIV_ROUND_UP.
BytesToSectors(size) == (size + SectorSize - 1) \div SectorSize

\* byte_to_sector: the sector holding byte pos, through a direct block or
\* an indirect table; -1 past the end.
ByteToSector(ino, tbl, pos) ==
    IF pos < ino.length
    THEN IF pos < DirectN * SectorSize
         THEN ino.direct[pos \div SectorSize]
         ELSE LET ti == (pos - DirectN * SectorSize)
                           \div (TableLen * SectorSize)
                  ej == (pos - DirectN * SectorSize
                           - ti * TableLen * SectorSize) \div SectorSize
              IN  tbl[ino.indirect[ti]][ej]
    ELSE -1

\* The allocations byte_to_sector_write makes, in order, to grow an inode
\* from cur to new sectors (and inode_create from 0): direct blocks, then
\* per indirect table a new table sector if the table is new, then its
\* entries from the first unused one.
GrowPlan(cur, new) ==
    LET nd       == IF new < DirectN THEN new ELSE DirectN
        direct   == IF cur < DirectN
                    THEN [k \in 1 .. nd - cur |-> <<"direct", cur + k - 1, 0>>]
                    ELSE <<>>
        indCur   == IF cur > DirectN THEN cur - DirectN ELSE 0
        tableOld == (indCur + TableLen - 1) \div TableLen
        indNew   == new - DirectN
        first    == indCur \div TableLen
        isNew(t) == t + 1 > tableOld
        off(t)   == IF isNew(t) THEN 0 ELSE indCur % TableLen
        cnt(t)   == IF indNew - t * TableLen < TableLen
                    THEN indNew - t * TableLen ELSE TableLen
        table(t) == (IF isNew(t) THEN << <<"indirect", t, 0>> >> ELSE <<>>)
                    \o [k \in 1 .. cnt(t) - off(t) |->
                          <<"entry", t, off(t) + k - 1>>]
        nTables  == IF indNew <= first * TableLen THEN 0
                    ELSE (indNew - 1) \div TableLen - first + 1
    IN  direct \o IF new <= DirectN THEN <<>>
                  ELSE FlattenSeq([k \in 1 .. nTables |-> table(first + k - 1)])

\* free_map_allocate (1, ...) called once per request: first fit, so the
\* requests get the smallest free sectors in order until none is left.
RECURSIVE FreeMapAllocate(_, _)
FreeMapAllocate(fm, n) ==
    IF n = 0 \/ fm = {} THEN <<>>
    ELSE <<Min(fm)>> \o FreeMapAllocate(fm \ {Min(fm)}, n - 1)

\* The bytes of a transfer of size bytes that lie below the length.
Clamp(size, left) == IF size < left THEN size ELSE IF left > 0 THEN left ELSE 0

\* The allocations of a plan applied to an inode and the tables: got holds
\* the sectors the first Len(got) requests received.  A table is written
\* back (cache_write of the table buffer) once all its requests succeeded.
Install(ino, tbl, plan, got) ==
    LET R(req)     == {r \in DOMAIN got : plan[r] = req}
        pick(req, old) == IF R(req) = {} THEN old
                          ELSE got[CHOOSE r \in R(req) : TRUE]
        ino2       == [ino EXCEPT
                         !.direct = [i \in DIdx |->
                                       pick(<<"direct", i, 0>>, @[i])],
                         !.indirect = [t \in IIdx |->
                                       pick(<<"indirect", t, 0>>, @[t])]]
        touched    == {plan[r][2] : r \in {r \in DOMAIN plan :
                                             plan[r][1] # "direct"}}
        complete(t) == \A r \in DOMAIN plan :
                          (plan[r][1] # "direct" /\ plan[r][2] = t)
                              => r <= Len(got)
        isNew(t)   == <<"indirect", t, 0>> \in Range(plan)
        content(t) == [j \in TIdx |->
                         pick(<<"entry", t, j>>,
                              IF isNew(t) THEN 0 ELSE tbl[ino.indirect[t]][j])]
        written    == {t \in touched : complete(t)}
    IN  [ino |-> ino2,
         tbl |-> [s \in {ino2.indirect[t] : t \in written} |->
                    content(CHOOSE t \in written : ino2.indirect[t] = s)] @@ tbl,
         ok  |-> Len(got) = Len(plan)]

\* A plan run against the free map: the free map after the requests that
\* got a sector, and the inode and tables after installing them.
AllocateGot(F, ino, plan, got) ==
    [fm |-> F.fm \ Range(got), in |-> Install(ino, F.tbl, plan, got)]

Allocate(F, ino, plan) ==
    AllocateGot(F, ino, plan, FreeMapAllocate(F.fm, Len(plan)))

-----------------------------------------------------------------------------
(* The state of the file system as one record, so that the functions of   *)
(* inode.c and directory.c compose as they call each other:               *)
(*   fm   free sectors (the free map),                                     *)
(*   ino  on-disk inodes by sector (None: no inode there),                 *)
(*   tbl  indirect tables by sector,                                       *)
(*   ents directory entries in an inode's data, slot i at byte i*EntrySize *)
(*   cnt  open_cnt of the in-memory inode (0: not on open_inodes),         *)
(*   rem  its removed flag,                                                *)
(*   den  its deny_write_cnt.                                              *)

\* Mutant: inode_close releasing all INODE_DIRECT_N direct blocks.
InodeBlocksAllDirect(F, s) ==
    LET ino == F.ino[s]
        sectors == BytesToSectors(ino.length)
        nInd == sectors - DirectN
        nTables == IF sectors <= DirectN THEN 0
                   ELSE (nInd + TableLen - 1) \div TableLen
        cnt(t) == IF nInd - t * TableLen < TableLen
                  THEN nInd - t * TableLen ELSE TableLen
    IN  {ino.direct[i] : i \in DIdx}
        \cup UNION {{F.tbl[ino.indirect[t]][j] : j \in 0 .. cnt(t) - 1}
                    \cup {ino.indirect[t]} : t \in 0 .. nTables - 1}
        \cup {s}

\* free_map_release of every block of an inode (the removal branch of
\* inode_close): its direct blocks, then per indirect table its entries
\* and the table, and the inode sector itself.
InodeBlocks(F, s) ==
    LET ino      == F.ino[s]
        sectors  == BytesToSectors(ino.length)
        nDirect  == IF sectors <= DirectN THEN sectors ELSE DirectN
        nInd     == sectors - DirectN
        nTables  == IF sectors <= DirectN THEN 0
                    ELSE (nInd + TableLen - 1) \div TableLen
        cnt(t)   == IF nInd - t * TableLen < TableLen
                    THEN nInd - t * TableLen ELSE TableLen
    IN  {ino.direct[i] : i \in 0 .. nDirect - 1}
        \cup UNION {{F.tbl[ino.indirect[t]][j] : j \in 0 .. cnt(t) - 1}
                    \cup {ino.indirect[t]} : t \in 0 .. nTables - 1}
        \cup {s}

\* inode_create: allocate the blocks of length bytes; on success write the
\* on-disk inode.  On failure nothing is written and nothing released.
Created(F, s, a) ==
    <<[F EXCEPT !.fm   = a.fm,
                !.tbl  = a.in.tbl,
                !.ino  = IF a.in.ok THEN [@ EXCEPT ![s] = a.in.ino] ELSE @,
                !.ents = IF a.in.ok THEN [@ EXCEPT ![s] = <<>>] ELSE @],
      a.in.ok>>

InodeCreate(F, s, length) ==
    Created(F, s, Allocate(F, [length |-> length, direct |-> [i \in DIdx |-> 0],
                               indirect |-> [t \in IIdx |-> 0], isDir |-> FALSE],
                           GrowPlan(0, BytesToSectors(length))))

\* byte_to_sector_write: grow the inode so that byte pos exists.  On
\* success the length becomes pos + 1 and the inode is written; on failure
\* the blocks allocated so far stay in the in-memory inode and the length
\* is unchanged.
Grown(F, s, pos, a) ==
    [F EXCEPT !.fm  = a.fm,
              !.tbl = a.in.tbl,
              !.ino[s] = IF a.in.ok THEN [a.in.ino EXCEPT !.length = pos + 1]
                         ELSE a.in.ino]

ByteToSectorWrite(F, s, pos) ==
    IF pos < F.ino[s].length THEN F
    ELSE Grown(F, s, pos, Allocate(F, F.ino[s],
                                   GrowPlan(BytesToSectors(F.ino[s].length),
                                            BytesToSectors(pos + 1))))

\* inode_write_at: grow first, then copy what lies below the length.
\* Returns the new state and the number of bytes written.
Written(G, s, size, offset) == <<G, Clamp(size, G.ino[s].length - offset)>>

\* Mutant: inode_write_at without the deny_write_cnt test.
InodeWriteAtNoDeny(F, s, size, offset) ==
    Written(ByteToSectorWrite(F, s, offset + size - 1), s, size, offset)

InodeWriteAt(F, s, size, offset) ==
    IF F.den[s] > 0 THEN <<F, 0>>
    ELSE Written(ByteToSectorWrite(F, s, offset + size - 1), s, size, offset)

\* inode_read_at: the number of bytes read.
InodeReadAt(F, s, size, offset) == Clamp(size, F.ino[s].length - offset)

\* inode_open and inode_reopen.
InodeOpen(F, s) == [F EXCEPT !.cnt[s] = @ + 1]

\* file_deny_write and file_allow_write of a file that holds an open of s
\* (the file's deny_write flag makes each happen once per file).
InodeDenyWrite(F, s) == [F EXCEPT !.den[s] = @ + 1]
InodeAllowWrite(F, s) == [F EXCEPT !.den[s] = @ - 1]

\* inode_close: the last close frees the in-memory inode (with its removed
\* flag and deny_write_cnt), and its blocks if it was removed.
InodeClose(F, s) ==
    IF F.cnt[s] = 1 /\ F.rem[s]
    THEN LET B == InodeBlocks(F, s)
         IN  [F EXCEPT !.cnt[s] = 0, !.rem[s] = FALSE, !.den[s] = 0,
                       !.fm  = @ \cup B,
                       !.ino[s] = None,
                       !.tbl = [x \in B |-> ZeroTable] @@ @,
                       !.ents[s] = <<>>]
    ELSE [F EXCEPT !.cnt[s] = @ - 1,
                   !.rem[s] = IF F.cnt[s] = 1 THEN FALSE ELSE @,
                   !.den[s] = IF F.cnt[s] = 1 THEN 0 ELSE @]

-----------------------------------------------------------------------------
(* Directories (directory.c)                                               *)

\* The entries inode_read_at returns whole: the loops of lookup, dir_add
\* and dir_empty stop at the first short read.
Slots(F, d) == F.ino[d].length \div EntrySize
SlotAt(F, d, i) == IF i < Len(F.ents[d]) THEN F.ents[d][i + 1] ELSE Unused
Blanks(n) == [k \in 1 .. n |-> Unused]
SetSlot(seq, i, e) ==
    IF i < Len(seq) THEN [seq EXCEPT ![i + 1] = e]
    ELSE seq \o Blanks(i - Len(seq)) \o <<e>>
InUseSlots(F, d) == {i \in 0 .. Slots(F, d) - 1 : SlotAt(F, d, i).inUse}

\* lookup: the first in-use slot with the name, -1 if there is none.
Lookup(F, d, name) ==
    LET hits == {i \in InUseSlots(F, d) : SlotAt(F, d, i).name = name}
    IN  IF hits = {} THEN -1 ELSE Min(hits)

\* dir_lookup: the inode sector of the entry (the caller opens it).
DirLookup(F, d, name) ==
    IF Lookup(F, d, name) < 0 THEN None
    ELSE SlotAt(F, d, Lookup(F, d, name)).sector

\* dir_add: fail if the name is there; else write the entry into the first
\* free slot, or at the end of file, growing the directory.  A directory
\* added under a name not starting with '.' gets d as its "..".
FreeSlot(F, d) ==
    LET free == {i \in 0 .. Slots(F, d) - 1 : ~SlotAt(F, d, i).inUse}
    IN  IF free = {} THEN Slots(F, d) ELSE Min(free)

\* The entry written at slot ofs; a directory added gets d as its "..".
EntryAdded(G, d, name, s) ==
    IF name \notin {".", ".."} /\ G.ino[s].isDir
    THEN <<[G EXCEPT !.ents[s] = SetSlot(@, Lookup(G, s, ".."),
                                         DirEntry("..", d))], TRUE>>
    ELSE <<G, TRUE>>

EntryWritten(w, d, name, s, ofs) ==
    IF w[2] # EntrySize THEN <<w[1], FALSE>>
    ELSE EntryAdded([w[1] EXCEPT !.ents[d] = SetSlot(@, ofs, DirEntry(name, s))],
                    d, name, s)

DirAdd(F, d, name, s) ==
    IF Lookup(F, d, name) >= 0 THEN <<F, FALSE>>
    ELSE EntryWritten(InodeWriteAt(F, d, EntrySize, FreeSlot(F, d) * EntrySize),
                      d, name, s, FreeSlot(F, d))

\* Mutant: dir_remove marking the inode removed without erasing the entry.
DirRemoveKeepEntry(F, d, name) ==
    LET i == Lookup(F, d, name)
        s == SlotAt(F, d, i).sector
    IN  IF i < 0 THEN F
        ELSE InodeClose([InodeOpen(F, s) EXCEPT !.rem[s] = TRUE], s)

\* dir_remove: erase the entry, mark the inode removed; the inode_close at
\* the end frees it if nobody else has it open.
DirRemove(F, d, name) ==
    LET i == Lookup(F, d, name)
        s == SlotAt(F, d, i).sector
    IN  IF i < 0 THEN F
        ELSE InodeClose([InodeOpen(F, s) EXCEPT !.ents[d] = SetSlot(@, i, Unused),
                                                !.rem[s] = TRUE], s)

\* dir_create: an inode of entry_cnt + 2 entries, marked a directory,
\* holding "." and ".." (both itself until dir_add sets the parent).
WithDots(c, s) ==
    IF ~c[2] THEN c
    ELSE <<DirAdd(DirAdd([c[1] EXCEPT !.ino[s].isDir = TRUE], s, ".", s)[1],
                  s, "..", s)[1], TRUE>>

DirCreate(F, s, entryCnt) ==
    WithDots(InodeCreate(F, s, (entryCnt + 2) * EntrySize), s)

\* dir_empty: exactly two entries in use.
DirEmpty(F, d) == Cardinality(InUseSlots(F, d)) = 2

\* dir_divide: from the start directory, look up every component but the
\* last; fail on the first that is missing.  The components walked are
\* opened as directories whatever their type (dir_open checks nothing).
RECURSIVE Walk(_, _, _)
Walk(F, d, comps) ==
    IF Len(comps) <= 1 THEN d
    ELSE IF DirLookup(F, d, Head(comps)) = None THEN None
    ELSE Walk(F, DirLookup(F, d, Head(comps)), Tail(comps))

DirDivide(F, cwd, path) ==
    [dir  |-> Walk(F, IF path.abs THEN ROOT_DIR_SECTOR ELSE cwd, path.comps),
     name |-> IF path.comps = <<>> THEN "." ELSE Last(path.comps)]

-----------------------------------------------------------------------------
(* System state.                                                           *)

VARIABLES
    freeMap,   \* the free map's free sectors
    inode,     \* on-disk inodes by sector
    tables,    \* indirect tables by sector
    dirents,   \* directory entries by inode sector
    openCnt,   \* open_cnt of the in-memory inodes
    removed,   \* their removed flag
    denyCnt,   \* their deny_write_cnt
    pwd,       \* thread->pwd: the sector of the working directory or None
    fds,       \* thread->files: the open files, [sector, pos] in list order
    life,      \* "unborn", "loading" (in start_process), "running", "exited"
    loadWait,  \* the child whose load_sema the process waits on in
               \* process_execute, or None
    self,      \* thread->self_file: the sector of its executable, or None
    cmd        \* the cmd_line the process was started with, or None

fsVars   == <<freeMap, inode, tables, dirents, openCnt, removed, denyCnt>>
execVars == <<life, loadWait, self, cmd>>
procVars == <<pwd, fds, execVars>>
vars     == <<fsVars, procVars>>

FS == [fm |-> freeMap, ino |-> inode, tbl |-> tables, ents |-> dirents,
       cnt |-> openCnt, rem |-> removed, den |-> denyCnt]

SetFS(F) == /\ freeMap' = F.fm  /\ inode' = F.ino   /\ tables' = F.tbl
            /\ dirents' = F.ents /\ openCnt' = F.cnt /\ removed' = F.rem
            /\ denyCnt' = F.den

\* Bytes an inode can address: byte_to_sector_write indexes inode->indirect
\* without a bound, so the model keeps offsets below this.
Capacity == (DirectN + IndirectN * TableLen) * SectorSize

\* free_map_create reserves the free map and root sectors; do_format's
\* dir_create makes the root directory.
Formatted ==
    LET F0 == [fm   |-> Sectors \ {FREE_MAP_SECTOR, ROOT_DIR_SECTOR},
               ino  |-> [x \in Sectors |-> None],
               tbl  |-> [x \in Sectors |-> ZeroTable],
               ents |-> [x \in Sectors |-> <<>>],
               cnt  |-> [x \in Sectors |-> 0],
               rem  |-> [x \in Sectors |-> FALSE],
               den  |-> [x \in Sectors |-> 0]]
    IN  DirCreate(F0, ROOT_DIR_SECTOR, RootEntries)[1]

IsFS(F) == /\ freeMap = F.fm  /\ inode = F.ino   /\ tables = F.tbl
           /\ dirents = F.ents /\ openCnt = F.cnt /\ removed = F.rem
           /\ denyCnt = F.den

Init ==
    /\ IsFS(Formatted)
    /\ pwd = [p \in Procs |-> None]
    /\ fds = [p \in Procs |-> <<>>]
    /\ life = [p \in Procs |-> IF p \in InitProcs THEN "running" ELSE "unborn"]
    /\ loadWait = [p \in Procs |-> None]
    /\ self = [p \in Procs |-> None]
    /\ cmd = [p \in Procs |-> None]

\* A process that can make a system call: running and not blocked in exec.
Running(p) == life[p] = "running" /\ loadWait[p] = None

\* The directory a path is resolved from: the root if pwd is NULL.
Cwd(p) == IF pwd[p] = None THEN ROOT_DIR_SECTOR ELSE pwd[p]

\* Every path call below opens ret_dir (dir_reopen of the directory
\* dir_divide returns) and closes it when done: InodeOpen(F, dv.dir) before
\* Op, the call's work, and InodeClose(..., dv.dir) after it.

\* The dir_add that follows a successful inode_create or dir_create.
AddCreated(c, d, name, s) == IF ~c[2] THEN c[1] ELSE DirAdd(c[1], d, name, s)[1]

-----------------------------------------------------------------------------
(* System calls, each under file_lock.                                     *)

\* create1 -> filesys_create.  A name longer than 14 returns after the
\* start directory was opened, which is never closed.  inode_sector is not
\* released when inode_create or dir_add fails.
SysCreate(p, path, size) ==
    LET F  == FS
        dv == DirDivide(F, Cwd(p), path)
        s  == Min(F.fm)
        Op(G) == AddCreated(InodeCreate([G EXCEPT !.fm = @ \ {s}], s, size),
                            dv.dir, dv.name, s)
    IN  /\ Running(p)
        /\ IF path.long THEN SetFS(InodeOpen(F, Cwd(p)))
           ELSE IF dv.dir = None \/ DirLookup(F, dv.dir, dv.name) # None
                   \/ F.fm = {}
           THEN UNCHANGED fsVars
           ELSE SetFS(InodeClose(Op(InodeOpen(F, dv.dir)), dv.dir))
        /\ UNCHANGED procVars

\* remove1 -> filesys_remove.  A directory goes only if it holds just "."
\* and ".." and nobody but this call has its inode open.
\* Mutant: remove a directory that still has entries.
SysRemoveNoEmpty(p, path) ==
    LET F  == FS
        dv == DirDivide(F, Cwd(p), path)
        s  == DirLookup(F, dv.dir, dv.name)
        Op(G) == LET H == InodeOpen(G, s)
                 IN  InodeClose(IF ~H.ino[s].isDir \/ H.cnt[s] <= 1
                                THEN DirRemove(H, dv.dir, dv.name) ELSE H, s)
    IN  /\ Running(p)
        /\ IF dv.dir = None THEN UNCHANGED fsVars
           ELSE IF s = None THEN UNCHANGED fsVars
           ELSE SetFS(InodeClose(Op(InodeOpen(F, dv.dir)), dv.dir))
        /\ UNCHANGED procVars

SysRemove(p, path) ==
    LET F  == FS
        dv == DirDivide(F, Cwd(p), path)
        s  == DirLookup(F, dv.dir, dv.name)
        Op(G) == LET H == InodeOpen(G, s)
                 IN  InodeClose(IF ~H.ino[s].isDir
                                   \/ (DirEmpty(H, s) /\ H.cnt[s] <= 1)
                                THEN DirRemove(H, dv.dir, dv.name) ELSE H, s)
    IN  /\ Running(p)
        /\ IF dv.dir = None THEN UNCHANGED fsVars
           ELSE IF s = None THEN UNCHANGED fsVars
           ELSE SetFS(InodeClose(Op(InodeOpen(F, dv.dir)), dv.dir))
        /\ UNCHANGED procVars

\* Mutant: filesys_open closing the inode dir_lookup opened, so the file
\* holds no reference of its own.
SysOpenNoRef(p, path) ==
    LET F  == FS
        dv == DirDivide(F, Cwd(p), path)
        s  == DirLookup(F, dv.dir, dv.name)
    IN  /\ Running(p)
        /\ Len(fds[p]) < MaxFds
        /\ IF dv.dir = None \/ s = None THEN UNCHANGED vars
           ELSE /\ UNCHANGED fsVars
                /\ fds' = [fds EXCEPT ![p] = Append(@, [sector |-> s, pos |-> 0])]
                /\ UNCHANGED <<pwd, execVars>>

\* open1 -> filesys_open -> file_open: a new file at position 0 at the
\* end of the process's list.  The dir_ptr of a directory takes no count.
SysOpen(p, path) ==
    LET F  == FS
        dv == DirDivide(F, Cwd(p), path)
        s  == DirLookup(F, dv.dir, dv.name)
    IN  /\ Running(p)
        /\ Len(fds[p]) < MaxFds
        /\ IF dv.dir = None \/ s = None THEN UNCHANGED vars
           ELSE /\ SetFS(InodeOpen(F, s))
                /\ fds' = [fds EXCEPT ![p] = Append(@, [sector |-> s, pos |-> 0])]
                /\ UNCHANGED <<pwd, execVars>>

\* close1 -> file_close -> inode_close, and the list removal.
SysClose(p, i) ==
    /\ Running(p)
    /\ SetFS(InodeClose(FS, fds[p][i].sector))
    /\ fds' = [fds EXCEPT ![p] = RemoveAt(@, i)]
    /\ UNCHANGED <<pwd, execVars>>

\* User data written over a directory's entries: the slots the bytes
\* [lo, hi) touch no longer hold an in-use entry.
Overwrite(seq, lo, hi) ==
    LET a == lo \div EntrySize
        b == IF (hi - 1) \div EntrySize < Len(seq) - 1
             THEN (hi - 1) \div EntrySize ELSE Len(seq) - 1
    IN  IF hi <= lo \/ a >= Len(seq) THEN seq
        ELSE SubSeq(seq, 1, a) \o Blanks(b - a + 1) \o SubSeq(seq, b + 2, Len(seq))

\* write1 -> file_write: inode_write_at at the file position, which then
\* advances by the bytes written.  No check that the file is a directory.
WriteDone(p, i, f, w) ==
    /\ SetFS([w[1] EXCEPT !.ents[f.sector] = Overwrite(@, f.pos, f.pos + w[2])])
    /\ fds' = [fds EXCEPT ![p][i].pos = @ + w[2]]
    /\ UNCHANGED <<pwd, execVars>>

SysWrite(p, i, n) ==
    /\ Running(p)
    /\ fds[p][i].pos + n <= Capacity
    /\ WriteDone(p, i, fds[p][i],
                 InodeWriteAt(FS, fds[p][i].sector, n, fds[p][i].pos))

\* read1 -> file_read.
SysRead(p, i, n) ==
    /\ Running(p)
    /\ fds' = [fds EXCEPT ![p][i].pos = @ + InodeReadAt(FS, fds[p][i].sector, n, @)]
    /\ UNCHANGED <<fsVars, pwd, execVars>>

\* seek1 -> file_seek.
SysSeek(p, i, x) ==
    /\ Running(p)
    /\ fds' = [fds EXCEPT ![p][i].pos = x]
    /\ UNCHANGED <<fsVars, pwd, execVars>>

\* mkdir1 -> filesys_mkdir.  The sector is not released when dir_create
\* fails, nor the new directory when dir_add fails.
SysMkdir(p, path) ==
    LET F  == FS
        dv == DirDivide(F, Cwd(p), path)
        s  == Min(F.fm)
        Op(G) == AddCreated(DirCreate([G EXCEPT !.fm = @ \ {s}], s, 0),
                            dv.dir, dv.name, s)
    IN  /\ Running(p)
        /\ IF dv.dir = None \/ DirLookup(F, dv.dir, dv.name) # None
              \/ F.fm = {}
           THEN UNCHANGED fsVars
           ELSE SetFS(InodeClose(Op(InodeOpen(F, dv.dir)), dv.dir))
        /\ UNCHANGED procVars

\* chdir1 -> filesys_chdir.  When the name is not a directory the inode
\* dir_lookup opened is not closed.
SysChdir(p, path) ==
    LET F  == FS
        dv == DirDivide(F, Cwd(p), path)
        s  == DirLookup(F, dv.dir, dv.name)
        Op(G) == LET H == InodeOpen(G, s)
                 IN  IF pwd[p] # None THEN InodeClose(H, pwd[p]) ELSE H
    IN  /\ Running(p)
        /\ IF dv.dir = None \/ s = None THEN UNCHANGED vars
           ELSE IF ~F.ino[s].isDir
           THEN /\ SetFS(InodeOpen(F, s))
                /\ UNCHANGED procVars
           ELSE /\ SetFS(InodeClose(Op(InodeOpen(F, dv.dir)), dv.dir))
                /\ pwd' = [pwd EXCEPT ![p] = s]
                /\ UNCHANGED <<fds, execVars>>

\* process_exit: file_close of every open file, front to back.  The
\* working directory is left open.
RECURSIVE CloseAll(_, _)
CloseAll(F, files) ==
    IF files = <<>> THEN F
    ELSE CloseAll(InodeClose(F, Head(files).sector), Tail(files))

\* Mutant: process_exit closing self_file without file_allow_write.
ExitFilesKeepDeny(F, p) ==
    CloseAll(IF self[p] = None THEN F ELSE InodeClose(F, self[p]), fds[p])

\* Before the open files, process_exit closes self_file after
\* file_allow_write.  The freed child records hold no file system state.
ExitFiles(F, p) ==
    CloseAll(IF self[p] = None THEN F
             ELSE InodeClose(InodeAllowWrite(F, self[p]), self[p]), fds[p])

SysExit(p) ==
    /\ Running(p)
    /\ SetFS(ExitFiles(FS, p))
    /\ fds' = [fds EXCEPT ![p] = <<>>]
    /\ life' = [life EXCEPT ![p] = "exited"]
    /\ self' = [self EXCEPT ![p] = None]
    /\ UNCHANGED <<pwd, loadWait, cmd>>

-----------------------------------------------------------------------------
(* exec: exec1, process_execute and start_process.  exec1 does not take    *)
(* file_lock; its lookup and the child's load are taken as single steps.   *)

\* exec1 looks the name up in the root directory; the inode dir_lookup
\* opens there is never closed.  A name not found returns -1.  Otherwise
\* process_execute starts child c in start_process (thread.c is not in
\* the sources: the child starts with pwd NULL) and blocks in
\* sema_down (&file_info.load_sema).
SysExec(p, name, c) ==
    /\ Running(p)
    /\ life[c] = "unborn"
    /\ IF DirLookup(FS, ROOT_DIR_SECTOR, name) = None THEN UNCHANGED vars
       ELSE /\ SetFS(InodeOpen(FS, DirLookup(FS, ROOT_DIR_SECTOR, name)))
            /\ life' = [life EXCEPT ![c] = "loading"]
            /\ loadWait' = [loadWait EXCEPT ![p] = c]
            /\ cmd' = [cmd EXCEPT ![c] = name]
            /\ UNCHANGED <<pwd, fds, self>>

\* start_process -> load: filesys_open of the name from the child's working
\* directory, which becomes self_file with file_deny_write.  Whether the
\* ELF header and segments check out depends on the bytes, which are
\* abstracted (elfOk), except that a file shorter than the header fails
\* its file_read.  success is stored and load_sema raised; a failed load
\* goes on to thread_exit -> process_exit, closing self_file.
LoadOpened(c, s, elfOk) ==
    IF elfOk
    THEN /\ SetFS(InodeDenyWrite(InodeOpen(FS, s), s))
         /\ self' = [self EXCEPT ![c] = s]
         /\ life' = [life EXCEPT ![c] = "running"]
    ELSE /\ SetFS(InodeClose(InodeAllowWrite(InodeDenyWrite(InodeOpen(FS, s), s),
                                             s), s))
         /\ life' = [life EXCEPT ![c] = "exited"]
         /\ UNCHANGED self

StartProcess(c, elfOk) ==
    /\ life[c] = "loading"
    /\ IF DirLookup(FS, Cwd(c), cmd[c]) = None
       THEN /\ ~elfOk
            /\ life' = [life EXCEPT ![c] = "exited"]
            /\ UNCHANGED <<fsVars, self>>
       ELSE /\ elfOk => FS.ino[DirLookup(FS, Cwd(c), cmd[c])].length >= EhdrSize
            /\ LoadOpened(c, DirLookup(FS, Cwd(c), cmd[c]), elfOk)
    /\ UNCHANGED <<pwd, fds, loadWait, cmd>>

\* process_execute after sema_down: it returns the tid, or -1 if the
\* child's load failed.
ExecReturn(p) ==
    /\ loadWait[p] # None
    /\ life[loadWait[p]] # "loading"
    /\ loadWait' = [loadWait EXCEPT ![p] = None]
    /\ UNCHANGED <<fsVars, pwd, fds, life, self, cmd>>

Next ==
    \E p \in Procs :
        \/ \E path \in FilePaths, size \in CreateSizes : SysCreate(p, path, size)
        \/ \E path \in FilePaths \cup DirPaths : SysRemove(p, path)
        \/ \E path \in FilePaths : SysOpen(p, path)
        \/ \E path \in DirPaths : SysMkdir(p, path) \/ SysChdir(p, path)
        \/ \E i \in DOMAIN fds[p] :
              \/ SysClose(p, i)
              \/ \E n \in IOSizes : SysWrite(p, i, n) \/ SysRead(p, i, n)
              \/ \E x \in SeekPositions : SysSeek(p, i, x)
        \/ SysExit(p)
        \/ \E name \in ExecNames, c \in Procs : SysExec(p, name, c)
        \/ \E elfOk \in BOOLEAN : StartProcess(p, elfOk)
        \/ ExecReturn(p)

Spec == Init /\ [][Next]_vars

-----------------------------------------------------------------------------
(* Properties.                                                             *)

Live == {x \in Sectors : inode[x] # None}
Dirs == {x \in Live : inode[x].isDir}

\* The sectors an inode refers to, read through byte_to_sector (not through
\* the release loop of inode_close, whose counts they are checked against).
DataSectors(x) == {ByteToSector(inode[x], tables, pos) : pos \in 0 .. inode[x].length - 1}
NTables(x) == LET n == BytesToSectors(inode[x].length)
              IN  IF n <= DirectN THEN 0 ELSE (n - DirectN + TableLen - 1) \div TableLen
TableSectors(x) == {inode[x].indirect[t] : t \in 0 .. NTables(x) - 1}
Owned(x) == {x} \cup DataSectors(x) \cup TableSectors(x)

Entries(d) == {SlotAt(FS, d, i) : i \in InUseSlots(FS, d)}

TypeOK ==
    /\ freeMap \subseteq Sectors
    /\ inode \in [Sectors -> DiskInode \cup {None}]
    /\ tables \in [Sectors -> [TIdx -> Nat]]
    /\ openCnt \in [Sectors -> Nat]
    /\ removed \in [Sectors -> BOOLEAN]
    /\ pwd \in [Procs -> Sectors \cup {None}]
    /\ fds \in [Procs -> Seq([sector : Sectors, pos : Nat])]
    /\ denyCnt \in [Sectors -> Nat]
    /\ life \in [Procs -> {"unborn", "loading", "running", "exited"}]
    /\ loadWait \in [Procs -> Procs \cup {None}]
    /\ self \in [Procs -> Sectors \cup {None}]
    /\ cmd \in [Procs -> ExecNames \cup {None}]

\* The block maps of inode.c (byte_to_sector_write's growth, inode_create's
\* allocation, inode_close's release) agree with the free map: every
\* length-covered byte of a live inode lies in a sector of its own, each of
\* its sectors and tables is allocated exactly once, none is free or the
\* free map's sector, and no two inodes share a sector.
DiskAccounting ==
    \A x \in Live :
        /\ Cardinality(DataSectors(x)) = BytesToSectors(inode[x].length)
        /\ Cardinality(Owned(x)) = 1 + BytesToSectors(inode[x].length) + NTables(x)
        /\ Owned(x) \cap (freeMap \cup {FREE_MAP_SECTOR}) = {}
        /\ \A y \in Live \ {x} : Owned(x) \cap Owned(y) = {}

\* The namespace built by filesys_create, filesys_mkdir (with dir_add's
\* ".." fix) and filesys_remove stays a tree over live inodes: an in-use
\* entry names a live inode, names in a directory are unique, a directory
\* entered under a name points back to it through "..", and working
\* directories, open files and executables refer to inodes that were not
\* freed.
NamespaceSound ==
    /\ \A d \in Dirs :
        /\ \A e \in Entries(d) : e.sector \in Live
        /\ \A e1, e2 \in Entries(d) : e1.name = e2.name => e1 = e2
        /\ \A e \in Entries(d) :
              (e.name \notin {".", ".."} /\ e.sector \in Dirs)
                  => DirLookup(FS, e.sector, "..") = d
    /\ \A p \in Procs : pwd[p] # None => pwd[p] \in Dirs
    /\ \A p \in Procs : \A i \in DOMAIN fds[p] : fds[p][i].sector \in Live
    /\ \A p \in Procs : self[p] # None => self[p] \in Live

FdSlots == UNION {{<<p, i>> : i \in DOMAIN fds[p]} : p \in Procs}

RECURSIVE ReachFrom(_)
ReachFrom(S) ==
    LET N == S \cup {e.sector : e \in UNION {Entries(d) : d \in S \cap Dirs}}
    IN  IF N = S THEN S ELSE ReachFrom(N)

\* Each open of an inode (dir_lookup, dir_reopen, inode_open) is matched by
\* a close in the same call, or is held by an open file, a working
\* directory or a self_file: open counts equal those references, and every allocated
\* sector belongs to an inode that is reachable from the root or open.
NothingLeaked ==
    /\ \A x \in Sectors :
          openCnt[x] = Cardinality({<<p, i>> \in FdSlots : fds[p][i].sector = x})
                       + Cardinality({p \in Procs : pwd[p] = x})
                       + Cardinality({p \in Procs : self[p] = x})
    /\ Sectors \ (freeMap \cup {FREE_MAP_SECTOR}) \subseteq UNION {Owned(x) : x \in Live}
    /\ \A x \in Live : x \in ReachFrom({ROOT_DIR_SECTOR}) \/ openCnt[x] > 0

\* deny_write_cnt counts the running processes whose self_file is the inode
\* (load's file_deny_write, process_exit's file_allow_write, through exec,
\* failed loads, removal and the last inode_close), and never exceeds
\* open_cnt, as the ASSERTs of inode_deny_write and inode_allow_write
\* require.
DenyWriteAccounting ==
    \A x \in Sectors :
        /\ denyCnt[x] = Cardinality({p \in Procs : self[p] = x})
        /\ denyCnt[x] <= openCnt[x]

\* While a process runs from an executable, no step of any process (a
\* write through a descriptor opened before or after the exec, a
\* directory growth, a removal) changes that executable's on-disk inode.
ExecImmutable ==
    [][\A p \in Procs :
          (self[p] # None /\ self'[p] = self[p]) => inode'[self[p]] = inode[self[p]]]_vars
-----------------------------------------------------------------------------
(* Refinement of Namespace.  The tree is what a path walk from the root    *)
(* sees: every in-use entry other than "." and "..", by its path, a        *)
(* directory if its inode is one.  A working directory is the path of its  *)
(* sector (NULL is the root).                                              *)

EntryNames == UNION {ToSet(q.comps) : q \in FilePaths \cup DirPaths} \ {".", ".."}

\* <<path, sector>> for each name below directory d, whose path is prefix,
\* down through at most k levels of directories.
RECURSIVE NamedBelow(_, _, _)
NamedBelow(d, prefix, k) ==
    IF k = 0 \/ d \notin Dirs THEN {}
    ELSE UNION {{<<Append(prefix, e.name), e.sector>>}
                \cup (IF e.sector \in Dirs
                      THEN NamedBelow(e.sector, Append(prefix, e.name), k - 1)
                      ELSE {})
                : e \in {x \in Entries(d) : x.name \notin {".", ".."}}}

TreeView(N) ==
    [q \in {<<>>} \cup {x[1] : x \in N} |->
        IF q = <<>> \/ \E x \in N : x[1] = q /\ x[2] \in Dirs THEN "dir" ELSE "file"]

PathOf(N, x) ==
    IF x # ROOT_DIR_SECTOR /\ \E y \in N : y[2] = x
    THEN (CHOOSE y \in N : y[2] = x)[1] ELSE <<>>

CwdView(N) == [p \in Procs |-> PathOf(N, Cwd(p))]

NS == INSTANCE Namespace
        WITH Names <- EntryNames,
             tree  <- TreeView(NamedBelow(ROOT_DIR_SECTOR, <<>>, NumSectors)),
             cwd   <- CwdView(NamedBelow(ROOT_DIR_SECTOR, <<>>, NumSectors))

\* Through every interleaving of create, mkdir, remove and chdir, and every
\* failed allocation inside them, the names reachable from the root change
\* as a tree of names should: one leaf added under an existing directory,
\* or one file or empty directory that is no process's working directory
\* removed, and working directories move only to directories that exist.
NamespaceSpec == NS!Spec
=============================================================================
