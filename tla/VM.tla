--------------------------------- MODULE VM ---------------------------------
(***************************************************************************)
(* Demand paging in OS_proj_3: the frame table and its eviction            *)
(* (vm/frame.c), the supplemental page table (vm/page.c), the swap bitmap  *)
(* (vm/swap.c), and the entry points of userprog/syscall.c that drive      *)
(* them: is_user_vaddr_valid (stack growth and lazy loading), mmap1 and    *)
(* munmap1/mmf_free.                                                       *)
(*                                                                         *)
(* Each process runs one kernel thread.  get_free_frame and sup_load_page  *)
(* run without the frame lock (its acquire is commented out at frame.c:48) *)
(* and block on disk I/O, so a thread's fault handling is split into the   *)
(* steps between which another thread can run; pc[p] says where thread p   *)
(* is and loc[p] holds its local variables.  A thread at "idle" is in user *)
(* mode, where it may store to its mapped pages.                           *)
(*                                                                         *)
(* A failed ASSERT halts the kernel: KernelPanic records it in panic and   *)
(* every other action is disabled from then on.                            *)
(***************************************************************************)
EXTENDS VMData, Sequences, SequencesExt, FiniteSets

CONSTANTS
    Frames,        \* physical pages of the user pool
    Slots,         \* swap slots (one page each)
    CodeWritable,  \* writable flag of the segment at CodePage
    AllowMunmap    \* whether processes call munmap

ASSUME /\ Frames \subseteq Nat /\ Frames # {}
       /\ Slots \subseteq Nat
       /\ CodeWritable \in BOOLEAN
       /\ AllowMunmap \in BOOLEAN

VARIABLES
    freePool,    \* free pages of palloc's user pool
    mem,         \* mem[k]: contents of physical page k
    frameTable,  \* the frame_table list, head = list front
    spt,         \* spt[p][u]: p's supplemental page table entry for u, or None
    pd,          \* pd[p][u]: p's page-table entry for u, or None
    swapFree,    \* swap_bitmap: the free slots
    swapData,    \* swapData[s]: contents of swap slot s
    fileData,    \* fileData[p][i]: on-disk page i of the file p maps
    mmaps,       \* mmaps[p]: start pages of p's mmf_list records
    pc,          \* pc[p]: where thread p is
    loc,         \* loc[p]: local variables of thread p's current call
    panic        \* None, or the ASSERT that halted the kernel

vars == <<freePool, mem, frameTable, spt, pd, swapFree, swapData, fileData,
          mmaps, pc, loc, panic>>

-----------------------------------------------------------------------------
(* Types *)

Status == {"ALL_ZERO", "ON_FRAME", "IN_SWAP", "IN_FILESYS", "IN_MMF"}

\* struct sup_page_table_entry; kpage is written but never read, so omitted.
SPTE == [status : Status, origin : Status, slot : Slots \cup {None},
         writable : BOOLEAN \cup {None}, fpage : FileIdx \cup {None}]

\* A present hardware page-table entry.
PTE == [kpage : Frames, writable : BOOLEAN, dirty : BOOLEAN]

\* struct frame_table_entry.
FTE == [kpage : Frames, upage : Pages, owner : Procs]

PCs == {"idle", "gff_palloc", "evict_pick", "evict_scan", "evict_write",
        "evict_free", "evict_realloc", "gff_setpage", "grow_install",
        "load_fill", "load_install"}

Locals == [upage : Pages \cup {None}, ret : {"grow", "load", None},
           kpage : Frames \cup {None}, victim : FTE \cup {None},
           slot : Slots \cup {None}, dirty : BOOLEAN, writable : BOOLEAN]

NoLocals == [upage |-> None, ret |-> None, kpage |-> None, victim |-> None,
             slot |-> None, dirty |-> FALSE, writable |-> TRUE]

-----------------------------------------------------------------------------
(* Supplemental page table entries as the page.c constructors build them *)

\* supt_set_page: a page with no durable backing, already on a frame.
AnonSpte == [status |-> "ON_FRAME", origin |-> "IN_SWAP", slot |-> None,
             writable |-> None, fpage |-> None]

\* supt_set_page_from_filesys, as the loader calls it for CodePage.
FilesysSpte(w) == [status |-> "IN_FILESYS", origin |-> "IN_FILESYS",
                   slot |-> None, writable |-> w, fpage |-> None]

\* supt_set_page_from_MMF for page i of the file; always writable.
MmfSpte(i) == [status |-> "IN_MMF", origin |-> "IN_MMF", slot |-> None,
               writable |-> TRUE, fpage |-> i]

\* set_sup_swap plus the status updates of the IN_SWAP / IN_FILESYS cases.
SwappedSpte(e, s) == [e EXCEPT !.status = "IN_SWAP", !.origin = "IN_SWAP",
                               !.slot = s]

\* What sup_load_page puts into a fresh PAL_ZERO frame for an entry e of p.
Backing(p, e) ==
    CASE e.status = "IN_SWAP"    -> swapData[e.slot]
      [] e.status = "IN_FILESYS" -> CodeData(p)
      [] e.status = "IN_MMF"     -> fileData[p][e.fpage]
      [] e.status = "ON_FRAME"   -> Zero

-----------------------------------------------------------------------------
Init ==
    /\ freePool = Frames
    /\ mem = [k \in Frames |-> Zero]
    /\ frameTable = <<>>
    /\ spt = [p \in Procs |-> [u \in Pages |->
                IF u = CodePage THEN FilesysSpte(CodeWritable) ELSE None]]
    /\ pd = [p \in Procs |-> [u \in Pages |-> None]]
    /\ swapFree = Slots
    /\ swapData = [s \in Slots |-> Zero]
    /\ fileData = [p \in Procs |-> [i \in FileIdx |-> FileData(p, i)]]
    /\ mmaps = [p \in Procs |-> {}]
    /\ pc = [p \in Procs |-> "idle"]
    /\ loc = [p \in Procs |-> NoLocals]
    /\ panic = None

At(p, l) == panic = None /\ pc[p] = l
Goto(p, l) == pc' = [pc EXCEPT ![p] = l]

\* The entry of the frame thread p is evicting, read through its owner.
VictimSpte(p) == spt[loc[p].victim.owner][loc[p].victim.upage]

\* What a kernel access to user address u of the running thread p reads.
UserRead(p, u) == mem[pd[p][u].kpage]

-----------------------------------------------------------------------------
(* is_user_vaddr_valid, after the NULL / kernel / below-0x8048000 checks,  *)
(* for an address in page u that pagedir_get_page does not map.  The user *)
(* sets esp, so whether the address is above esp (or at esp-4, esp-32) is  *)
(* the process's choice.                                                   *)

\* Stack branch, no SPTE: get_free_frame then pagedir_set_page writable.
StackGrowth(p, u) ==
    /\ At(p, "idle")
    /\ pd[p][u] = None
    /\ spt[p][u] = None
    /\ Goto(p, "gff_palloc")
    /\ loc' = [loc EXCEPT ![p] = [NoLocals EXCEPT !.upage = u, !.ret = "grow"]]
    /\ UNCHANGED <<freePool, mem, frameTable, spt, pd, swapFree, swapData,
                   fileData, mmaps, panic>>

\* Other branch, SPTE present: sup_load_page, which starts in get_free_frame.
LoadPage(p, u) ==
    /\ At(p, "idle")
    /\ pd[p][u] = None
    /\ spt[p][u] # None
    /\ Goto(p, "gff_palloc")
    /\ loc' = [loc EXCEPT ![p] = [NoLocals EXCEPT !.upage = u, !.ret = "load"]]
    /\ UNCHANGED <<freePool, mem, frameTable, spt, pd, swapFree, swapData,
                   fileData, mmaps, panic>>

-----------------------------------------------------------------------------
(* get_free_frame *)

\* palloc_get_page (PAL_ZERO | PAL_USER) finds a free page (the lowest).
PallocHit(p) ==
    /\ At(p, "gff_palloc")
    /\ freePool # {}
    /\ LET k == Min(freePool) IN
         /\ freePool' = freePool \ {k}
         /\ mem' = [mem EXCEPT ![k] = Zero]
         /\ loc' = [loc EXCEPT ![p].kpage = k]
    /\ Goto(p, "gff_setpage")
    /\ UNCHANGED <<frameTable, spt, pd, swapFree, swapData, fileData, mmaps,
                   panic>>

\* palloc_get_page returns NULL: evict.
PallocMiss(p) ==
    /\ At(p, "gff_palloc")
    /\ freePool = {}
    /\ Goto(p, "evict_pick")
    /\ UNCHANGED <<freePool, mem, frameTable, spt, pd, swapFree, swapData,
                   fileData, mmaps, loc, panic>>

\* frame_to_evict takes list_back; the owner's SPTE is looked up and must
\* exist and be ON_FRAME (the failing cases are in KernelPanic).
EvictPick(p) ==
    /\ At(p, "evict_pick")
    /\ frameTable # <<>>
    /\ LET f == Last(frameTable)
           e == spt[f.owner][f.upage]
       IN  /\ e # None
           /\ e.status = "ON_FRAME"
           /\ loc' = [loc EXCEPT ![p].victim = f, ![p].kpage = f.kpage]
    /\ Goto(p, "evict_scan")
    /\ UNCHANGED <<freePool, mem, frameTable, spt, pd, swapFree, swapData,
                   fileData, mmaps, panic>>

\* The switch on origin_status reads its input: swap_out's bitmap_scan for
\* the first free slot, or pagedir_is_dirty for an mmap page.
EvictScan(p) ==
    /\ At(p, "evict_scan")
    /\ VictimSpte(p) # None
    /\ \/ /\ VictimSpte(p).origin \in {"IN_SWAP", "IN_FILESYS"}
          /\ swapFree # {}
          /\ loc' = [loc EXCEPT ![p].slot = Min(swapFree)]
       \/ /\ VictimSpte(p).origin = "IN_MMF"
          /\ LET t == pd[loc[p].victim.owner][loc[p].victim.upage] IN
               loc' = [loc EXCEPT ![p].dirty = (t # None /\ t.dirty)]
    /\ Goto(p, "evict_write")
    /\ UNCHANGED <<freePool, mem, frameTable, spt, pd, swapFree, swapData,
                   fileData, mmaps, panic>>

\* Mutant: a dirty mmap page is dropped instead of written back.
EvictWriteNoWriteback(p) ==
    /\ At(p, "evict_write")
    /\ VictimSpte(p) # None
    /\ LET f == loc[p].victim
           e == VictimSpte(p)
       IN  \/ /\ e.origin \in {"IN_SWAP", "IN_FILESYS"}
              /\ swapData' = [swapData EXCEPT ![loc[p].slot] = mem[f.kpage]]
              /\ swapFree' = swapFree \ {loc[p].slot}
              /\ spt' = [spt EXCEPT ![f.owner][f.upage] =
                                         SwappedSpte(e, loc[p].slot)]
              /\ UNCHANGED fileData
           \/ /\ e.origin = "IN_MMF"
              /\ spt' = [spt EXCEPT ![f.owner][f.upage].status = "IN_MMF"]
              /\ UNCHANGED <<swapData, swapFree, fileData>>
    /\ Goto(p, "evict_free")
    /\ UNCHANGED <<freePool, mem, frameTable, pd, mmaps, loc, panic>>

\* The rest of the switch: swap_out writes the frame to the slot and marks
\* it used, or a dirty mmap page is written back with file_write from
\* spte->upage, an address the running thread p resolves in its own page
\* directory.
EvictWrite(p) ==
    /\ At(p, "evict_write")
    /\ VictimSpte(p) # None
    /\ LET f == loc[p].victim
           e == VictimSpte(p)
       IN  \/ /\ e.origin \in {"IN_SWAP", "IN_FILESYS"}
              /\ swapData' = [swapData EXCEPT ![loc[p].slot] = mem[f.kpage]]
              /\ swapFree' = swapFree \ {loc[p].slot}
              /\ spt' = [spt EXCEPT ![f.owner][f.upage] =
                                         SwappedSpte(e, loc[p].slot)]
              /\ UNCHANGED fileData
           \/ /\ e.origin = "IN_MMF"
              /\ (~loc[p].dirty \/ pd[p][f.upage] # None)
              /\ fileData' = IF loc[p].dirty
                             THEN [fileData EXCEPT ![f.owner][e.fpage] =
                                                       UserRead(p, f.upage)]
                             ELSE fileData
              /\ spt' = [spt EXCEPT ![f.owner][f.upage].status = "IN_MMF"]
              /\ UNCHANGED <<swapData, swapFree>>
    /\ Goto(p, "evict_free")
    /\ UNCHANGED <<freePool, mem, frameTable, pd, mmaps, loc, panic>>

\* Mutant: the victim's entry is left in frame_table (no list_remove).
EvictFreeKeepEntry(p) ==
    /\ At(p, "evict_free")
    /\ LET f == loc[p].victim IN
         /\ f.kpage \notin freePool
         /\ pd' = [pd EXCEPT ![f.owner][f.upage] = None]
         /\ freePool' = freePool \cup {f.kpage}
    /\ Goto(p, "evict_realloc")
    /\ UNCHANGED <<mem, frameTable, spt, swapFree, swapData, fileData, mmaps,
                   loc, panic>>

\* pagedir_clear_page, palloc_free_page (which must not free a free page)
\* and list_remove of the victim.
EvictFree(p) ==
    /\ At(p, "evict_free")
    /\ LET f == loc[p].victim IN
         /\ f.kpage \notin freePool
         /\ pd' = [pd EXCEPT ![f.owner][f.upage] = None]
         /\ freePool' = freePool \cup {f.kpage}
         /\ frameTable' = Remove(frameTable, f)
    /\ Goto(p, "evict_realloc")
    /\ UNCHANGED <<mem, spt, swapFree, swapData, fileData, mmaps, loc, panic>>

\* palloc_get_page again; ASSERT (kpage != NULL).
EvictRealloc(p) ==
    /\ At(p, "evict_realloc")
    /\ freePool # {}
    /\ LET k == Min(freePool) IN
         /\ freePool' = freePool \ {k}
         /\ mem' = [mem EXCEPT ![k] = Zero]
         /\ loc' = [loc EXCEPT ![p].kpage = k]
    /\ Goto(p, "gff_setpage")
    /\ UNCHANGED <<frameTable, spt, pd, swapFree, swapData, fileData, mmaps,
                   panic>>

\* Tail of get_free_frame: supt_set_page if the page has no SPTE, then
\* frame_table_set_page (under frame_lock) pushes the entry to the front.
FrameSetPage(p) ==
    /\ At(p, "gff_setpage")
    /\ LET u == loc[p].upage IN
         /\ spt' = IF spt[p][u] = None
                   THEN [spt EXCEPT ![p][u] = AnonSpte] ELSE spt
         /\ frameTable' = Cons([kpage |-> loc[p].kpage, upage |-> u,
                                owner |-> p], frameTable)
    /\ Goto(p, IF loc[p].ret = "grow" THEN "grow_install" ELSE "load_fill")
    /\ UNCHANGED <<freePool, mem, pd, swapFree, swapData, fileData, mmaps,
                   loc, panic>>

-----------------------------------------------------------------------------
(* Completion of the two branches of is_user_vaddr_valid *)

\* pagedir_set_page (pd, upage, kpage, true) for the new stack page.
GrowInstall(p) ==
    /\ At(p, "grow_install")
    /\ pd[p][loc[p].upage] = None
    /\ pd' = [pd EXCEPT ![p][loc[p].upage] =
                [kpage |-> loc[p].kpage, writable |-> TRUE, dirty |-> FALSE]]
    /\ Goto(p, "idle")
    /\ loc' = [loc EXCEPT ![p] = NoLocals]
    /\ UNCHANGED <<freePool, mem, frameTable, spt, swapFree, swapData,
                   fileData, mmaps, panic>>

\* Mutant: every status takes spte->writable, None for anonymous pages.
LoadFillAllWritable(p) ==
    /\ At(p, "load_fill")
    /\ LET e == spt[p][loc[p].upage]
           k == loc[p].kpage
       IN  /\ mem' = [mem EXCEPT ![k] = Backing(p, e)]
           /\ swapFree' = IF e.status = "IN_SWAP"
                          THEN swapFree \cup {e.slot} ELSE swapFree
           /\ loc' = [loc EXCEPT ![p].writable = e.writable]
    /\ Goto(p, "load_install")
    /\ UNCHANGED <<freePool, frameTable, spt, pd, swapData, fileData, mmaps,
                   panic>>

\* Mutant: swap_in reads the slot but never bitmap_resets it.
LoadFillKeepSlot(p) ==
    /\ At(p, "load_fill")
    /\ LET e == spt[p][loc[p].upage]
           k == loc[p].kpage
       IN  /\ mem' = [mem EXCEPT ![k] = Backing(p, e)]
           /\ loc' = [loc EXCEPT ![p].writable =
                         IF e.status = "IN_FILESYS" THEN e.writable ELSE TRUE]
    /\ Goto(p, "load_install")
    /\ UNCHANGED <<freePool, frameTable, spt, pd, swapFree, swapData,
                   fileData, mmaps, panic>>

\* sup_load_page's switch on spte->status: swap_in (which frees the slot),
\* or a read of the executable or mapped file; ON_FRAME leaves the zeroed
\* frame.  Only IN_FILESYS takes the entry's writable flag.
LoadFill(p) ==
    /\ At(p, "load_fill")
    /\ LET e == spt[p][loc[p].upage]
           k == loc[p].kpage
       IN  /\ mem' = [mem EXCEPT ![k] = Backing(p, e)]
           /\ swapFree' = IF e.status = "IN_SWAP"
                          THEN swapFree \cup {e.slot} ELSE swapFree
           /\ loc' = [loc EXCEPT ![p].writable =
                         IF e.status = "IN_FILESYS" THEN e.writable ELSE TRUE]
    /\ Goto(p, "load_install")
    /\ UNCHANGED <<freePool, frameTable, spt, pd, swapData, fileData, mmaps,
                   panic>>

\* pagedir_set_page with the resolved flag, then status = ON_FRAME.
LoadInstall(p) ==
    /\ At(p, "load_install")
    /\ LET u == loc[p].upage IN
         /\ pd[p][u] = None
         /\ pd' = [pd EXCEPT ![p][u] = [kpage |-> loc[p].kpage,
                                        writable |-> loc[p].writable,
                                        dirty |-> FALSE]]
         /\ spt' = [spt EXCEPT ![p][u].status = "ON_FRAME"]
    /\ Goto(p, "idle")
    /\ loc' = [loc EXCEPT ![p] = NoLocals]
    /\ UNCHANGED <<freePool, mem, frameTable, swapFree, swapData, fileData,
                   mmaps, panic>>

-----------------------------------------------------------------------------
(* User mode and the mmap system calls *)

\* A user store to a present writable page sets its dirty bit.
UserWrite(p, u) ==
    /\ At(p, "idle")
    /\ pd[p][u] # None
    /\ pd[p][u].writable
    /\ mem' = [mem EXCEPT ![pd[p][u].kpage] = Written(p, u)]
    /\ pd' = [pd EXCEPT ![p][u].dirty = TRUE]
    /\ UNCHANGED <<freePool, frameTable, spt, swapFree, swapData, fileData,
                   mmaps, pc, loc, panic>>

\* mmap1 succeeding at page a: no page of the range has an SPTE or a
\* mapping; one IN_MMF entry per file page; mmf_create records the mapping
\* (its id is abstracted to a, unique since mappings never overlap).  At
\* most one live mapping of the file per process is modelled.
Mmap(p, a) ==
    /\ At(p, "idle")
    /\ mmaps[p] = {}
    /\ MappedRange(a) \subseteq Pages
    /\ \A v \in MappedRange(a) : spt[p][v] = None /\ pd[p][v] = None
    /\ spt' = [spt EXCEPT ![p] = [v \in Pages |->
                 IF v \in MappedRange(a) THEN MmfSpte(v - a) ELSE @[v]]]
    /\ mmaps' = [mmaps EXCEPT ![p] = {a}]
    /\ UNCHANGED <<freePool, mem, frameTable, pd, swapFree, swapData,
                   fileData, pc, loc, panic>>

\* munmap1 finding the record, then mmf_free: each page's SPTE is deleted,
\* a resident dirty page first written back from its user address.  The
\* page-table entry and the frame-table entry are left as they are.
Munmap(p, a) ==
    /\ AllowMunmap
    /\ At(p, "idle")
    /\ a \in mmaps[p]
    /\ fileData' = [fileData EXCEPT ![p] = [i \in FileIdx |->
                      LET e == spt[p][a + i]
                          t == pd[p][a + i]
                      IN  IF e # None /\ e.status = "ON_FRAME"
                             /\ t # None /\ t.dirty
                          THEN UserRead(p, a + i) ELSE @[i]]]
    /\ spt' = [spt EXCEPT ![p] = [v \in Pages |->
                 IF v \in MappedRange(a) THEN None ELSE @[v]]]
    /\ mmaps' = [mmaps EXCEPT ![p] = @ \ {a}]
    /\ UNCHANGED <<freePool, mem, frameTable, pd, swapFree, swapData, pc,
                   loc, panic>>

-----------------------------------------------------------------------------
(* A failing ASSERT on thread p's next step halts the kernel. *)
KernelPanic(p) ==
    /\ panic = None
    /\ LET f == loc[p].victim IN
       \/ /\ pc[p] = "evict_pick" /\ frameTable = <<>>
          /\ panic' = "list_back of an empty frame_table"
       \/ /\ pc[p] = "evict_pick" /\ frameTable # <<>>
          /\ spt[Last(frameTable).owner][Last(frameTable).upage] = None
          /\ panic' = "ASSERT (spte != NULL)"
       \/ /\ pc[p] = "evict_pick" /\ frameTable # <<>>
          /\ spt[Last(frameTable).owner][Last(frameTable).upage] # None
          /\ spt[Last(frameTable).owner][Last(frameTable).upage].status
                # "ON_FRAME"
          /\ panic' = "ASSERT (spte->status == ON_FRAME)"
       \/ /\ pc[p] \in {"evict_scan", "evict_write"} /\ VictimSpte(p) = None
          /\ panic' = "use of a freed spte"
       \/ /\ pc[p] = "evict_scan" /\ VictimSpte(p) # None
          /\ VictimSpte(p).origin \in {"IN_SWAP", "IN_FILESYS"}
          /\ swapFree = {}
          /\ panic' = "ASSERT (swap_index != BITMAP_ERROR)"
       \/ /\ pc[p] = "evict_write" /\ VictimSpte(p) # None
          /\ VictimSpte(p).origin = "IN_MMF" /\ loc[p].dirty
          /\ pd[p][f.upage] = None
          /\ panic' = "kernel page fault in file_write"
       \/ /\ pc[p] = "evict_free" /\ f.kpage \in freePool
          /\ panic' = "palloc_free_page of a free page"
       \/ /\ pc[p] = "evict_realloc" /\ freePool = {}
          /\ panic' = "ASSERT (kpage != NULL)"
       \/ /\ pc[p] \in {"grow_install", "load_install"}
          /\ pd[p][loc[p].upage] # None
          /\ panic' = "pagedir_set_page over a present mapping"
    /\ UNCHANGED <<freePool, mem, frameTable, spt, pd, swapFree, swapData,
                   fileData, mmaps, pc, loc>>

-----------------------------------------------------------------------------
Next ==
    \/ \E p \in Procs :
          \/ PallocHit(p) \/ PallocMiss(p)
          \/ EvictPick(p) \/ EvictScan(p) \/ EvictWrite(p) \/ EvictFree(p)
          \/ EvictRealloc(p) \/ FrameSetPage(p)
          \/ GrowInstall(p) \/ LoadFill(p) \/ LoadInstall(p)
          \/ KernelPanic(p)
    \/ \E p \in Procs, u \in Pages :
          \/ StackGrowth(p, u) \/ LoadPage(p, u) \/ UserWrite(p, u)
          \/ Mmap(p, u) \/ Munmap(p, u)

Spec == Init /\ [][Next]_vars

-----------------------------------------------------------------------------
(* Properties *)

TypeOK ==
    /\ freePool \subseteq Frames
    /\ mem \in [Frames -> Data]
    /\ frameTable \in Seq(FTE)
    /\ spt \in [Procs -> [Pages -> SPTE \cup {None}]]
    /\ pd \in [Procs -> [Pages -> PTE \cup {None}]]
    /\ swapFree \subseteq Slots
    /\ swapData \in [Slots -> Data]
    /\ fileData \in [Procs -> [FileIdx -> Data]]
    /\ mmaps \in [Procs -> SUBSET Pages]
    /\ pc \in [Procs -> PCs]
    /\ loc \in [Procs -> Locals]
    /\ panic \in STRING \cup {None}

\* No ASSERT of get_free_frame, swap_out, palloc or pagedir fails: the
\* frame table, the SPTEs and the pool agree whenever eviction reads them.
NoPanic == panic = None

\* Every physical page of the user pool is in exactly one place: free in
\* palloc, once in frame_table, or held by a thread between palloc and
\* frame_table_set_page; and every mapped page has its frame-table entry.
\* (That every entry still has an SPTE is what eviction ASSERTs: NoPanic.)
FrameAccounting ==
    LET inTable == {frameTable[i].kpage : i \in 1 .. Len(frameTable)}
        holders == {q \in Procs : pc[q] = "gff_setpage"}
    IN  /\ freePool \cup inTable \cup {loc[q].kpage : q \in holders} = Frames
        /\ Cardinality(freePool) + Len(frameTable) + Cardinality(holders)
              = Cardinality(Frames)
        /\ \A p \in Procs, u \in Pages :
              pd[p][u] # None =>
                 [kpage |-> pd[p][u].kpage, upage |-> u, owner |-> p]
                    \in ToSet(frameTable)

\* Two swapped-out pages never share a slot, a swapped-out page's slot is
\* marked used (except between swap_in and the end of its load), and every
\* used slot holds some swapped-out page (no slot is leaked).
SwapSlotsExclusive ==
    LET swapped == {<<p, u>> \in Procs \X Pages :
                       spt[p][u] # None /\ spt[p][u].status = "IN_SWAP"}
        loading(p, u) == pc[p] = "load_install" /\ loc[p].upage = u
    IN  /\ \A x, y \in swapped :
              x # y => spt[x[1]][x[2]].slot # spt[y[1]][y[2]].slot
        /\ \A x \in swapped :
              ~loading(x[1], x[2]) => spt[x[1]][x[2]].slot \notin swapFree
        /\ \A s \in Slots \ swapFree :
              \E x \in swapped : spt[x[1]][x[2]].slot = s

\* The page table never grants write access that the page's SPTE denies:
\* a read-only segment stays read-only across eviction and reload.
WritableRespected ==
    \A p \in Procs, u \in Pages :
        (pd[p][u] # None /\ pd[p][u].writable) =>
            (spt[p][u] = None \/ spt[p][u].writable # FALSE)

-----------------------------------------------------------------------------
(* Refinement of VMMemory.  A page with an SPTE shows its frame when it is *)
(* mapped and otherwise what sup_load_page would load; while the file is   *)
(* mapped, its pages are read through the mapping.                         *)

View(p, u) ==
    IF spt[p][u] = None THEN None
    ELSE IF pd[p][u] # None THEN mem[pd[p][u].kpage]
    ELSE Backing(p, spt[p][u])

FileView(p) ==
    [i \in FileIdx |-> IF mmaps[p] = {} THEN fileData[p][i]
                       ELSE View(p, (CHOOSE a \in mmaps[p] : TRUE) + i)]

Abs == INSTANCE VMMemory
         WITH memory <- [p \in Procs |-> [u \in Pages |-> View(p, u)]],
              files  <- [p \in Procs |-> FileView(p)],
              maps   <- mmaps

\* Paging is invisible: every step either leaves every process's memory
\* and mapped file as they were or is a touch, store, map or unmap of them.
MemorySpec == Abs!Spec
=============================================================================
