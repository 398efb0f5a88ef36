------------------------------ MODULE VMMemory ------------------------------
(***************************************************************************)
(* What demand paging promises a user process: its address space is a map  *)
(* from pages to contents that changes only by the process's own actions - *)
(* touching a new stack page, storing to a page, mapping and unmapping its *)
(* file - and never by paging.  While the file is mapped, the file and the *)
(* mapped pages are one object: a store to a mapped page is a store to the *)
(* file, which munmap leaves behind.  Frames, swap slots and eviction do   *)
(* not appear here; VM refines this module under a mapping that reads each *)
(* page from wherever its SPTE says it lives.                              *)
(***************************************************************************)
EXTENDS VMData

VARIABLES
    memory,   \* memory[p][u]: contents of page u of process p, or None
    files,    \* files[p][i]: page i of the file process p maps
    maps      \* maps[p]: start pages of p's live mappings

vars == <<memory, files, maps>>

Init ==
    /\ memory = [p \in Procs |-> [u \in Pages |->
                    IF u = CodePage THEN CodeData(p) ELSE None]]
    /\ files = [p \in Procs |-> [i \in FileIdx |-> FileData(p, i)]]
    /\ maps = [p \in Procs |-> {}]

\* A new page appears holding zeros (stack growth).
Touch(p, u) ==
    /\ memory[p][u] = None
    /\ memory' = [memory EXCEPT ![p][u] = Zero]
    /\ UNCHANGED <<files, maps>>

\* A store to a present page; a mapped page's file page changes with it.
Store(p, u) ==
    /\ memory[p][u] # None
    /\ memory' = [memory EXCEPT ![p][u] = Written(p, u)]
    /\ files' = [files EXCEPT ![p] =
                   [i \in FileIdx |->
                      IF \E a \in maps[p] : u = a + i THEN Written(p, u)
                      ELSE @[i]]]
    /\ UNCHANGED maps

\* The file appears at pages a .. a+FilePages-1, all of which were absent.
MapFile(p, a) ==
    /\ maps[p] = {}
    /\ MappedRange(a) \subseteq Pages
    /\ \A v \in MappedRange(a) : memory[p][v] = None
    /\ memory' = [memory EXCEPT ![p] =
                    [v \in Pages |-> IF v \in MappedRange(a)
                                     THEN files[p][v - a] ELSE @[v]]]
    /\ maps' = [maps EXCEPT ![p] = {a}]
    /\ UNCHANGED files

\* The mapped pages disappear; the file keeps what they last held.
UnmapFile(p, a) ==
    /\ a \in maps[p]
    /\ memory' = [memory EXCEPT ![p] =
                    [v \in Pages |-> IF v \in MappedRange(a) THEN None
                                     ELSE @[v]]]
    /\ maps' = [maps EXCEPT ![p] = @ \ {a}]
    /\ UNCHANGED files

Next ==
    \E p \in Procs, u \in Pages :
        \/ Touch(p, u)
        \/ Store(p, u)
        \/ MapFile(p, u)
        \/ UnmapFile(p, u)

Spec == Init /\ [][Next]_vars
=============================================================================
