------------------------------- MODULE VMData -------------------------------
(***************************************************************************)
(* Constants and page contents shared by the models of the virtual-memory  *)
(* subsystem of OS_proj_3 (src/OS_proj_3/vm and userprog/syscall.c).       *)
(*                                                                         *)
(* A page's bytes are abstracted to where they came from: the zero page    *)
(* of palloc (PAL_ZERO), the executable segment the loader declared, a     *)
(* page of the file a process maps with mmap, or the last user store to    *)
(* the page.  Two pages hold equal values exactly when a correct kernel    *)
(* would make them hold the same bytes, which is all the data properties   *)
(* need to tell apart.                                                     *)
(***************************************************************************)
EXTENDS Integers

CONSTANTS
    Procs,      \* user processes; each runs one kernel thread
    Pages,      \* user virtual page numbers (page 0, the NULL page, excluded)
    CodePage,   \* the page the ELF loader declares file-backed
    FilePages,  \* length in pages of the file each process maps with mmap
    None        \* model value: an absent entry or an unset field

ASSUME /\ Pages \subseteq Nat \ {0}
       /\ CodePage \in Pages
       /\ FilePages \in Nat \ {0}

\* Page indices of the mapped file (file_offset / PGSIZE).
FileIdx == 0 .. FilePages - 1

Zero            == <<"zero">>
Written(p, u)   == <<"user", p, u>>
CodeData(p)     == <<"code", p>>
FileData(p, i)  == <<"file", p, i>>

Data == {Zero}
        \cup {Written(p, u) : p \in Procs, u \in Pages}
        \cup {CodeData(p) : p \in Procs}
        \cup {FileData(p, i) : p \in Procs, i \in FileIdx}

\* The pages a mapping of the whole file at page a covers.
MappedRange(a) == a .. a + FilePages - 1
=============================================================================
