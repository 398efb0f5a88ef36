------------------------------ MODULE MCFileSys ------------------------------
(* Bindings of FileSys for TLC.  Sectors of 2 bytes, entries of 1 byte, one *)
(* direct block and one indirect table of two entries: a directory of two  *)
(* entries fills the direct block, a third entry goes through the table.   *)
EXTENDS FileSys

CONSTANTS p1, p2, p3

MCProcs1 == {p1}
MCProcs2 == {p1, p2}
MCProcs3 == {p1, p2, p3}
\* The two processes not running at boot start alike: exchanging them maps
\* behaviours to behaviours.
MCExecSymmetry == Permutations({p2, p3})

\* Paths as dir_divide splits them.  The long one stands for a name such as
\* "./././././././a": more than 14 characters, resolving to "a".
PathA    == [abs |-> FALSE, comps |-> <<"a">>, long |-> FALSE]
PathDA   == [abs |-> TRUE,  comps |-> <<"d", "a">>, long |-> FALSE]
PathLong == [abs |-> FALSE, comps |-> <<".", "a">>, long |-> TRUE]
PathD    == [abs |-> FALSE, comps |-> <<"d">>, long |-> FALSE]
PathUp   == [abs |-> FALSE, comps |-> <<"..">>, long |-> FALSE]
PathRoot == [abs |-> TRUE,  comps |-> <<>>, long |-> FALSE]

MCFilePaths == {PathA, PathDA, PathLong}
\* Without the long name: its leaked open count only grows the state space
\* of the passing run; NothingLeaked (run fs_leak) is the property about it.
MCShortFilePaths == {PathA, PathDA}
MCDirPaths  == {PathD, PathUp, PathRoot}

\* The leaks of filesys_create and filesys_chdir raise open counts without
\* bound; behaviours are cut where a count passes MaxOpenCnt.  Three opens
\* of one executable (a descriptor, exec1's leaked open and the running
\* child's own) are needed for a write to reach a running program.
MaxOpenCnt == 3
OpenCntBound == \A x \in Sectors : openCnt[x] <= MaxOpenCnt
============================================================================
