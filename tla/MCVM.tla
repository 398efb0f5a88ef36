-------------------------------- MODULE MCVM --------------------------------
(* Model-checking instance of VM: the constants the .cfg files bind.       *)
EXTENDS VM

\* Three user pages over two frames, so every third page forces an eviction.
MCPages  == {1, 2, 3}
MCFrames == {1, 2}
\* Two slots: at most two pages can be out of memory with one of them
\* mid-load, so the swap device never fills in a correct run.
MCSlots  == {1, 2}

\* Processes are interchangeable: nothing in VM depends on which one is which.
MCProcsSymmetry == Permutations(Procs)
=============================================================================
