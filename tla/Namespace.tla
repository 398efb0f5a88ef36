------------------------------ MODULE Namespace ------------------------------
(***************************************************************************)
(* What the path system calls of OS_proj_4 (create, mkdir, remove, chdir)  *)
(* promise about the directory tree, whatever happens to sectors, open     *)
(* counts and failed allocations underneath.                               *)
(*                                                                         *)
(* The tree is a function from paths (sequences of names from the root)   *)
(* to the kind of what is there; its DOMAIN is the set of names that       *)
(* exist.  Each process has a working directory, a path.  The tree grows   *)
(* by one leaf under an existing directory, and loses one leaf at a time: *)
(* a file, or an empty directory that is no process's working directory.  *)
(* A call that fails changes nothing.                                      *)
(***************************************************************************)
EXTENDS Naturals, Sequences, TLC

CONSTANTS
    Procs,   \* processes
    Names    \* names a directory entry can have (not "." or "..")

VARIABLES
    tree,    \* tree[q]: "file" or "dir", for each path q that exists
    cwd      \* cwd[p]: p's working directory

nsVars == <<tree, cwd>>

Kinds == {"file", "dir"}

Parent(q) == SubSeq(q, 1, Len(q) - 1)

IsDir(q) == q \in DOMAIN tree /\ tree[q] = "dir"

HasChildren(q) == \E c \in DOMAIN tree : c # <<>> /\ Parent(c) = q

Init ==
    /\ tree = (<<>> :> "dir")
    /\ cwd = [p \in Procs |-> <<>>]

\* create or mkdir: a new name in an existing directory.
Add(d, n, k) ==
    /\ IsDir(d)
    /\ Append(d, n) \notin DOMAIN tree
    /\ tree' = [q \in DOMAIN tree \cup {Append(d, n)} |->
                  IF q = Append(d, n) THEN k ELSE tree[q]]
    /\ UNCHANGED cwd

\* remove: a file, or an empty directory nobody works in.  The root stays.
Drop(q) ==
    /\ q \in DOMAIN tree
    /\ q # <<>>
    /\ ~HasChildren(q)
    /\ tree[q] = "dir" => \A p \in Procs : cwd[p] # q
    /\ tree' = [c \in DOMAIN tree \ {q} |-> tree[c]]
    /\ UNCHANGED cwd

\* chdir: to a directory that exists.
Chdir(p, q) ==
    /\ IsDir(q)
    /\ cwd' = [cwd EXCEPT ![p] = q]
    /\ UNCHANGED tree

Next ==
    \/ \E d \in DOMAIN tree, n \in Names, k \in Kinds : Add(d, n, k)
    \/ \E q \in DOMAIN tree : Drop(q)
    \/ \E p \in Procs, q \in DOMAIN tree : Chdir(p, q)

\* [Next]_nsVars with the stuttering case first: most steps of a refining
\* specification leave the tree alone, and that is the cheap case to check.
Spec == Init /\ [][UNCHANGED nsVars \/ Next]_nsVars
=============================================================================
