------------------------------- MODULE MCSynch -------------------------------
(* Model-checking instance of Synch.                                       *)
EXTENDS Synch

CONSTANTS t1, t2, t3

MCThreads2 == {t1, t2}
MCThreads3 == {t1, t2, t3}

\* Distinct priorities, so every ordering decision is visible.
MCPri == (t1 :> 31) @@ (t2 :> 32) @@ (t3 :> 33)

MCPri2 == (t1 :> 31) @@ (t2 :> 32)

\* Junk read from the stack: below and above every priority.
MCJunk == {0, 63}
=============================================================================
