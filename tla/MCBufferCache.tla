--------------------------- MODULE MCBufferCache ---------------------------
(* Model-checking instance of BufferCache.                                 *)
EXTENDS BufferCache, FixedPoint

\* Three sectors over two entries: every third sector touched evicts.
MCSectors == {0, 1, 2}
MCCacheSize == 2

\* The memory before cache[] as zero-filled .bss: an unused entry.
MCBelowZero == [buffer |-> Initial, sector_id |-> 0, accessed |-> 0,
                dirty |-> FALSE, used |-> FALSE]
\* The memory before cache[] holding a nonzero word where used and accessed
\* lie: the clock clears accessed there and moves on to cache[0].
MCBelowBusy == [buffer |-> Initial, sector_id |-> 0, accessed |-> 1,
                dirty |-> FALSE, used |-> TRUE]

\* FixedPointExact (the 17.14 macros round as exact arithmetic says, for
\* negative as well as positive values) mentions no variable; as a
\* conjunct with a state predicate TLC checks it as a state invariant.
FixedPointChecked == FixedPointExact /\ cacheCur = cacheCur
=============================================================================
