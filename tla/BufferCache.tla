----------------------------- MODULE BufferCache -----------------------------
(***************************************************************************)
(* The buffer cache of OS_proj_4 (filesys/cache.c).                        *)
(*                                                                         *)
(* cache_read, cache_write and cache_back_to_disk do all their work on the *)
(* cache under cache_big_lock, so each locked section is one atomic step.  *)
(* cache_write releases the lock before its write-through block_write, so  *)
(* that write is a separate step of the calling thread.  The write-behind  *)
(* thread runs cache_back_to_disk whenever its timer fires.                *)
(*                                                                         *)
(* The array has CacheSize entries, 0 .. CacheSize-1.  cache_init sets     *)
(* cache_cur to -1, so the first fetch_free_cache reads cache[-1], the     *)
(* memory just before the array: the model gives the array an index -1     *)
(* whose contents are BelowCache and which find_sector and                 *)
(* cache_back_to_disk never visit, as in the code.                         *)
(***************************************************************************)
EXTENDS Integers, FiniteSets

CONSTANTS
    Threads,     \* kernel threads calling cache_read / cache_write
    Sectors,     \* block_sector_t values used
    Values,      \* sector contents a thread may write
    Initial,     \* contents of every sector before any write
    CacheSize,   \* entries of the cache array (64 in the code)
    BelowCache   \* what cache[-1] holds: the memory before the array

ASSUME /\ Sectors \subseteq Nat /\ Sectors # {}
       /\ Initial \notin Values
       /\ CacheSize \in Nat \ {0}

Data == Values \cup {Initial, BelowCache.buffer}

\* struct cache_sector without its unused per-entry lock.  accessed is kept
\* saturated at 1: the code only ever tests accessed == 0.
Entry == [buffer : Data, sector_id : Sectors \cup {BelowCache.sector_id},
          accessed : 0 .. 1, dirty : BOOLEAN, used : BOOLEAN]

ASSUME BelowCache \in Entry

Idx == -1 .. CacheSize - 1       \* -1: the memory before cache[0]
InArray == 0 .. CacheSize - 1

VARIABLES
    cache,     \* cache[i]: entry i; cache[-1] the memory before the array
    cacheCur,  \* cache_cur, the clock hand
    disk,      \* disk[s]: contents of sector s on fs_device
    pc,        \* pc[t]: "idle", or "write_through" after cache_write unlocks
    pend,      \* pend[t]: sector and buffer of t's pending write-through
    last       \* last[s]: the buffer of the cache_write to s that updated
               \* the cache last (history variable, not in the code)

vars == <<cache, cacheCur, disk, pc, pend, last>>

NoPend == [sector |-> CHOOSE s \in Sectors : TRUE, buffer |-> Initial]

-----------------------------------------------------------------------------
(* find_sector: the first used entry of the array holding sector s, or -1. *)
FindSector(c, s) ==
    LET hits == {i \in InArray : c[i].used /\ c[i].sector_id = s}
    IN  IF hits = {} THEN -1
        ELSE CHOOSE i \in hits : \A j \in hits : i <= j

\* Mutant: the clock takes an entry only when its accessed count is 0.
RECURSIVE ClockScanIgnoreUsed(_, _)
ClockScanIgnoreUsed(c, cur) ==
    IF c[cur].accessed = 0 THEN <<cur, c>>
    ELSE ClockScanIgnoreUsed([c EXCEPT ![cur].accessed = 0],
                             (cur + 1) % CacheSize)

(* The clock loop of fetch_free_cache from hand position cur: an unused or *)
(* unaccessed entry is taken, any other has accessed cleared and the hand  *)
(* moves on.  Returns the chosen index and the accessed bits afterwards.   *)
RECURSIVE ClockScan(_, _)
ClockScan(c, cur) ==
    IF ~c[cur].used \/ c[cur].accessed = 0 THEN <<cur, c>>
    ELSE ClockScan([c EXCEPT ![cur].accessed = 0], (cur + 1) % CacheSize)

\* Mutant: the hand is advanced without the % 64 wrap.
FetchFreeCacheNoWrap(c, cur, d) ==
    LET r == ClockScan(c, cur)
        i == r[1]
        v == r[2][i]
    IN  [idx   |-> i,
         cache |-> [r[2] EXCEPT ![i].used = FALSE],
         cur   |-> i + 1,
         disk  |-> IF v.used /\ v.dirty /\ v.sector_id \in Sectors
                   THEN [d EXCEPT ![v.sector_id] = v.buffer] ELSE d]

(* fetch_free_cache as a whole: the victim, the cache with the victim      *)
(* released, the new hand, and the disk after a dirty victim's write-back. *)
FetchFreeCache(c, cur, d) ==
    LET r == ClockScan(c, cur)
        i == r[1]
        v == r[2][i]
    IN  [idx   |-> i,
         cache |-> [r[2] EXCEPT ![i].used = FALSE],
         cur   |-> (i + 1) % CacheSize,
         disk  |-> IF v.used /\ v.dirty /\ v.sector_id \in Sectors
                   THEN [d EXCEPT ![v.sector_id] = v.buffer] ELSE d]

\* increase_accessed: every used entry counts one more access, the entry
\* being written is reset to 0.
IncreaseAccessed(c, i) ==
    [j \in Idx |-> IF j = i THEN [c[j] EXCEPT !.accessed = 0]
                   ELSE IF j \in InArray /\ c[j].used
                        THEN [c[j] EXCEPT !.accessed = 1] ELSE c[j]]

-----------------------------------------------------------------------------
Init ==
    /\ cache = [i \in Idx |->
                  IF i = -1 THEN BelowCache
                  ELSE [buffer |-> Initial, sector_id |-> 0, accessed |-> 0,
                        dirty |-> FALSE, used |-> FALSE]]
    /\ cacheCur = -1
    /\ disk = [s \in Sectors |-> Initial]
    /\ pc = [t \in Threads |-> "idle"]
    /\ pend = [t \in Threads |-> NoPend]
    /\ last = [s \in Sectors |-> Initial]

\* Mutant: a miss claims the entry but never block_reads the sector.
CacheReadNoFill(t, s) ==
    /\ pc[t] = "idle"
    /\ LET hit == FindSector(cache, s)
           f   == FetchFreeCache(cache, cacheCur, disk)
       IN  IF hit # -1 THEN UNCHANGED <<cache, cacheCur, disk>>
           ELSE /\ cache' = [f.cache EXCEPT ![f.idx].sector_id = s,
                                            ![f.idx].used = TRUE,
                                            ![f.idx].accessed = 1]
                /\ cacheCur' = f.cur
                /\ disk' = f.disk
    /\ UNCHANGED <<pc, pend, last>>

\* cache_read of sector s.  A hit copies the entry out; a miss takes an
\* entry from fetch_free_cache and block_reads s into it.  The statement
\* `dirty == false` compares and discards, so dirty keeps its old value.
CacheRead(t, s) ==
    /\ pc[t] = "idle"
    /\ LET hit == FindSector(cache, s)
           f   == FetchFreeCache(cache, cacheCur, disk)
       IN  IF hit # -1 THEN UNCHANGED <<cache, cacheCur, disk>>
           ELSE /\ cache' = [f.cache EXCEPT ![f.idx].sector_id = s,
                                            ![f.idx].used = TRUE,
                                            ![f.idx].accessed = 1,
                                            ![f.idx].buffer = f.disk[s]]
                /\ cacheCur' = f.cur
                /\ disk' = f.disk
    /\ UNCHANGED <<pc, pend, last>>

\* The locked part of cache_write of buffer v to sector s: a hit updates
\* the accessed counts and the entry, a miss fills a fetched entry.  The
\* thread then unlocks and has the write-through still to do.
CacheWrite(t, s, v) ==
    /\ pc[t] = "idle"
    /\ LET hit == FindSector(cache, s)
           f   == FetchFreeCache(cache, cacheCur, disk)
       IN  IF hit # -1
           THEN /\ cache' = [IncreaseAccessed(cache, hit) EXCEPT
                               ![hit].buffer = v, ![hit].dirty = TRUE]
                /\ UNCHANGED <<cacheCur, disk>>
           ELSE /\ cache' = [f.cache EXCEPT ![f.idx].sector_id = s,
                                            ![f.idx].used = TRUE,
                                            ![f.idx].dirty = TRUE,
                                            ![f.idx].accessed = 1,
                                            ![f.idx].buffer = v]
                /\ cacheCur' = f.cur
                /\ disk' = f.disk
    /\ pc' = [pc EXCEPT ![t] = "write_through"]
    /\ pend' = [pend EXCEPT ![t] = [sector |-> s, buffer |-> v]]
    /\ last' = [last EXCEPT ![s] = v]

\* block_write (fs_device, sector_id, buffer) after lock_release.
WriteThrough(t) ==
    /\ pc[t] = "write_through"
    /\ disk' = [disk EXCEPT ![pend[t].sector] = pend[t].buffer]
    /\ pc' = [pc EXCEPT ![t] = "idle"]
    /\ pend' = [pend EXCEPT ![t] = NoPend]
    /\ UNCHANGED <<cache, cacheCur, last>>

\* cache_back_to_disk, run by write_behind_func every 500 ms and by
\* filesys_done: every used dirty entry of the array is written (in index
\* order, so the last one of a sector wins) and released.
CacheBackToDisk ==
    LET flushed == {i \in InArray : cache[i].used /\ cache[i].dirty}
        lastOf(s) == CHOOSE i \in flushed :
                        /\ cache[i].sector_id = s
                        /\ \A j \in flushed : cache[j].sector_id = s => j <= i
    IN  /\ disk' = [s \in Sectors |->
                      IF \E i \in flushed : cache[i].sector_id = s
                      THEN cache[lastOf(s)].buffer ELSE disk[s]]
        /\ cache' = [i \in Idx |-> IF i \in flushed
                        THEN [cache[i] EXCEPT !.used = FALSE, !.dirty = FALSE]
                        ELSE cache[i]]
        /\ UNCHANGED <<cacheCur, pc, pend, last>>

Next ==
    \/ CacheBackToDisk
    \/ \E t \in Threads :
          \/ WriteThrough(t)
          \/ \E s \in Sectors : \/ CacheRead(t, s)
                                \/ \E v \in Values : CacheWrite(t, s, v)

Spec == Init /\ [][Next]_vars

-----------------------------------------------------------------------------
(* Properties *)

TypeOK ==
    /\ cache \in [Idx -> Entry]
    /\ cacheCur \in Idx
    /\ disk \in [Sectors -> Data]
    /\ pc \in [Threads -> {"idle", "write_through"}]
    /\ pend \in [Threads -> [sector : Sectors, buffer : Data]]
    /\ last \in [Sectors -> Values \cup {Initial}]

\* What a cache_read of s would return now: the cached copy if find_sector
\* finds one, else the sector on disk.
Visible(s) ==
    IF FindSector(cache, s) # -1 THEN cache[FindSector(cache, s)].buffer
    ELSE disk[s]

\* Once no cache_write to sector s is between its unlock and its
\* write-through, cache_read of s returns the buffer of the cache_write
\* that updated the cache last: no later flush, eviction or write-through
\* brings back an older buffer.
CacheCoherent ==
    \A s \in Sectors :
        (\A t \in Threads : pc[t] = "write_through" => pend[t].sector # s)
            => Visible(s) = last[s]

\* At every reachable state whose hand is inside the array, the clock of
\* fetch_free_cache takes the first entry from the hand onwards that is
\* unused or unaccessed (the hand itself if there is none), clears the
\* accessed bit of exactly the entries it passes, and leaves the hand just
\* after the victim.
ClockMatchesReference ==
    cacheCur \in InArray =>
        LET pos(k) == (cacheCur + k) % CacheSize
            free(k) == ~cache[pos(k)].used \/ cache[pos(k)].accessed = 0
            steps == IF \E k \in InArray : free(k)
                     THEN CHOOSE k \in InArray :
                            free(k) /\ \A j \in 0 .. k - 1 : ~free(j)
                     ELSE CacheSize
            f == FetchFreeCache(cache, cacheCur, disk)
        IN  /\ f.idx = pos(steps % CacheSize)
            /\ f.cur = pos((steps + 1) % CacheSize)
            /\ \A k \in InArray :
                  f.cache[pos(k)].accessed =
                     IF k < steps THEN 0 ELSE cache[pos(k)].accessed

\* fetch_free_cache only ever hands out and updates entries of the array:
\* the memory before cache[0] is left as it was.
NoAccessBelowCache == cache[-1] = BelowCache
=============================================================================
