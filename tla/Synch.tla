-------------------------------- MODULE Synch --------------------------------
(***************************************************************************)
(* Semaphores, locks and condition variables of OS_proj_1/threads/synch.c  *)
(* (priority scheduling mode, thread_mlfqs false), used by a client in     *)
(* every thread that takes one lock, may wait on or signal one condition   *)
(* variable of that lock, and releases it.                                 *)
(*                                                                         *)
(* sema_down, sema_up and sema_try_down run with interrupts off, so each   *)
(* is one step, except that sema_down blocks: a blocked thread takes no    *)
(* step until sema_up unblocks it, and then re-tests the value (the while *)
(* loop).  Between the calls of lock_acquire, lock_release and cond_wait   *)
(* interrupts are on and any ready thread may run.                         *)
(*                                                                         *)
(* Priorities are fixed (Pri): donate_priority, restore_priority and the   *)
(* scheduler are in thread.c, which is not part of the sources modelled.   *)
(* comparator_thread_priority orders by higher priority first.            *)
(***************************************************************************)
EXTENDS Integers, Sequences, SequencesExt, FiniteSets

CONSTANTS
    Threads,     \* kernel threads running the client
    Pri,         \* Pri[t]: priority of thread t
    StackJunk,   \* values a read of uninitialised stack memory may yield
    UseTry,      \* whether the client also takes the lock by lock_try_acquire
    None

ASSUME /\ Pri \in [Threads -> Int]
       /\ StackJunk \subseteq Int /\ StackJunk # {}
       /\ UseTry \in BOOLEAN

PRI_MIN == 0

VARIABLES
    value,       \* lock->semaphore.value
    waiters,     \* lock->semaphore.waiters, highest priority first
    holder,      \* lock->holder
    lockPri,     \* lock->priority
    locksHave,   \* locksHave[t]: the lock is on t's locks_have list
    lockWaiting, \* lockWaiting[t]: t's lock_waiting points at the lock
    condWaiters, \* cond->waiters: the semaphore_elems, by owning thread
    wvalue,      \* wvalue[t]: value of t's semaphore_elem semaphore
    blocked,     \* threads blocked in a sema_down
    pc,          \* pc[t]: where thread t is
    ret          \* ret[t]: where t's current lock call returns to

vars == <<value, waiters, holder, lockPri, locksHave, lockWaiting,
          condWaiters, wvalue, blocked, pc, ret>>

PCs == {"idle", "acq_begin", "acq_down", "acq_end", "cs", "rel", "rel_pri",
        "cw_down", "bc"}

Ready(t) == t \notin blocked

\* list_insert_ordered with comparator_thread_priority: t goes after every
\* waiter of equal or higher priority.
InsertOrdered(s, t) ==
    LET i == SelectInSeq(s, LAMBDA x : Pri[x] < Pri[t])
    IN  IF i = 0 THEN Append(s, t) ELSE InsertAt(s, i, t)

\* list_sort (a stable merge sort) with a "greater key first" comparator.
SortDesc(s, key) ==
    LET before(i, j) == key[i] > key[j] \/ (key[i] = key[j] /\ i < j)
        rank(i) == Cardinality({j \in DOMAIN s : before(j, i)}) + 1
    IN  [r \in DOMAIN s |-> s[CHOOSE i \in DOMAIN s : rank(i) = r]]

-----------------------------------------------------------------------------
Init ==
    /\ value = 1
    /\ waiters = <<>>
    /\ holder = None
    /\ lockPri = PRI_MIN
    /\ locksHave = [t \in Threads |-> FALSE]
    /\ lockWaiting = [t \in Threads |-> FALSE]
    /\ condWaiters = <<>>
    /\ wvalue = [t \in Threads |-> 0]
    /\ blocked = {}
    /\ pc = [t \in Threads |-> "idle"]
    /\ ret = [t \in Threads |-> "cs"]

\* The client calls lock_acquire.
Acquire(t) ==
    /\ pc[t] = "idle"
    /\ pc' = [pc EXCEPT ![t] = "acq_begin"]
    /\ ret' = [ret EXCEPT ![t] = "cs"]
    /\ UNCHANGED <<value, waiters, holder, lockPri, locksHave, lockWaiting,
                   condWaiters, wvalue, blocked>>

\* lock_acquire up to sema_down: lock_waiting is set and, if the lock looks
\* free, its priority becomes the caller's (donation to a holder of lower
\* priority is in thread.c).
AcquireBegin(t) ==
    /\ pc[t] = "acq_begin"
    /\ lockWaiting' = [lockWaiting EXCEPT ![t] = TRUE]
    /\ lockPri' = IF holder = None THEN Pri[t] ELSE lockPri
    /\ pc' = [pc EXCEPT ![t] = "acq_down"]
    /\ UNCHANGED <<value, waiters, holder, locksHave, condWaiters, wvalue,
                   blocked, ret>>

\* One pass of sema_down's loop on the lock's semaphore: take the value,
\* or join the waiters in priority order and block.
LockSemaDown(t) ==
    /\ pc[t] = "acq_down"
    /\ Ready(t)
    /\ IF value > 0
       THEN /\ value' = value - 1
            /\ pc' = [pc EXCEPT ![t] = "acq_end"]
            /\ UNCHANGED <<waiters, blocked>>
       ELSE /\ waiters' = InsertOrdered(waiters, t)
            /\ blocked' = blocked \cup {t}
            /\ UNCHANGED <<value, pc>>
    /\ UNCHANGED <<holder, lockPri, locksHave, lockWaiting, condWaiters,
                   wvalue, ret>>

\* After sema_down: record the holder, clear lock_waiting and put the lock
\* on locks_have.
AcquireEnd(t) ==
    /\ pc[t] = "acq_end"
    /\ holder' = t
    /\ lockWaiting' = [lockWaiting EXCEPT ![t] = FALSE]
    /\ locksHave' = [locksHave EXCEPT ![t] = TRUE]
    /\ pc' = [pc EXCEPT ![t] = ret[t]]
    /\ UNCHANGED <<value, waiters, lockPri, condWaiters, wvalue, blocked,
                   ret>>

\* lock_try_acquire succeeding: sema_try_down, then lock->holder.  The lock
\* is not put on locks_have.
TryAcquire(t) ==
    /\ UseTry
    /\ pc[t] = "idle"
    /\ value > 0
    /\ value' = value - 1
    /\ holder' = t
    /\ pc' = [pc EXCEPT ![t] = "cs"]
    /\ UNCHANGED <<waiters, lockPri, locksHave, lockWaiting, condWaiters,
                   wvalue, blocked, ret>>

\* The client calls lock_release.
Release(t) ==
    /\ pc[t] = "cs"
    /\ pc' = [pc EXCEPT ![t] = "rel"]
    /\ ret' = [ret EXCEPT ![t] = "idle"]
    /\ UNCHANGED <<value, waiters, holder, lockPri, locksHave, lockWaiting,
                   condWaiters, wvalue, blocked>>

\* Mutant: sema_up pops the waiter but never calls thread_unblock.
ReleaseUpNoUnblock(t) ==
    /\ pc[t] = "rel"
    /\ locksHave' = [locksHave EXCEPT ![t] = FALSE]
    /\ holder' = None
    /\ waiters' = IF waiters = <<>> THEN waiters ELSE Tail(waiters)
    /\ value' = value + 1
    /\ pc' = [pc EXCEPT ![t] = "rel_pri"]
    /\ UNCHANGED <<lockPri, lockWaiting, condWaiters, wvalue, blocked, ret>>

\* lock_release up to and including sema_up: list_remove from locks_have,
\* holder cleared, then the highest-priority waiter unblocked and the
\* value incremented.  thread_yield lets any ready thread run next.
ReleaseUp(t) ==
    /\ pc[t] = "rel"
    /\ locksHave' = [locksHave EXCEPT ![t] = FALSE]
    /\ holder' = None
    /\ IF waiters = <<>>
       THEN UNCHANGED <<waiters, blocked>>
       ELSE /\ waiters' = Tail(waiters)
            /\ blocked' = blocked \ {Head(waiters)}
    /\ value' = value + 1
    /\ pc' = [pc EXCEPT ![t] = "rel_pri"]
    /\ UNCHANGED <<lockPri, lockWaiting, condWaiters, wvalue, ret>>

\* The rest of lock_release, after sema_up returns: the lock's priority is
\* that of the first remaining waiter, or 0.
ReleasePri(t) ==
    /\ pc[t] = "rel_pri"
    /\ lockPri' = IF waiters = <<>> THEN 0 ELSE Pri[Head(waiters)]
    /\ pc' = [pc EXCEPT ![t] = ret[t]]
    /\ UNCHANGED <<value, waiters, holder, locksHave, lockWaiting,
                   condWaiters, wvalue, blocked, ret>>

\* cond_wait: a fresh semaphore_elem (value 0) goes to the back of
\* cond->waiters, then lock_release, returning to the sema_down.
CondWait(t) ==
    /\ pc[t] = "cs"
    /\ condWaiters' = Append(condWaiters, t)
    /\ wvalue' = [wvalue EXCEPT ![t] = 0]
    /\ pc' = [pc EXCEPT ![t] = "rel"]
    /\ ret' = [ret EXCEPT ![t] = "cw_down"]
    /\ UNCHANGED <<value, waiters, holder, lockPri, locksHave, lockWaiting,
                   blocked>>

\* Mutant: an "if" for sema_down's "while": a woken thread decrements
\* without re-testing.
CondSemaDownNoLoop(t) ==
    /\ pc[t] = "cw_down"
    /\ Ready(t)
    /\ wvalue' = [wvalue EXCEPT ![t] = @ - 1]
    /\ pc' = [pc EXCEPT ![t] = "acq_begin"]
    /\ ret' = [ret EXCEPT ![t] = "cs"]
    /\ UNCHANGED <<value, waiters, holder, lockPri, locksHave, lockWaiting,
                   condWaiters, blocked>>

\* One pass of sema_down on the thread's own semaphore_elem; when it gets
\* through, cond_wait goes on to lock_acquire.
CondSemaDown(t) ==
    /\ pc[t] = "cw_down"
    /\ Ready(t)
    /\ IF wvalue[t] > 0
       THEN /\ wvalue' = [wvalue EXCEPT ![t] = @ - 1]
            /\ pc' = [pc EXCEPT ![t] = "acq_begin"]
            /\ ret' = [ret EXCEPT ![t] = "cs"]
            /\ UNCHANGED blocked
       ELSE /\ blocked' = blocked \cup {t}
            /\ UNCHANGED <<wvalue, pc, ret>>
    /\ UNCHANGED <<value, waiters, holder, lockPri, locksHave, lockWaiting,
                   condWaiters>>

SignalFront ==
    \E junk \in [DOMAIN condWaiters -> StackJunk] :
        LET key == [i \in DOMAIN condWaiters |->
                      IF condWaiters[i] \in blocked THEN Pri[condWaiters[i]]
                      ELSE junk[i]]
            sorted == SortDesc(condWaiters, key)
            w == Head(sorted)
        IN  /\ condWaiters' = Tail(sorted)
            /\ wvalue' = [wvalue EXCEPT ![w] = @ + 1]
            /\ blocked' = blocked \ {w}

CondSignal(t) ==
    /\ pc[t] = "cs"
    /\ condWaiters # <<>>
    /\ SignalFront
    /\ UNCHANGED <<value, waiters, holder, lockPri, locksHave, lockWaiting,
                   pc, ret>>

\* The client calls cond_broadcast.
CondBroadcast(t) ==
    /\ pc[t] = "cs"
    /\ pc' = [pc EXCEPT ![t] = "bc"]
    /\ UNCHANGED <<value, waiters, holder, lockPri, locksHave, lockWaiting,
                   condWaiters, wvalue, blocked, ret>>

\* Mutant: an "if" for cond_broadcast's "while": one cond_signal, then return.
BroadcastStepOnce(t) ==
    /\ pc[t] = "bc"
    /\ IF condWaiters = <<>>
       THEN UNCHANGED <<condWaiters, wvalue, blocked>>
       ELSE SignalFront
    /\ pc' = [pc EXCEPT ![t] = "cs"]
    /\ UNCHANGED <<value, waiters, holder, lockPri, locksHave, lockWaiting,
                   ret>>

\* One test of cond_broadcast's loop: return when cond->waiters is empty,
\* else one cond_signal.  The thread_yield at the end of its sema_up lets
\* any ready thread run before the next test.
BroadcastStep(t) ==
    /\ pc[t] = "bc"
    /\ IF condWaiters = <<>>
       THEN /\ pc' = [pc EXCEPT ![t] = "cs"]
            /\ UNCHANGED <<condWaiters, wvalue, blocked>>
       ELSE /\ SignalFront
            /\ UNCHANGED pc
    /\ UNCHANGED <<value, waiters, holder, lockPri, locksHave, lockWaiting,
                   ret>>

Next ==
    \E t \in Threads :
        \/ Acquire(t) \/ AcquireBegin(t) \/ LockSemaDown(t) \/ AcquireEnd(t)
        \/ TryAcquire(t)
        \/ Release(t) \/ ReleaseUp(t) \/ ReleasePri(t)
        \/ CondWait(t) \/ CondSemaDown(t) \/ CondSignal(t)
        \/ CondBroadcast(t) \/ BroadcastStep(t)

\* A thread that is ready and inside a synch.c call keeps running: the
\* scheduler runs every ready thread eventually.
Fairness ==
    \A t \in Threads :
        /\ WF_vars(LockSemaDown(t)) /\ WF_vars(CondSemaDown(t))
        /\ WF_vars(AcquireBegin(t)) /\ WF_vars(AcquireEnd(t))
        /\ WF_vars(ReleaseUp(t)) /\ WF_vars(ReleasePri(t))
        /\ WF_vars(BroadcastStep(t))

Spec == Init /\ [][Next]_vars /\ Fairness

-----------------------------------------------------------------------------
(* Properties *)

TypeOK ==
    /\ value \in Nat
    /\ waiters \in Seq(Threads)
    /\ holder \in Threads \cup {None}
    /\ lockPri \in Int
    /\ locksHave \in [Threads -> BOOLEAN]
    /\ lockWaiting \in [Threads -> BOOLEAN]
    /\ condWaiters \in Seq(Threads)
    /\ wvalue \in [Threads -> Nat]
    /\ blocked \subseteq Threads
    /\ pc \in [Threads -> PCs]
    /\ ret \in [Threads -> {"cs", "idle", "cw_down"}]

\* Threads that got through the lock's sema_down and have not yet done
\* its sema_up in lock_release.
Owners == {t \in Threads : pc[t] \in {"acq_end", "cs", "rel", "bc"}}

\* The lock's semaphore counts right through every interleaving of
\* acquire, release, wake-up and re-test: at most one thread owns the lock,
\* the value is 1 exactly when nobody does, lock->holder names the owner
\* once it has recorded itself, and the waiters list holds exactly the
\* threads asleep in the lock's sema_down.
LockExclusive ==
    /\ Cardinality(Owners) <= 1
    /\ value + Cardinality(Owners) = 1
    /\ holder # None => holder \in Owners
    /\ \A t \in Threads :
          t \in ToSet(waiters) <=> (t \in blocked /\ pc[t] = "acq_down")

BroadcastWakesAll ==
    \A b, t \in Threads :
        (pc[b] = "bc" /\ t \in ToSet(condWaiters))
            ~> (t \notin ToSet(condWaiters))

\* cond_signal wakes the waiter of highest priority among those on the
\* condition variable (what the priority-condvar test expects).
SignalWakesHighest ==
    [][\A w \in ToSet(condWaiters) \ ToSet(condWaiters') :
          \A x \in ToSet(condWaiters) : Pri[x] <= Pri[w]]_vars

\* lock_release does list_remove (&lock->elem) on the releasing thread's
\* locks_have: the lock must be on that list when a thread gets there,
\* whichever way (lock_acquire or lock_try_acquire) it took the lock.
ReleaseRemovesListedLock ==
    \A t \in Threads : pc[t] = "rel" => locksHave[t]
=============================================================================
