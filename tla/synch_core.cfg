\* Three threads taking the lock (by lock_acquire or
\* lock_try_acquire), waiting on, signalling and broadcasting the condition.
\* Every thread may end up waiting with nobody left to signal, so the
\* system may stop: deadlock is not checked.
CONSTANTS
    t1 = t1
    t2 = t2
    t3 = t3
    Threads <- MCThreads3
    Pri <- MCPri
    StackJunk <- MCJunk
    UseTry = TRUE
    None = None
SPECIFICATION Spec
INVARIANT TypeOK
INVARIANT LockExclusive
 
PROPERTY BroadcastWakesAll
CHECK_DEADLOCK FALSE
