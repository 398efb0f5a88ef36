\* Three threads waiting on and signalling one condition variable.
CONSTANTS
    t1 = t1
    t2 = t2
    t3 = t3
    Threads <- MCThreads3
    Pri <- MCPri
    StackJunk <- MCJunk
    UseTry = FALSE
    None = None
SPECIFICATION Spec
PROPERTY SignalWakesHighest
CHECK_DEADLOCK FALSE
