\* A server on a pool of two threads whose acceptor cannot be opened.
CONSTANTS
    PoolSize = 2
    Ways = {"pool"}
    Faults = {"open"}
SPECIFICATION FairSpec
PROPERTIES ErrorsArePropagated
CHECK_DEADLOCK FALSE
