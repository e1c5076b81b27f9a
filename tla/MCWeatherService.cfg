\* Three threads; every way of running a server, every failure; measurements with the
\* IDs 4 and 5 (the last two of the station's own), or with none.
CONSTANTS
    PoolSize = 3
    Ways = {"this_thread", "pool", "existing", "async"}
    Faults = {"open", "close", "thread"}
    Ids = {4, 5}
    NoNumber = 0
    Dates = {"20211106"}
    Sockets = {s1}
    MaxStamp = 2
SPECIFICATION Service
INVARIANTS SuccessMeansNoError HandlersOutlived
PROPERTIES EndsOnceStopped StationChangedAsAsked
CHECK_DEADLOCK FALSE
