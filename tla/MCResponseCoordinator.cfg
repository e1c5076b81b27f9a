CONSTANTS
    MaxReqCount = 2
    MaxRequests = 4
    MaxParts = 2
SPECIFICATION Spec
INVARIANTS
    LookupExact
    PartsAccounted
PROPERTIES
    ImplementsResponseQueue
    KeepsPipelinePromise
CHECK_DEADLOCK FALSE
