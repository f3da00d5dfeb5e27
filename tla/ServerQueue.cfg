SPECIFICATION FairSpec
CONSTANTS
    r1 = r1
    r2 = r2
    r3 = r3
    Requests <- ThreeRequests
    Pipelined <- MCPipelined
    Concurrency = 1
    Depths = {0, 2}
INVARIANTS
    SlotsExact
    CallersAccounted
PROPERTIES
    ImplementsPool
    CallerAnswered
    SlotsReturn
