SPECIFICATION Spec
CONSTANTS
    r1 = r1
    r2 = r2
    r3 = r3
    Requests <- ThreeRequests
    Pipelined <- MCPipelined
    Concurrency = 1
    Depths = {1}
INVARIANT InferencesBounded
