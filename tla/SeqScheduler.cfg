SPECIFICATION FairSpec
CONSTANTS
    r1 = r1
    r2 = r2
    r3 = r3
    s1 = s1
    s2 = s2
    q0 = q0
    q1 = q1
    Requests <- ThreeRequests
    Sessions <- TwoSessions
    Seqs <- TwoSeqs
    Serialised = TRUE
    MaxTicks = 2
    NoRequest = NoRequest
    NoSession = NoSession
    NoSeq = NoSeq
INVARIANTS
    SeqsConserved
    SessionExclusive
    CellsOwned
    CallersAccounted
    TickArmed
PROPERTIES
    DispatchMaximal
    CallerAnswered
