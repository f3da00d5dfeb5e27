SPECIFICATION Spec
CONSTANTS
    r1 = r1
    r2 = r2
    r3 = r3
    s1 = s1
    s2 = s2
    q0 = q0
    q1 = q1
    Requests <- TwoRequests
    Sessions <- OneSession
    Seqs <- TwoSeqs
    Serialised = FALSE
    MaxTicks = 2
    NoRequest = NoRequest
    NoSession = NoSession
    NoSeq = NoSeq
INVARIANT SeqsConserved
