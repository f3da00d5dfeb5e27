SPECIFICATION Spec
CONSTANTS
    c1 = c1
    c2 = c2
    k1 = k1
    k2 = k2
    ns1 = ns1
    t1 = t1
    t2 = t2
    Clients <- MCClients
    Keys <- MCKeys
    Tokens <- MCTokens
    Namespaces <- MCNamespaces
    NsOf <- MCNsOf
    Size <- MCSize
    NoKey = NoKey
    NoToken = NoToken
    NoReservation = NoReservation
    Targets = {1}
    StaleAuthority = {}
    SyncMayFail = TRUE
SYMMETRY Symmetry
INVARIANTS
    WritingReserved
    RefcountExact
    RowBacked
    PinConsistent
    NoStrandedWaiter
PROPERTIES
    EvictionLegal
