SPECIFICATION FairSpec
CONSTANTS
    c1 = c1
    c2 = c2
    k1 = k1
    k2 = k2
    ns1 = ns1
    t1 = t1
    t2 = t2
    Clients <- MCClients
    Keys <- OneKey
    Tokens <- MCTokens
    Namespaces <- MCNamespaces
    NsOf <- MCNsOf
    Size <- MCSize
    NoKey = NoKey
    NoToken = NoToken
    NoReservation = NoReservation
    Targets = {1}
    StaleAuthority = {"lapse", "restart"}
    SyncMayFail = TRUE
INVARIANTS
    NobodyForgotten
PROPERTIES
    LinkExclusive
    ImplementsContract
    SaveEnds
    DeadForgotten
    WaiterAnswered
