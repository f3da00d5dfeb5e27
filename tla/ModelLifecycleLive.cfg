SPECIFICATION FairSpec
CONSTANTS
    m1 = m1
    m2 = m2
    r1 = r1
    r2 = r2
    Models = {m1, m2}
    Requests = {r1, r2}
    KeepAlives = {"forever"}
    MemoryAware = TRUE
    Capacity = 1
    Exits = FALSE
    None = None
PROPERTIES
    SubscribersAnswered
    DeadModelForgotten
