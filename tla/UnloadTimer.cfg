SPECIFICATION TimedSpec
CONSTANTS
    m1 = m1
    m2 = m2
    r1 = r1
    r2 = r2
    Models = {m1}
    Requests = {r1}
    KeepAlives = {"ttl"}
    MemoryAware = TRUE
    Capacity = 1
    Exits = FALSE
    None = None
PROPERTIES
    ArmedTimerEnds
