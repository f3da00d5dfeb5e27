SPECIFICATION Spec
CONSTANTS
    m1 = m1
    m2 = m2
    r1 = r1
    r2 = r2
    Models = {m1, m2}
    Requests = {r1, r2}
    KeepAlives = {"zero", "ttl"}
    MemoryAware = TRUE
    Capacity = 1
    Exits = TRUE
    None = None
SYMMETRY Symmetry
INVARIANTS
    CountsExact
    NobodyStuck
PROPERTIES
    IdleUnloadSpares
