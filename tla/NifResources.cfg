SPECIFICATION Spec
CONSTANTS
    t1 = t1
    t2 = t2
    m1 = m1
    c1 = c1
    a1 = a1
    a2 = a2
    s1 = s1
    Threads = {t1, t2}
    Models = {m1}
    Contexts = {c1}
    Adapters = {a1, a2}
    Samplers = {s1}
    Addr <- MCAddr
    MaxAddr = 2
    Budget = TRUE
    None = None
CHECK_DEADLOCK FALSE
INVARIANTS
    UsedWhileAlive
    UsersCounted
    DeferredWaits
    SomeCallAdvances
    ArmedEndsOwn
PROPERTIES
    ImplementsLifetimes
SYMMETRY ThreadSymmetry
