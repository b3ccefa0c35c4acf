SPECIFICATION Spec
CONSTANTS
    c1 = c1
    c2 = c2
    c3 = c3
    r1 = r1
    r2 = r2
    r3 = r3
    Clients = {c1, c2, c3}
    Runs = {r1, r2, r3}
    RunOf <- OneRunEach
    NoRun = NoRun
PROPERTIES
    ImplementsRunLock
