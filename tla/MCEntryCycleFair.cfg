SPECIFICATION FairSpec
CONSTANTS
    r1 = r1
    r2 = r2
    b1 = b1
    b2 = b2
    Runs = {r1}
    BotOf <- OneRun
    Intents = {i1, i2}
    Traces = {t1, t2}
    Runtimes = {s1}
    Handlers = {}
    Watchers = {w1}
    NoRun = NoRun
    NoIntent = NoIntent
    Precision = 4
    Candidates = {}
CHECK_DEADLOCK FALSE
INVARIANTS
    OneEntryPerRun
    FailedEntryTraced
    OneTracePerEntry
PROPERTIES
    LockGivenBack
    OverdueEntryNoticed
