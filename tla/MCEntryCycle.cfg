SPECIFICATION CrashingSpec
CONSTANTS
    r1 = r1
    r2 = r2
    b1 = b1
    b2 = b2
    Runs = {r1, r2}
    BotOf <- TwoBots
    Intents = {i1, i2, i3}
    Traces = {t1, t2}
    Runtimes = {s1}
    Handlers = {}
    Watchers = {}
    NoRun = NoRun
    NoIntent = NoIntent
    Precision = 4
    Candidates <- SmallCandidates
SYMMETRY Symmetry
CHECK_DEADLOCK FALSE
INVARIANTS
    
    
    NoEntryDuringRecovery
    EntrySizeFits
    EntryHasOneDirection

    
