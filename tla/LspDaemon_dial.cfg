SPECIFICATION FairSpec
CONSTANTS
    p1 = p1 p2 = p2
    d1 = d1 d2 = d2 d3 = d3
    NoProc = NoProc
    NoDaemon = NoDaemon
    Procs = {p1, p2}
    Daemons = {d1, d2, d3}
    FaultKinds <- MCFaults
    MaxFaults = 1
INVARIANTS TypeOK SpawnExclusive
PROPERTIES HealthyKept DialReturns Recovers
