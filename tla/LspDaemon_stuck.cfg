SPECIFICATION Spec
CONSTANTS
    p1 = p1 p2 = p2
    d1 = d1 d2 = d2 d3 = d3
    NoProc = NoProc
    NoDaemon = NoDaemon
    Procs = {p1}
    Daemons = {d1, d2, d3}
    FaultKinds = {"hang"}
    MaxFaults = 1
INVARIANTS StuckIsStopped
